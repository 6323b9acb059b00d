---------------------------- MODULE Boot_proofs ----------------------------
(***************************************************************************)
(* Proofs about what a boot finds of the crash before it: the failures     *)
(* counted in the boot record, the snapshots in retained RAM and the       *)
(* power-fail seal, for any number of failures, faults and brownouts.      *)
(***************************************************************************)
EXTENDS Integers, TLAPS

CONSTANTS Torn, Atomic, Since,                                  \* BootRecord
          Threshold, PromotionMayFail, MaxFailures,             \* BootLoop
          MaxFaults, MaxResets, AppendMayFail,                  \* CrashEvidence
          MaxBrownouts, HasBackup, BootIsQuiet                  \* PowerfailSeal

VARIABLES persistent, medium, up,                               \* BootRecord
          retained, reason, uptime, safe_mode, previous_uptime, \* BootLoop
          failures, early, stale, left_over, ended,
          minimal, wide, counter, capturing, pc, fault,         \* CrashEvidence
          spool, faults, resets, owed, born,
          seal, backup, nmi, now, sealed, last_valid, brownouts \* PowerfailSeal

L == INSTANCE BootLoop
C == INSTANCE CrashEvidence
F == INSTANCE PowerfailSeal

-----------------------------------------------------------------------------
(* A record on the medium, in any of the formats. *)
LoopRecord == [version : 1..3, fields : L!Fields]

(* Types, and: only version 3 of the format has these fields, and no crash *)
(* is pending in RAM.                                                      *)
Facts ==
    /\ medium = Torn \/ (medium \in LoopRecord /\ (medium.version = 3 \/ medium.fields = L!Blank))
    /\ persistent \in L!Fields /\ ~persistent.crash_pending
    /\ failures \in Nat /\ early \in Nat /\ stale \in Nat
    /\ up \in BOOLEAN /\ left_over \in BOOLEAN /\ retained \in BOOLEAN
    /\ uptime \in {"short", "long"}

(* What a boot that starts now would load, and what a record will cost it. *)
Loaded == L!ls_boot_state_load(L!Blank)

Charge(r) == r.consecutive_failures + (IF r.crash_pending THEN 1 ELSE 0)

(* The failures there were, and the snapshots counted a second time. *)
Budget == failures + stale

(* The counter in RAM, the one on the medium with a crash it announces, and *)
(* what the next boot will count are all paid for by failures.              *)
Paid ==
    /\ persistent.consecutive_failures <= Budget
    /\ medium # Torn => Charge(medium.fields) <= Budget
    /\ ~up => L!Counted(Loaded) <= Budget + (IF left_over THEN 1 ELSE 0)

(* A run of early failures is in the counter: in RAM and on the medium      *)
(* while the firmware runs, and in what the next boot will count.           *)
Run ==
    /\ up /\ early > 0 => /\ medium # Torn /\ medium.version = 3
                          /\ early <= medium.fields.consecutive_failures
                          /\ early <= persistent.consecutive_failures
                          /\ ~medium.fields.boot_successful /\ ~persistent.boot_successful
                          /\ uptime = "short" => medium.fields.previous_uptime_ms = "short"
    /\ ~up => early <= L!Counted(Loaded)
    /\ L!LoopDetected

(* The inductive invariant of the failure accounting. *)
LInv == Facts /\ Paid /\ Run

(* The record of a fresh device counts nothing. *)
LEMMA LBlank == /\ L!Blank \in L!Fields /\ L!Blank.consecutive_failures = 0 /\ ~L!Blank.crash_pending
                /\ ~L!Blank.expected_reset /\ ~L!Blank.boot_successful
                /\ L!Blank.previous_uptime_ms = "short"
BY DEF L!Blank, L!Fields

(* What the next boot loads. *)
LEMMA Loads ==
    ASSUME L!BootRecordAssumption, Torn \notin LoopRecord, Facts
    PROVE  /\ Loaded = IF medium = Torn THEN L!Blank ELSE medium.fields
           /\ Loaded \in L!Fields
<1>1. medium # Torn => medium \in LoopRecord /\ medium.fields \in L!Fields
  BY DEF Facts, LoopRecord
<1>2. Loaded = IF medium = Torn THEN L!Blank ELSE medium.fields
  BY <1>1 DEF Facts, Loaded, L!ls_boot_state_load, L!BootRecordAssumption, LoopRecord
<1>3. QED
  BY <1>1, <1>2, LBlank

(* Bounds of the count of the next boot. *)
LEMMA CountedIs ==
    ASSUME NEW r \in L!Fields
    PROVE  /\ L!Counted(r) \in Nat /\ L!Counted(r) <= r.consecutive_failures + 1
           /\ ~L!Charged(r) => L!Counted(r) <= r.consecutive_failures
           /\ ~L!Charged(r) /\ ~r.boot_successful => L!Counted(r) = r.consecutive_failures
           /\ L!Charged(r) => L!Counted(r) >= 1
           /\ L!Charged(r) /\ r.previous_uptime_ms = "short" => L!Counted(r) = r.consecutive_failures + 1
BY DEF L!Counted, L!Fields

(* The invariant holds before the first boot. *)
LEMMA LInit == ASSUME L!BootRecordAssumption, L!BootLoopAssumption, Torn \notin LoopRecord, L!Init PROVE LInv
<1>1. medium = Torn \/ (medium \in LoopRecord /\ medium.fields = L!Blank)
  <2>1. ASSUME NEW v \in 1..3, medium = L!OnMedium(v, L!Blank)
        PROVE medium \in LoopRecord /\ medium.fields = L!Blank
    BY <2>1, LBlank DEF L!OnMedium, LoopRecord
  <2>2. QED
    BY <2>1 DEF L!Init
<1>2. Facts
  BY <1>1, LBlank DEF L!Init, Facts
<1>3. Loaded = L!Blank
  BY <1>1, <1>2, Loads
<1>4. L!Counted(Loaded) = 0
  BY <1>3, LBlank DEF L!Counted, L!Charged, L!Init
<1>5. Paid
  BY <1>1, <1>4, LBlank DEF L!Init, Paid, Budget, Charge
<1>6. QED
  BY <1>2, <1>4, <1>5 DEF L!Init, LInv, Run, L!LoopDetected, L!BootLoopAssumption

(* What a save leaves on the medium. *)
LEMMA LSaved ==
    ASSUME Facts, NEW r \in L!Fields, NEW o \in L!Outcome,
           medium' \in IF o = "ok" THEN {L!OnMedium(L!LS_BOOT_VERSION, r)} ELSE L!Left(r)
    PROVE  /\ medium' = Torn \/ (medium' \in LoopRecord /\ (medium'.version = 3 \/ medium'.fields = L!Blank))
           /\ \/ medium' \in LoopRecord /\ medium'.version = 3 /\ medium'.fields = r
              \/ o # "ok" /\ medium' \in {medium, Torn}
<1>1. medium' = [version |-> 3, fields |-> r] \/ (o # "ok" /\ medium' \in {medium, Torn})
  BY DEF L!Left, L!OnMedium, L!LS_BOOT_VERSION
<1>2. QED
  BY <1>1 DEF Facts, LoopRecord

(* Charged and Counted of the state in which the next boot will start. *)
ChargedIf(r, kept, why) == r.crash_pending \/ kept \/ (why = "watchdog" /\ ~r.expected_reset)
CountOf(r, kept, why) ==
    IF ChargedIf(r, kept, why)
    THEN IF r.previous_uptime_ms = "short" THEN r.consecutive_failures + 1 ELSE 1
    ELSE IF r.boot_successful THEN 0 ELSE r.consecutive_failures
Found(m) == IF m = Torn THEN L!Blank ELSE m.fields

(* What the next boot will count, in terms of the state that a step leaves. *)
LEMMA Tomorrow ==
    ASSUME L!BootRecordAssumption, Torn \notin LoopRecord, Facts'
    PROVE  L!Counted(Loaded)' = CountOf(Found(medium'), retained', reason') /\ Found(medium') \in L!Fields
<1>1. medium' # Torn => medium' \in LoopRecord /\ medium'.fields \in L!Fields
  BY DEF Facts, LoopRecord
<1>2. Loaded' = Found(medium')
  BY <1>1 DEF Facts, Loaded, L!ls_boot_state_load, L!BootRecordAssumption, LoopRecord, Found,
     L!Blank
<1>3. L!Counted(Loaded)' = CountOf(Loaded', retained', reason')
  BY DEF L!Counted, L!Charged, CountOf, ChargedIf
<1>4. QED
  BY <1>1, <1>2, <1>3, LBlank DEF Found

(* Sums and the budget are natural numbers, also after a step. *)
LEMMA SumNat == \A a, b \in Nat : a + b \in Nat
OBVIOUS

(* The budget after a step is a natural number. *)
LEMMA BudgetIsNat == ASSUME Facts' PROVE Budget' \in Nat /\ left_over' \in BOOLEAN
<1>1. left_over' \in BOOLEAN
  BY Zenon DEF Facts
<1>2. failures' \in Nat /\ stale' \in Nat
  BY Zenon DEF Facts
<1>3. (failures + stale)' \in Nat
  BY <1>2, SumNat
<1>4. QED
  BY <1>1, <1>3 DEF Budget

(* A boot has ended: what the next one counts is paid for. *)
LEMMA DownPaid ==
    ASSUME L!BootRecordAssumption, Torn \notin LoopRecord, Facts', up' = FALSE,
           persistent' = L!Blank \/ persistent'.consecutive_failures <= Budget',
           medium' # Torn => Charge(medium'.fields) <= Budget',
           \/ ~retained' /\ (reason' = "watchdog" => medium' # Torn /\ medium'.fields.expected_reset)
           \/ /\ medium' # Torn => medium'.fields.consecutive_failures + 1
                                     <= Budget' + (IF left_over' THEN 1 ELSE 0)
              /\ 1 <= Budget' + (IF left_over' THEN 1 ELSE 0)
    PROVE  Paid'
<1> DEFINE q == Found(medium')
<1>a. Budget' \in Nat /\ left_over' \in BOOLEAN
  BY BudgetIsNat
<1>b. q \in L!Fields
  BY Tomorrow
<1>0. Budget' \in Nat /\ left_over' \in BOOLEAN /\ q \in L!Fields
  BY <1>a, <1>b
<1>1. q.consecutive_failures <= Budget' /\ (q.crash_pending => q.consecutive_failures + 1 <= Budget')
  BY <1>0, LBlank DEF Found, Charge, L!Fields
<1>2. CountOf(q, retained', reason') <= Budget' + (IF left_over' THEN 1 ELSE 0)
  <2>1. CASE ~retained' /\ (reason' = "watchdog" => medium' # Torn /\ medium'.fields.expected_reset)
    BY <1>0, <1>1, <2>1 DEF CountOf, ChargedIf, Found, L!Fields
  <2>2. CASE /\ medium' # Torn => medium'.fields.consecutive_failures + 1
                                     <= Budget' + (IF left_over' THEN 1 ELSE 0)
             /\ 1 <= Budget' + (IF left_over' THEN 1 ELSE 0)
    <3>1. q.consecutive_failures + 1 <= Budget' + (IF left_over' THEN 1 ELSE 0)
      BY <2>2, LBlank DEF Found
    <3>2. QED
      BY <1>0, <2>2, <3>1 DEF CountOf, L!Fields
  <2>3. QED
    BY <2>1, <2>2
<1>3. QED
  BY <1>0, <1>2, Tomorrow, LBlank DEF Paid

(* And it counts the run of early failures. *)
LEMMA DownRun ==
    ASSUME L!BootRecordAssumption, Torn \notin LoopRecord, Facts', up' = FALSE,
           LET q == Found(medium')
           IN  \/ early' = 0
               \/ /\ ChargedIf(q, retained', reason')
                  /\ early' = 1 \/ (q.previous_uptime_ms = "short" /\ early' <= q.consecutive_failures + 1)
               \/ /\ early' <= q.consecutive_failures
                  /\ ~q.boot_successful /\ q.previous_uptime_ms = "short"
    PROVE  Run'
<1> DEFINE q == Found(medium')
<1>0. early' \in Nat /\ q \in L!Fields
  BY Tomorrow DEF Facts
<1>1. early' <= CountOf(q, retained', reason')
  BY <1>0 DEF CountOf, L!Fields
<1>2. QED
  BY <1>1, Tomorrow DEF Run, L!LoopDetected

(* Without a run of failures there is nothing to detect. *)
LEMMA NoRun == ASSUME L!BootLoopAssumption, up', early' = 0 PROVE Run'
<1>1. ~(0 > 0) /\ ~(0 >= Threshold)
  BY DEF L!BootLoopAssumption
<1>2. ~(early' > 0) /\ ~(early' >= Threshold)
  BY <1>1
<1>3. QED
  BY <1>2 DEF Run, L!LoopDetected

(* What the invariant says of the state before a step, for arithmetic. *)
LEMMA Before ==
    ASSUME LInv
    PROVE  /\ failures \in Nat /\ stale \in Nat /\ early \in Nat
           /\ persistent \in L!Fields /\ ~persistent.crash_pending
           /\ persistent.consecutive_failures \in Nat
           /\ medium # Torn => medium \in LoopRecord /\ medium.fields \in L!Fields
                                /\ medium.fields.consecutive_failures \in Nat
                                /\ medium.fields.consecutive_failures <= failures + stale
                                /\ Charge(medium.fields) <= failures + stale
           /\ persistent.consecutive_failures <= failures + stale
<1>1. medium # Torn => medium \in LoopRecord /\ medium.fields \in L!Fields
  BY DEF LInv, Facts, LoopRecord
<1>2. /\ failures \in Nat /\ stale \in Nat /\ early \in Nat /\ persistent \in L!Fields
      /\ ~persistent.crash_pending
  BY Zenon DEF LInv, Facts
<1>3. persistent.consecutive_failures \in Nat
  BY <1>2 DEF L!Fields
<1>4. medium # Torn => medium.fields.consecutive_failures <= Charge(medium.fields)
                       /\ medium.fields.consecutive_failures \in Nat
  BY <1>1 DEF Charge, L!Fields
<1>5. medium # Torn => Charge(medium.fields) \in Nat
  BY <1>1 DEF Charge, L!Fields
<1>6. QED
  BY <1>1, <1>2, <1>3, <1>4, <1>5 DEF LInv, Paid, Budget

(* A boot that ends well: nothing is counted but a snapshot left over. *)
LEMMA EndsWell ==
    ASSUME L!BootRecordAssumption, Torn \notin LoopRecord, LInv, up, L!EndedWell,
           UNCHANGED <<medium, stale>>,
           up' = FALSE, persistent' = L!Blank, uptime' = uptime,
           \/ retained' = FALSE /\ left_over' = FALSE
           \/ retained' = retained /\ left_over' = retained,
           reason' = "watchdog" => medium # Torn /\ medium.fields.expected_reset
    PROVE  LInv'
<1>1. Facts'
  <2>1. early' \in Nat /\ failures' \in Nat /\ stale' \in Nat
    BY Before DEF L!EndedWell
  <2>2. left_over' \in BOOLEAN /\ retained' \in BOOLEAN /\ up' \in BOOLEAN
    BY Zenon DEF LInv, Facts
  <2>3. persistent' \in L!Fields /\ ~persistent'.crash_pending
    BY LBlank
  <2>4. QED
    BY <2>1, <2>2, <2>3, Zenon DEF LInv, Facts
<1>2. Budget' = failures + stale
  BY DEF L!EndedWell, Budget
<1>3. Paid'
  <2>1. medium' # Torn => Charge(medium'.fields) <= Budget'
    BY <1>2, Before
  <2>2. CASE retained'
    <3>1. left_over' = TRUE
      BY <2>2
    <3>2. medium' # Torn => medium'.fields.consecutive_failures + 1 <= failures + stale + 1
      BY Before
    <3>3. 1 <= failures + stale + 1
      BY Before
    <3>4. QED
      BY <1>1, <1>2, <2>1, <3>1, <3>2, <3>3, DownPaid
  <2>3. CASE ~retained'
    BY <1>1, <2>1, <2>3, DownPaid
  <2>4. QED
    BY <2>2, <2>3
<1>4. Run'
  <2>1. CASE early' = 0
    BY <1>1, <2>1, DownRun
  <2>2. CASE early' # 0
    <3>1. early' = early /\ uptime = "short"
      BY <2>2 DEF L!EndedWell, LInv, Facts
    <3>2. early > 0
      BY <2>2, <3>1, Before
    <3>3. /\ medium # Torn /\ early <= medium.fields.consecutive_failures /\ ~medium.fields.boot_successful
          /\ medium.fields.previous_uptime_ms = "short"
      BY <3>1, <3>2 DEF LInv, Run
    <3>4. Found(medium') = medium.fields
      BY <3>3 DEF Found
    <3>5. QED
      BY <1>1, <3>1, <3>3, <3>4, DownRun
  <2>3. QED
    BY <2>1, <2>2
<1>5. QED
  BY <1>1, <1>3, <1>4 DEF LInv

(* A failure is charged to the next boot. *)
LEMMA EndsFailing ==
    ASSUME L!BootRecordAssumption, Torn \notin LoopRecord, LInv, up, NEW intact \in BOOLEAN,
           L!Failed(intact),
           stale' = stale, up' = FALSE, persistent' = L!Blank, uptime' = uptime,
           retained' \in BOOLEAN, left_over' \in BOOLEAN,
           \/ medium' = medium
           \/ medium' = Torn /\ ~intact
           \/ /\ medium' \in LoopRecord /\ medium'.version = 3
              /\ medium'.fields = [persistent EXCEPT !.crash_pending = TRUE, !.boot_successful = FALSE,
                                                     !.previous_uptime_ms = uptime],
           intact => ChargedIf(Found(medium'), retained', reason')
    PROVE  LInv'
<1> DEFINE marked == [persistent EXCEPT !.crash_pending = TRUE, !.boot_successful = FALSE,
                                        !.previous_uptime_ms = uptime]
<1>0. uptime \in {"short", "long"}
  BY Zenon DEF LInv, Facts
<1>m. /\ marked \in L!Fields /\ marked.consecutive_failures = persistent.consecutive_failures
      /\ marked.previous_uptime_ms = uptime /\ marked.crash_pending
  BY <1>0, Before DEF L!Fields
<1>1. Facts'
  <2>1. early' \in Nat /\ failures' \in Nat /\ stale' \in Nat
    BY Before DEF L!Failed
  <2>2. /\ persistent' \in L!Fields /\ ~persistent'.crash_pending /\ up' \in BOOLEAN
        /\ uptime' \in {"short", "long"}
    BY <1>0, LBlank
  <2>3. medium' = Torn \/ (medium' \in LoopRecord /\ (medium'.version = 3 \/ medium'.fields = L!Blank))
    BY DEF LInv, Facts
  <2>4. QED
    BY <2>1, <2>2, <2>3, Zenon DEF Facts
<1>2. Budget' = failures + stale + 1
  BY Before DEF L!Failed, Budget
<1>3. Paid'
  <2>1. medium' # Torn => /\ Charge(medium'.fields) <= failures + stale + 1
                          /\ medium'.fields.consecutive_failures + 1 <= failures + stale + 1
    <3>1. Charge(marked) = persistent.consecutive_failures + 1
      BY <1>m DEF Charge
    <3>2. CASE medium' = medium
      <4>1. medium # Torn => Charge(medium.fields) \in Nat
        BY Before DEF Charge, L!Fields
      <4>2. QED
        BY <3>2, <4>1, Before
    <3>3. CASE medium' # Torn /\ medium' # medium
      <4>1. medium'.fields = marked
        BY <3>3
      <4>2. QED
        BY <1>m, <3>1, <4>1, Before
    <3>4. QED
      BY <3>2, <3>3
  <2>2. Budget' + (IF left_over' THEN 1 ELSE 0) \in {failures + stale + 1, failures + stale + 2}
    BY <1>2, Before
  <2>3. 1 <= failures + stale + 1 /\ 1 <= failures + stale + 2
    BY Before
  <2>4. medium' # Torn => medium'.fields.consecutive_failures + 1 <= Budget' + (IF left_over' THEN 1 ELSE 0)
    <3>1. medium' # Torn => medium'.fields.consecutive_failures \in Nat
      BY <1>1, Tomorrow DEF Found, L!Fields
    <3>2. QED
      BY <2>1, <2>2, <3>1, Before
  <2>5. QED
    BY <1>1, <1>2, <2>1, <2>2, <2>3, <2>4, DownPaid
<1>4. Run'
  <2>1. CASE ~intact
    BY <1>1, <2>1, DownRun DEF L!Failed
  <2>2. CASE intact
    <3>1. CASE uptime = "short" /\ early > 0
      <4>1. /\ early' = early + 1 /\ medium # Torn /\ early <= medium.fields.consecutive_failures
            /\ early <= persistent.consecutive_failures /\ medium.fields.previous_uptime_ms = "short"
        BY <2>2, <3>1 DEF LInv, Run, L!Failed
      <4>2. Found(medium') = medium.fields \/ Found(medium') = marked
        BY <2>2, <4>1 DEF Found
      <4>3. Found(medium').previous_uptime_ms = "short" /\ early' <= Found(medium').consecutive_failures + 1
        <5>1. /\ early + 1 <= medium.fields.consecutive_failures + 1
              /\ early + 1 <= persistent.consecutive_failures + 1
          BY <4>1, Before
        <5>2. CASE Found(medium') = medium.fields
          BY <4>1, <5>1, <5>2
        <5>3. CASE Found(medium') = marked
          BY <1>m, <3>1, <4>1, <5>1, <5>3
        <5>4. QED
          BY <4>2, <5>2, <5>3
      <4>4. QED
        BY <1>1, <2>2, <4>3, DownRun
    <3>2. CASE ~(uptime = "short" /\ early > 0)
      <4>1. early' = 1
        BY <2>2, <3>2, Before DEF L!Failed
      <4>2. QED
        BY <1>1, <2>2, <4>1, DownRun
    <3>3. QED
      BY <3>1, <3>2
  <2>3. QED
    BY <2>1, <2>2
<1>5. QED
  BY <1>1, <1>3, <1>4 DEF LInv

(* A save by the running firmware. *)
LEMMA SaveKeepsLInv ==
    ASSUME L!BootRecordAssumption, L!BootLoopAssumption, Torn \notin LoopRecord, LInv, up,
           NEW r \in L!Fields, NEW o \in L!Outcome, L!Save(r, o),
           ~r.crash_pending, r.consecutive_failures <= persistent.consecutive_failures,
           UNCHANGED <<uptime, safe_mode>>, early' \in {0, early}, o # "ok" => early' = 0,
           early' # 0 => r.consecutive_failures = persistent.consecutive_failures
                         /\ r.boot_successful = persistent.boot_successful,
           \/ UNCHANGED <<failures, stale>>
           \/ o = "ok" /\ failures' = 0 /\ stale' = 0 /\ r.consecutive_failures = 0
    PROVE  LInv'
<1> DEFINE x == [r EXCEPT !.previous_uptime_ms = uptime]
<1>0. uptime \in {"short", "long"} /\ retained \in BOOLEAN /\ left_over \in BOOLEAN
  BY Zenon DEF LInv, Facts
<1>x. /\ x \in L!Fields /\ x.consecutive_failures = r.consecutive_failures
      /\ x.boot_successful = r.boot_successful
      /\ ~x.crash_pending /\ x.previous_uptime_ms = uptime /\ r.consecutive_failures \in Nat
  BY <1>0 DEF L!Fields
<1>1. /\ medium' \in IF o = "ok" THEN {L!OnMedium(L!LS_BOOT_VERSION, x)} ELSE L!Left(x)
      /\ persistent' = IF o = "cut" THEN L!Blank ELSE x
      /\ up' = (o # "cut")
      /\ IF o = "cut" THEN ~retained' /\ ~left_over' /\ reason' = "power"
                      ELSE UNCHANGED <<retained, left_over, reason>>
  BY DEF L!Save, L!ls_boot_state_save
<1>2. /\ medium' = Torn \/ (medium' \in LoopRecord /\ (medium'.version = 3 \/ medium'.fields = L!Blank))
      /\ \/ medium' \in LoopRecord /\ medium'.version = 3 /\ medium'.fields = x
         \/ o # "ok" /\ medium' \in {medium, Torn}
  BY <1>1, <1>x, LSaved DEF LInv
<1>3. Facts'
  <2>1. early' \in Nat /\ failures' \in Nat /\ stale' \in Nat
    BY Before
  <2>2. persistent' \in L!Fields /\ ~persistent'.crash_pending
    BY <1>1, <1>x, LBlank
  <2>3. up' \in BOOLEAN /\ uptime' \in {"short", "long"}
    BY <1>0, <1>1
  <2>4. retained' \in BOOLEAN /\ left_over' \in BOOLEAN
    <3>1. CASE o = "cut"
      BY <1>1, <3>1 DEF L!Save
    <3>2. CASE o # "cut"
      BY <1>0, <1>1, <3>2
    <3>3. QED
      BY <3>1, <3>2
  <2>5. QED
    BY <1>2, <2>1, <2>2, <2>3, <2>4, Zenon DEF Facts
<1>4. x.consecutive_failures <= Budget' /\ Charge(x) = x.consecutive_failures
  <2>1. Charge(x) = x.consecutive_failures
    BY <1>x DEF Charge
  <2>2. CASE UNCHANGED <<failures, stale>>
    BY <1>x, <2>1, <2>2, Before DEF Budget
  <2>3. CASE failures' = 0 /\ stale' = 0 /\ r.consecutive_failures = 0
    BY <1>x, <2>1, <2>3 DEF Budget
  <2>4. QED
    BY <2>1, <2>2, <2>3
<1>5. medium' # Torn => Charge(medium'.fields) <= Budget'
  <2>1. CASE medium' # Torn /\ medium'.fields = x
    BY <1>4, <2>1
  <2>2. CASE medium' # Torn /\ medium' = medium /\ o # "ok"
    <3>1. Budget' = failures + stale
      BY <2>2 DEF Budget
    <3>2. QED
      BY <2>2, <3>1, Before
  <2>3. QED
    BY <1>2, <2>1, <2>2
<1>6. CASE o = "cut"
  <2>1. Paid'
    BY <1>1, <1>3, <1>5, <1>6, DownPaid
  <2>2. Run'
    BY <1>1, <1>3, <1>6, DownRun
  <2>3. QED
    BY <1>3, <2>1, <2>2 DEF LInv
<1>7. CASE o # "cut"
  <2>1. Paid'
    BY <1>1, <1>4, <1>5, <1>7 DEF Paid
  <2>2. Run'
    <3>1. CASE early' = 0
      BY <1>1, <1>7, <3>1, NoRun
    <3>2. CASE early' # 0
      BY <1>1, <1>2, <1>7, <1>x, <3>2, Before DEF Run, L!LoopDetected, LInv
    <3>3. QED
      BY <3>1, <3>2
  <2>3. QED
    BY <1>3, <2>1, <2>2 DEF LInv
<1>8. QED
  BY <1>6, <1>7

(* The boot itself: it counts, saves and promotes the snapshot. *)
LEMMA BootKeepsLInv ==
    ASSUME L!BootRecordAssumption, L!BootLoopAssumption, Torn \notin LoopRecord, LInv,
           NEW o \in L!Outcome, L!ls_boot(o)
    PROVE  LInv'
<1> DEFINE n == L!Counted(Loaded)
           x == [L!Blank EXCEPT !.consecutive_failures = n]
<1>0. Loaded \in L!Fields /\ L!ls_boot_state_load(L!Blank) = Loaded
  BY Loads DEF LInv, Loaded
<1>n. n \in Nat
  BY <1>0, CountedIs
<1>x. /\ x \in L!Fields /\ x.consecutive_failures = n /\ ~x.crash_pending /\ ~x.boot_successful
      /\ x.previous_uptime_ms = "short"
  BY <1>n, LBlank DEF L!Fields
<1>1. /\ ~up /\ stale' = stale + (IF left_over THEN 1 ELSE 0) /\ L!ls_boot_state_save(x, o, L!Blank)
      /\ safe_mode' = (o # "cut" /\ n >= Threshold) /\ uptime' = "short" /\ up' = (o # "cut")
      /\ left_over' = FALSE
      /\ early' = (IF o = "ok" THEN early ELSE 0) /\ failures' = failures
      /\ IF o = "cut" THEN retained' = FALSE /\ reason' = "power"
         ELSE retained' \in IF o = "ok" /\ ~PromotionMayFail THEN {FALSE}
                            ELSE IF o = "ok" THEN {FALSE, retained} ELSE {retained}
  BY <1>0 DEF L!ls_boot
<1>2. /\ medium' = Torn \/ (medium' \in LoopRecord /\ (medium'.version = 3 \/ medium'.fields = L!Blank))
      /\ \/ medium' \in LoopRecord /\ medium'.version = 3 /\ medium'.fields = x
         \/ o # "ok" /\ medium' \in {medium, Torn}
  BY <1>1, <1>x, LSaved DEF LInv, L!ls_boot_state_save
<1>p. persistent' = IF o = "cut" THEN L!Blank ELSE x
  BY <1>1 DEF L!ls_boot_state_save
<1>3. Facts'
  <2>1. retained \in BOOLEAN /\ left_over \in BOOLEAN
    BY Zenon DEF LInv, Facts
  <2>2. early' \in Nat /\ failures' \in Nat /\ stale' \in Nat
    <3>1. stale + 1 \in Nat /\ stale + 0 \in Nat
      BY Before
    <3>2. stale' \in Nat
      BY <1>1, <2>1, <3>1
    <3>3. QED
      BY <1>1, <3>2, Before
  <2>3. persistent' \in L!Fields /\ ~persistent'.crash_pending
    BY <1>p, <1>x, LBlank
  <2>4. up' \in BOOLEAN /\ uptime' \in {"short", "long"} /\ left_over' \in BOOLEAN
    BY <1>1
  <2>5. retained' \in BOOLEAN
    BY <1>1, <2>1
  <2>6. QED
    BY <1>2, <2>2, <2>3, <2>4, <2>5, Zenon DEF Facts
<1>4. Budget' = failures + stale + (IF left_over THEN 1 ELSE 0) /\ n <= Budget' /\ Charge(x) = n
  <2>1. n <= failures + stale + (IF left_over THEN 1 ELSE 0)
    BY <1>1 DEF LInv, Paid, Budget
  <2>2. Budget' = failures + (stale + (IF left_over THEN 1 ELSE 0))
    BY <1>1 DEF Budget
  <2>3. failures + (stale + (IF left_over THEN 1 ELSE 0)) = failures + stale + (IF left_over THEN 1 ELSE 0)
    BY Before
  <2>4. QED
    BY <1>n, <1>x, <2>1, <2>2, <2>3 DEF Charge
<1>5. medium' # Torn => Charge(medium'.fields) <= Budget'
  <2>1. CASE medium' # Torn /\ medium'.fields = x
    BY <1>4, <2>1
  <2>2. CASE medium' # Torn /\ medium' = medium
    <3>1. Charge(medium.fields) \in Nat /\ Charge(medium.fields) <= failures + stale
      BY <2>2, Before DEF Charge, L!Fields
    <3>2. Charge(medium.fields) <= failures + stale + (IF left_over THEN 1 ELSE 0)
      BY <3>1, Before
    <3>3. QED
      BY <1>4, <2>2, <3>2
  <2>3. QED
    BY <1>2, <2>1, <2>2
<1>6. CASE o = "cut"
  <2>1. Paid'
    BY <1>1, <1>p, <1>3, <1>5, <1>6, DownPaid
  <2>2. Run'
    BY <1>1, <1>3, <1>6, DownRun
  <2>3. QED
    BY <1>3, <2>1, <2>2 DEF LInv
<1>7. CASE o # "cut"
  <2>1. Paid'
    BY <1>1, <1>p, <1>x, <1>4, <1>5, <1>7 DEF Paid
  <2>2. Run'
    <3>1. CASE early' = 0
      BY <1>1, <1>7, <3>1, NoRun
    <3>2. CASE early' # 0
      <4>1. o = "ok" /\ early' = early /\ early <= n
        BY <1>1, <3>2 DEF LInv, Run
      <4>2. early >= Threshold => n >= Threshold
        BY <1>n, <4>1, Before DEF L!BootLoopAssumption
      <4>3. medium' # Torn /\ medium'.version = 3 /\ medium'.fields = x
        BY <1>2, <4>1
      <4>4. QED
        BY <1>1, <1>p, <1>x, <1>7, <4>1, <4>2, <4>3 DEF Run, L!LoopDetected
    <3>3. QED
      BY <3>1, <3>2
  <2>3. QED
    BY <1>3, <2>1, <2>2 DEF LInv
<1>8. QED
  BY <1>6, <1>7

(* Every step keeps the invariant. *)
LEMMA LNext ==
    ASSUME L!BootRecordAssumption, L!BootLoopAssumption, Torn \notin LoopRecord, LInv, [L!Next]_(L!vars)
    PROVE  LInv'
<1>0. /\ uptime \in {"short", "long"} /\ retained \in BOOLEAN /\ left_over \in BOOLEAN /\ up \in BOOLEAN
  BY Zenon DEF LInv, Facts
<1>1. CASE L!TimePasses \/ UNCHANGED L!vars
  <2>1. /\ UNCHANGED <<persistent, medium, up, retained, reason, safe_mode, failures, early, stale, left_over>>
        /\ uptime' = uptime \/ uptime' = "long"
    BY <1>1 DEF L!TimePasses, L!vars, L!history
  <2>2. Facts'
    BY <2>1 DEF LInv, Facts
  <2>3. Paid'
    BY <2>1 DEF LInv, Paid, Budget, Loaded, L!ls_boot_state_load, L!Counted, L!Charged, Charge
  <2>4. Run'
    BY <2>1 DEF LInv, Run, L!LoopDetected, Loaded, L!ls_boot_state_load, L!Counted, L!Charged
  <2>5. QED
    BY <2>2, <2>3, <2>4 DEF LInv
<1>2. CASE L!MinimalFault
  <2>1. /\ L!Failed(TRUE) /\ retained' = TRUE /\ left_over' = FALSE /\ medium' = medium
        /\ stale' = stale /\ L!Reset("software") /\ up
    BY <1>2 DEF L!MinimalFault
  <2>2. QED
    BY <2>1, EndsFailing DEF L!Reset, ChargedIf
<1>3. CASE L!Watchdog
  <2>1. up /\ left_over' = retained /\ L!Reset("watchdog") /\ UNCHANGED <<medium, retained, stale>>
    BY <1>3 DEF L!Watchdog
  <2>2. CASE medium # Torn /\ medium.fields.expected_reset
    <3>1. L!EndedWell
      BY <1>3, <2>2 DEF L!Watchdog
    <3>2. QED
      BY <2>1, <2>2, <3>1, EndsWell DEF L!Reset
  <2>3. CASE ~(medium # Torn /\ medium.fields.expected_reset)
    <3>1. L!Failed(TRUE)
      BY <1>3, <2>3 DEF L!Watchdog
    <3>2. ~Found(medium').expected_reset
      BY <2>1, <2>3, LBlank DEF Found
    <3>3. ChargedIf(Found(medium'), retained', reason')
      BY <2>1, <3>2 DEF L!Reset, ChargedIf
    <3>4. QED
      BY <1>0, <2>1, <3>1, <3>3, EndsFailing DEF L!Reset
  <2>4. QED
    BY <2>2, <2>3
<1>4. CASE L!SoftwareReset
  BY <1>4, EndsWell DEF L!SoftwareReset, L!Reset
<1>5. CASE L!PowerLoss
  <2>1. CASE up
    BY <1>5, <2>1, EndsWell DEF L!PowerLoss, L!Reset
  <2>2. CASE ~up
    <3>1. /\ retained' = FALSE /\ left_over' = FALSE /\ early' = 0 /\ reason' = "power" /\ up' = FALSE
          /\ UNCHANGED <<persistent, up, uptime, failures, medium, stale>>
      BY <1>0, <1>5, <2>2 DEF L!PowerLoss
    <3>2. Facts'
      <4>1. early' \in Nat
        BY <3>1
      <4>2. QED
        BY <3>1, <4>1 DEF LInv, Facts
    <3>3. Paid'
      <4>1. Budget' = failures + stale
        BY <3>1 DEF Budget
      <4>2. persistent'.consecutive_failures <= Budget' /\ (medium' # Torn => Charge(medium'.fields) <= Budget')
        BY <3>1, <4>1, Before
      <4>3. QED
        BY <3>1, <3>2, <4>2, DownPaid
    <3>4. Run'
      BY <3>1, <3>2, DownRun
    <3>5. QED
      BY <3>2, <3>3, <3>4 DEF LInv
  <2>3. QED
    BY <2>1, <2>2
<1>6. ASSUME NEW o \in L!Outcome, L!ls_boot_mark_successful(o) PROVE LInv'
  <2> DEFINE r == [persistent EXCEPT !.boot_successful = TRUE, !.crash_pending = FALSE,
                                     !.consecutive_failures = 0]
  <2>1. /\ up /\ L!Save(r, o) /\ failures' = (IF o = "ok" THEN 0 ELSE failures) /\ early' = 0
        /\ stale' = (IF o = "ok" THEN 0 ELSE stale) /\ UNCHANGED <<uptime, safe_mode>>
    BY <1>6 DEF L!ls_boot_mark_successful
  <2>2. r \in L!Fields /\ r.consecutive_failures = 0 /\ ~r.crash_pending
    BY Before DEF L!Fields
  <2>3. r.consecutive_failures <= persistent.consecutive_failures
    BY <2>2, Before
  <2>4. \/ UNCHANGED <<failures, stale>>
        \/ o = "ok" /\ failures' = 0 /\ stale' = 0 /\ r.consecutive_failures = 0
    BY <2>1, <2>2
  <2>5. QED
    BY <2>1, <2>2, <2>3, <2>4, SaveKeepsLInv
<1>7. ASSUME NEW o \in L!Outcome, NEW b \in BOOLEAN, L!ls_reset_mark_expected(b, o) PROVE LInv'
  <2> DEFINE r == [persistent EXCEPT !.expected_reset = b]
  <2>1. /\ up /\ L!Save(r, o) /\ UNCHANGED <<failures, stale, uptime, safe_mode>>
        /\ early' = (IF o = "ok" THEN early ELSE 0)
    BY <1>7 DEF L!ls_reset_mark_expected
  <2>2. /\ r \in L!Fields /\ r.consecutive_failures = persistent.consecutive_failures /\ ~r.crash_pending
        /\ r.boot_successful = persistent.boot_successful
    BY Before DEF L!Fields
  <2>3. r.consecutive_failures <= persistent.consecutive_failures
    BY <2>2, Before
  <2>4. QED
    BY <2>1, <2>2, <2>3, SaveKeepsLInv
<1>8. ASSUME NEW o \in L!Outcome, L!ls_boot_state_mark_crash(o) PROVE LInv'
  <2> DEFINE x == [persistent EXCEPT !.crash_pending = TRUE, !.boot_successful = FALSE,
                                     !.previous_uptime_ms = uptime]
  <2>1. /\ up /\ L!Failed(o = "ok") /\ L!Reset("software") /\ stale' = stale /\ left_over' = FALSE
        /\ retained' \in {retained, TRUE}
        /\ medium' \in IF o = "ok" THEN {L!OnMedium(L!LS_BOOT_VERSION, x)} ELSE L!Left(x)
    BY <1>8 DEF L!ls_boot_state_mark_crash
  <2>2. x \in L!Fields /\ x.crash_pending
    BY <1>0, Before DEF L!Fields
  <2>3. \/ medium' \in LoopRecord /\ medium'.version = 3 /\ medium'.fields = x
        \/ o # "ok" /\ medium' \in {medium, Torn}
    BY <2>1, <2>2, LSaved DEF LInv
  <2>4. o = "ok" => ChargedIf(Found(medium'), retained', reason')
    BY <2>2, <2>3 DEF Found, ChargedIf
  <2>5. retained' \in BOOLEAN /\ left_over' \in BOOLEAN /\ (o = "ok") \in BOOLEAN
    BY <1>0, <2>1
  <2>6. QED
    BY <2>1, <2>3, <2>4, <2>5, EndsFailing DEF L!Reset
<1>9. QED
  BY <1>1, <1>2, <1>3, <1>4, <1>5, <1>6, <1>7, <1>8, BootKeepsLInv DEF L!Next

(* The invariant of the failure accounting holds of every behaviour.       *)
LEMMA LoopInvariant ==
    ASSUME L!BootRecordAssumption, L!BootLoopAssumption
    PROVE  L!Spec => []LInv
<1>0. Torn \notin LoopRecord
  BY DEF L!BootLoopAssumption, L!Records, L!LS_BOOT_VERSION, LoopRecord
<1>1. L!Init => LInv
  BY <1>0, LInit
<1>2. LInv /\ [L!Next]_(L!vars) => LInv'
  BY <1>0, LNext
<1>3. QED
  BY <1>1, <1>2, PTL DEF L!Spec

(* ls_boot (core/runtime.c): when the firmware has failed Threshold times  *)
(* within the window, with no success mark and no lost save between, the   *)
(* boot that follows enters safe mode, whatever kind of failure each one   *)
(* was and for every threshold.                                            *)
THEOREM BootLoopDetected ==
    ASSUME L!BootRecordAssumption, L!BootLoopAssumption
    PROVE  L!Spec => []L!LoopDetected
<1>1. LInv => L!LoopDetected
  BY DEF LInv, Run
<1>2. QED
  BY <1>1, LoopInvariant, PTL

(* ls_boot (core/runtime.c): no reset is charged twice and no clean one is *)
(* charged. The stored counter never exceeds the failures since the last   *)
(* success mark plus the boots that met a snapshot left over.              *)
THEOREM BootFailuresAccounted ==
    ASSUME L!BootRecordAssumption, L!BootLoopAssumption
    PROVE  L!Spec => []L!FailuresAccounted
<1>1. LInv => L!FailuresAccounted
  BY Before DEF LInv, L!FailuresAccounted
<1>2. QED
  BY <1>1, LoopInvariant, PTL

-----------------------------------------------------------------------------
(* Types of the retained memory and of the handler's fault. *)
Snapshots == [magic : BOOLEAN, body : C!Fault \cup {C!None, C!Mixed}, whole : BOOLEAN, seq : Nat,
              version : 1..3, wide : BOOLEAN]
Contexts == [magic : BOOLEAN, body : C!Fault \cup {C!None, C!Mixed}, whole : BOOLEAN, seq : Nat]

Shapes ==
    /\ minimal \in Snapshots /\ wide \in Contexts
    /\ counter \in Nat /\ faults \in Nat /\ faults <= MaxFaults
    /\ fault \in [id : 0..faults, rv64 : BOOLEAN]

(* The snapshot that is being written has no magic, the one that is being   *)
(* cleared is in the spool.                                                 *)
Writing ==
    /\ pc = "clear" => C!Stored(minimal.body)
    /\ pc \in {"body", "commit"} => ~minimal.magic
    /\ pc = "commit" => minimal.whole /\ minimal.body = fault.id

(* The inductive invariant of the evidence. *)
EInv == Shapes /\ Writing /\ C!EvidenceKept

(* It holds when power comes up first. *)
LEMMA EInit == ASSUME C!CrashAssumption, C!Init PROVE EInv
<1>1. minimal \in Snapshots /\ wide \in Contexts
  <2>1. C!MinimalGarbage \in Snapshots /\ C!WideGarbage \in Contexts
    BY DEF Snapshots, Contexts, C!MinimalGarbage, C!WideGarbage, C!Mixed
  <2>2. ASSUME NEW v \in 1..2
        PROVE  [magic |-> TRUE, body |-> C!None, whole |-> TRUE,
                seq |-> 1, version |-> v, wide |-> v = 2] \in Snapshots
    BY DEF Snapshots
  <2>3. QED
    BY <2>1, <2>2 DEF C!Init
<1>2. fault \in [id : 0..faults, rv64 : BOOLEAN]
  BY DEF C!Init, C!NoFault, C!None
<1>3. QED
  BY <1>1, <1>2 DEF C!Init, EInv, Shapes, Writing, C!EvidenceKept, C!CrashAssumption

(* Every step of the handler and of the boot keeps it. *)
LEMMA ENext == ASSUME C!CrashAssumption, EInv, [C!Next]_(C!vars) PROVE EInv'
<1> USE DEF EInv
<1>1. ASSUME UNCHANGED <<minimal, spool, owed>> PROVE C!EvidenceKept'
  BY <1>1 DEF C!EvidenceKept, C!Stored, C!ls_minimal_snapshot_read, C!ls_minimal_snapshot_validate
<1>2. CASE C!Boot
  <2>1. Shapes'
    BY <1>2 DEF C!Boot, Shapes, C!NoFault, C!None, C!retained, Snapshots, Contexts
  <2>2. QED
    BY <1>1, <1>2, <2>1 DEF C!Boot, C!retained, Writing
<1>3. ASSUME NEW ok \in BOOLEAN, C!ls_capture_minimal_recover(ok) PROVE EInv'
  <2>1. Shapes'
    BY <1>3 DEF C!ls_capture_minimal_recover, Shapes, C!retained
  <2>2. ok => C!Stored(minimal.body)'
    <3>1. ok => C!Event \in spool' /\ minimal' = minimal
      BY <1>3 DEF C!ls_capture_minimal_recover, C!retained
    <3>2. C!Event.minimal = minimal.body
      BY DEF C!Event
    <3>3. QED
      BY <3>1, <3>2 DEF C!Stored
  <2>3. \A f : C!Stored(f) => C!Stored(f)'
    BY <1>3 DEF C!ls_capture_minimal_recover, C!Stored
  <2>4. C!EvidenceKept'
    BY <1>3, <2>3 DEF C!ls_capture_minimal_recover, C!retained, C!EvidenceKept,
       C!ls_minimal_snapshot_read, C!ls_minimal_snapshot_validate
  <2>5. QED
    BY <1>3, <2>1, <2>2, <2>4 DEF C!ls_capture_minimal_recover, C!retained, Writing
<1>4. CASE C!ls_minimal_snapshot_clear
  <2>1. Shapes'
    BY <1>4 DEF C!ls_minimal_snapshot_clear, Shapes, Snapshots, Contexts
  <2>2. C!EvidenceKept'
    BY <1>4 DEF C!ls_minimal_snapshot_clear, C!EvidenceKept, C!Stored, C!ls_minimal_snapshot_read,
       C!ls_minimal_snapshot_validate, Writing, Shapes, Snapshots
  <2>3. QED
    BY <1>4, <2>1, <2>2 DEF C!ls_minimal_snapshot_clear, Writing
<1>5. CASE C!WideStep
  <2>1. fault.id \in C!Fault \cup {C!None}
    BY DEF Shapes, C!Fault, C!None, C!CrashAssumption
  <2>2. wide' \in Contexts
    <3>1. [magic |-> FALSE, body |-> C!Mixed, whole |-> FALSE, seq |-> counter] \in Contexts
      BY DEF Shapes, Contexts
    <3>2. [wide EXCEPT !.magic = FALSE] \in Contexts /\ [wide EXCEPT !.magic = TRUE] \in Contexts
      BY DEF Shapes, Contexts
    <3>3. C!Sealed(wide) \in Contexts
      BY <2>1 DEF Shapes, Contexts, C!Sealed
    <3>4. QED
      BY <1>5, <3>1, <3>2, <3>3 DEF C!WideStep
  <2>3. Shapes'
    BY <1>5, <2>2 DEF C!WideStep, Shapes
  <2>4. QED
    BY <1>1, <1>5, <2>3 DEF C!WideStep, Writing
<1>6. CASE C!Open
  <2>1. Shapes'
    BY <1>6 DEF C!Open, Shapes, Snapshots, C!Mixed
  <2>2. C!EvidenceKept'
    BY <1>6 DEF C!Open, C!EvidenceKept, C!Stored, C!ls_minimal_snapshot_read,
       C!ls_minimal_snapshot_validate
  <2>3. QED
    BY <1>6, <2>1, <2>2 DEF C!Open, Writing
<1>7. CASE C!Body
  <2>1. fault.id \in C!Fault \cup {C!None}
    BY DEF Shapes, C!Fault, C!None, C!CrashAssumption
  <2>2. Shapes' /\ minimal'.whole /\ minimal'.body = fault.id /\ minimal'.magic = minimal.magic
    BY <1>7, <2>1 DEF C!Body, Shapes, C!Sealed, Snapshots
  <2>3. C!EvidenceKept'
    BY <1>7 DEF C!Body, C!EvidenceKept, C!Stored, C!ls_minimal_snapshot_read,
       C!ls_minimal_snapshot_validate, Writing
  <2>4. QED
    BY <1>7, <2>2, <2>3 DEF C!Body, Writing
<1>8. CASE C!Commit
  <2>1. Shapes' /\ minimal'.magic /\ minimal'.whole = minimal.whole /\ minimal'.body = minimal.body
    BY <1>8 DEF C!Commit, Shapes, Snapshots
  <2>2. C!EvidenceKept'
    BY <1>8, <2>1 DEF C!Commit, C!EvidenceKept, C!Stored, C!ls_minimal_snapshot_read,
       C!ls_minimal_snapshot_validate, Writing
  <2>3. QED
    BY <1>8, <2>1, <2>2 DEF C!Commit, Writing
<1>9. ASSUME NEW ok \in BOOLEAN, C!LeaveCapture(ok) PROVE EInv'
  <2>0. fault' \in [id : 0..faults, rv64 : BOOLEAN]
    <3>1. [fault EXCEPT !.rv64 = FALSE] \in [id : 0..faults, rv64 : BOOLEAN]
      BY DEF Shapes
    <3>2. fault' \in {fault, [fault EXCEPT !.rv64 = FALSE]}
      BY <1>9 DEF C!LeaveCapture
    <3>3. QED
      BY <3>1, <3>2 DEF Shapes
  <2>1. Shapes'
    BY <1>9, <2>0 DEF C!LeaveCapture, Shapes, C!retained
  <2>2. C!EvidenceKept'
    <3>1. \A f : C!Stored(f) => C!Stored(f)'
      BY <1>9 DEF C!LeaveCapture, C!Stored
    <3>2. ok => C!Stored(fault.id)'
      <4> DEFINE e == [minimal |-> fault.id, wide |-> IF fault.rv64 THEN fault.id ELSE C!None]
      <4>1. ok => e \in spool' /\ fault' = fault
        BY <1>9 DEF C!LeaveCapture
      <4>2. e.minimal = fault.id
        OBVIOUS
      <4>3. QED
        BY <4>1, <4>2 DEF C!Stored
    <3>3. /\ minimal' = minimal
          /\ owed' = IF ok THEN owed \cup {fault.id} ELSE owed
          /\ ok => fault' = fault
      BY <1>9 DEF C!LeaveCapture, C!retained
    <3>4. \A f \in owed' : C!Stored(f)' \/ (C!ls_minimal_snapshot_read' /\ minimal'.body = f)
      BY <3>1, <3>2, <3>3 DEF C!EvidenceKept, C!ls_minimal_snapshot_read,
         C!ls_minimal_snapshot_validate, C!Stored
    <3>5. QED
      BY <3>4 DEF C!EvidenceKept, C!Stored
  <2>3. QED
    BY <1>9, <2>1, <2>2 DEF C!LeaveCapture, C!retained, Writing
<1>10. CASE C!PowerLoss
  <2>1. Shapes'
    BY <1>10 DEF C!PowerLoss, Shapes, Snapshots, Contexts, C!MinimalGarbage, C!WideGarbage, C!Mixed
  <2>2. C!EvidenceKept'
    BY <1>10 DEF C!PowerLoss, C!EvidenceKept, C!Stored
  <2>3. QED
    BY <1>10, <2>1, <2>2 DEF C!PowerLoss, Writing
<1>11. ASSUME NEW next \in {"unwide", "wide_open", "mark"}, NEW rv64 \in BOOLEAN, C!Raise(next, rv64),
              counter' \in {counter, counter + 1}
       PROVE  EInv'
  <2>1. Shapes'
    BY <1>11 DEF C!Raise, C!retained, Shapes, C!CrashAssumption
  <2>2. QED
    BY <1>1, <1>11, <2>1 DEF C!Raise, C!retained, Writing
<1>12. CASE C!ls_capture_minimal_fault \/ C!ls_capture_minimal_riscv64_fault
  BY <1>11, <1>12 DEF C!ls_capture_minimal_fault, C!ls_capture_minimal_riscv64_fault
<1>13. ASSUME NEW rv64 \in BOOLEAN, C!capture_cpu_context(rv64) PROVE EInv'
  BY <1>11, <1>13 DEF C!capture_cpu_context
<1>14. CASE C!OtherCapture \/ C!EnterCapture \/ C!HandlerReset \/ C!OtherReset \/ UNCHANGED C!vars
  <2>1. /\ UNCHANGED <<minimal, wide, counter, fault, spool, faults, owed>>
        /\ (pc' = pc \/ pc' \in {"unwide", "capture", "off"})
    BY <1>14 DEF C!OtherCapture, C!EnterCapture, C!HandlerReset, C!OtherReset, C!retained, C!vars
  <2>2. QED
    BY <1>1, <2>1 DEF Shapes, Writing, C!Stored
<1>15. QED
  BY <1>2, <1>3, <1>4, <1>5, <1>6, <1>7, <1>8, <1>9, <1>10, <1>12, <1>13, <1>14
     DEF C!Next, C!BootStep, C!HandlerStep

(* ls_capture_minimal_fault and ls_capture_minimal_recover                 *)
(* (capture/capture.c): a fault whose handler completed is in the spool or *)
(* in a retained snapshot that the next boot will promote, whatever        *)
(* interrupts the handler, the promotion or the clearing, until a later    *)
(* fault replaces it or power is lost. For any number of faults.           *)
THEOREM CrashEvidenceKept ==
    ASSUME C!CrashAssumption
    PROVE  C!Spec => []C!EvidenceKept
<1>1. C!Init => EInv
  BY EInit
<1>2. EInv /\ [C!Next]_(C!vars) => EInv'
  BY ENext
<1>3. EInv => C!EvidenceKept
  BY DEF EInv
<1>4. QED
  BY <1>1, <1>2, <1>3, PTL DEF C!Spec

(* The faults up to now, and the boots they happened in. *)
Births ==
    /\ born \in [C!Fault -> Nat]
    /\ \A f \in 1..faults : born[f] <= f
    /\ minimal.body \in C!Mixed..faults /\ wide.body \in C!Mixed..faults
    /\ \A e \in spool : e.minimal \in C!Mixed..faults /\ e.wide \in C!Mixed..faults

(* Faults a and b happened in one boot. *)
Together(a, b) == a \in C!Fault /\ b \in C!Fault /\ born[a] = born[b]

(* How far the handler has come, and what it has numbered. *)
Numbered ==
    /\ pc \in {"wide_body", "wide_commit"} => wide.seq = counter /\ ~wide.magic
    /\ pc = "wide_commit" => wide.body = fault.id
    /\ pc \in {"open", "body"} => (wide.magic /\ wide.body \in C!Fault => wide.body = fault.id)
    /\ pc = "body" => minimal.seq = counter
    /\ Together(minimal.body, fault.id) => minimal.seq <= counter
    /\ Together(minimal.body, fault.id) /\ pc \in {"wide_open", "wide_body", "wide_commit"}
          => minimal.seq < counter

(* The two retained records match only when they are of the same fault. *)
Matched == wide.magic /\ C!wide_snapshot_matches_minimal /\ Together(minimal.body, wide.body)
              => minimal.body = wide.body

NInv == Shapes /\ Births /\ Numbered /\ Matched /\ C!NestedTrapsApart

(* It holds when power comes up first: nothing retained is of a fault. *)
LEMMA NInit == ASSUME C!CrashAssumption, C!Init PROVE NInv
<1>1. Shapes
  BY EInit DEF EInv
<1>2. minimal.body \in {C!None, C!Mixed} /\ wide.body = C!Mixed /\ ~wide.magic /\ fault.id = C!None
  BY DEF C!Init, C!MinimalGarbage, C!WideGarbage, C!NoFault
<1>3. C!None \notin C!Fault /\ C!Mixed \notin C!Fault /\ C!None \in C!Mixed..0 /\ C!Mixed \in C!Mixed..0
  BY DEF C!Fault, C!None, C!Mixed
<1>4. born \in [C!Fault -> Nat]
  BY DEF C!Init, C!None
<1>5. Births
  BY <1>2, <1>3, <1>4 DEF C!Init, Births
<1>6. Numbered /\ Matched
  BY <1>2, <1>3 DEF C!Init, Numbered, Matched, Together
<1>7. QED
  BY <1>1, <1>5, <1>6 DEF C!Init, NInv, C!NestedTrapsApart

(* A new fault: nothing retained or stored is of it, and it belongs to the *)
(* boot of the fault that it interrupts.                                   *)
LEMMA RaiseKeepsNInv ==
    ASSUME C!CrashAssumption, NInv, Shapes', NEW next \in {"unwide", "wide_open", "mark"},
           NEW rv64 \in BOOLEAN,
           C!Raise(next, rv64), counter' = IF next = "wide_open" THEN counter + 1 ELSE counter
    PROVE  NInv'
<1> DEFINE new == faults + 1
<1>0. /\ MaxFaults \in Nat /\ faults \in Nat /\ counter \in Nat /\ fault.id \in 0..faults
      /\ new \in C!Fault /\ new \notin 1..faults
      /\ minimal.seq \in Nat /\ minimal.body \in C!Fault \cup {C!None, C!Mixed}
      /\ wide.body \in C!Fault \cup {C!None, C!Mixed}
  BY DEF NInv, Shapes, Snapshots, Contexts, C!Fault, C!Raise, C!CrashAssumption
<1>1. /\ faults' = new /\ fault'.id = new /\ pc' = next /\ UNCHANGED <<minimal, wide, spool>>
      /\ born' = [born EXCEPT ![new] = IF fault.id = C!None THEN new ELSE born[fault.id]]
  BY DEF C!Raise, C!retained
<1>2. /\ \A f \in 1..faults : f \in C!Fault /\ born'[f] = born[f]
      /\ born'[new] = IF fault.id = C!None THEN new ELSE born[fault.id]
      /\ born' \in [C!Fault -> Nat]
  <2>1. born \in [C!Fault -> Nat]
    BY DEF NInv, Births
  <2>2. fault.id # C!None => fault.id \in C!Fault /\ fault.id \in 1..faults
    BY <1>0 DEF C!Fault, C!None
  <2>3. (IF fault.id = C!None THEN new ELSE born[fault.id]) \in Nat
    BY <1>0, <2>1, <2>2
  <2>4. \A f \in 1..faults : f \in C!Fault /\ f # new
    BY <1>0 DEF C!Fault
  <2>5. QED
    BY <1>0, <1>1, <2>1, <2>3, <2>4
<1>3. Births'
  <2>1. \A f \in 1..faults : born[f] <= f
    BY DEF NInv, Births
  <2>2. born'[new] <= new
    <3>1. fault.id # C!None => fault.id \in 1..faults /\ born[fault.id] \in Nat
      BY <1>0 DEF NInv, Births, C!Fault, C!None
    <3>2. QED
      BY <1>0, <1>2, <2>1, <3>1
  <2>3. \A f \in 1..new : f \in 1..faults \/ f = new
    BY <1>0
  <2>4. \A f \in 1..new : born'[f] <= f
    BY <1>2, <2>1, <2>2, <2>3
  <2>5. \A x \in C!Mixed..faults : x \in C!Mixed..new
    BY <1>0 DEF C!Mixed
  <2>6. QED
    BY <1>1, <1>2, <2>4, <2>5 DEF NInv, Births
<1>4. \A x \in C!Mixed..faults : x \in C!Fault => x \in 1..faults /\ born'[x] = born[x] /\ x # new
  BY <1>0, <1>2 DEF C!Fault, C!Mixed
<1>5. Matched' /\ C!NestedTrapsApart'
  <2>1. Matched'
    BY <1>1, <1>4 DEF NInv, Births, Matched, Together, C!wide_snapshot_matches_minimal
  <2>2. C!NestedTrapsApart'
    BY <1>1, <1>4 DEF NInv, Births, C!NestedTrapsApart
  <2>3. QED
    BY <2>1, <2>2
<1>6. Together(minimal.body, fault.id)' => minimal.seq <= counter
  <2>1. SUFFICES ASSUME minimal.body \in C!Fault, born'[minimal.body] = born'[new] PROVE minimal.seq <= counter
    BY <1>1 DEF Together
  <2>2. minimal.body \in 1..faults /\ born'[minimal.body] = born[minimal.body]
    BY <1>4, <2>1 DEF NInv, Births
  <2>3. born[minimal.body] <= minimal.body /\ born[minimal.body] \in Nat
    BY <2>1, <2>2 DEF NInv, Births
  <2>4. fault.id # C!None
    BY <1>0, <1>2, <2>1, <2>2, <2>3
  <2>5. fault.id \in C!Fault /\ born[minimal.body] = born[fault.id]
    BY <1>0, <1>2, <2>1, <2>2, <2>4 DEF C!Fault, C!None, C!CrashAssumption, NInv, Shapes
  <2>6. QED
    BY <2>1, <2>5 DEF NInv, Numbered, Together
<1>7. Numbered'
  <2>1. CASE next = "wide_open"
    <3>1. minimal.seq <= counter => minimal.seq < counter + 1 /\ minimal.seq <= counter + 1
      BY <1>0
    <3>2. QED
      BY <1>1, <1>6, <2>1, <3>1 DEF Numbered
  <2>2. CASE next # "wide_open"
    BY <1>1, <1>6, <2>2 DEF Numbered
  <2>3. QED
    BY <2>1, <2>2
<1>8. QED
  BY <1>3, <1>5, <1>7 DEF NInv
(* Every step keeps it. *)
LEMMA NNext == ASSUME C!CrashAssumption, NInv, Shapes', [C!Next]_(C!vars) PROVE NInv'
<1>0. /\ MaxFaults \in Nat /\ faults \in Nat /\ counter \in Nat /\ fault.id \in 0..faults
      /\ faults <= MaxFaults
      /\ minimal \in Snapshots /\ wide \in Contexts
  BY DEF NInv, Shapes, C!CrashAssumption
<1>i. /\ C!None \notin C!Fault /\ C!Mixed \notin C!Fault /\ C!Mixed \in C!Mixed..faults
      /\ C!None \in C!Mixed..faults /\ fault.id \in C!Mixed..faults
  BY <1>0 DEF C!Fault, C!None, C!Mixed
<1>s. counter <= counter
  BY <1>0
<1>1. ASSUME UNCHANGED <<faults, born>>, minimal'.body \in C!Mixed..faults, wide'.body \in C!Mixed..faults,
             \A e \in spool' : e \in spool \/ (e.minimal \in C!Mixed..faults /\ e.wide \in C!Mixed..faults)
      PROVE  Births'
  BY <1>1 DEF NInv, Births
<1>2. ASSUME UNCHANGED <<faults, born, spool, minimal, wide>>
      PROVE Births' /\ Matched' /\ C!NestedTrapsApart'
  <2>1. Births'
    BY <1>2 DEF NInv, Births
  <2>2. Matched'
    BY <1>2 DEF NInv, Matched, Together, C!wide_snapshot_matches_minimal
  <2>3. QED
    BY <1>2, <2>1, <2>2 DEF NInv, C!NestedTrapsApart
<1>3. CASE C!Boot
  <2>1. Numbered'
    BY <1>3, <1>i DEF C!Boot, C!retained, C!NoFault, Numbered, Together
  <2>2. QED
    BY <1>2, <1>3, <2>1 DEF C!Boot, C!retained, NInv
<1>4. CASE C!EnterCapture \/ C!HandlerReset \/ C!OtherReset \/ C!OtherCapture \/ UNCHANGED C!vars
  <2>1. /\ UNCHANGED <<minimal, wide, counter, fault, spool, faults, born>>
        /\ pc' = pc \/ pc' \in {"unwide", "capture", "off"}
    BY <1>4 DEF C!EnterCapture, C!HandlerReset, C!OtherReset, C!OtherCapture, C!retained, C!vars
  <2>2. Numbered'
    BY <2>1 DEF NInv, Numbered, Together
  <2>3. QED
    BY <1>2, <2>1, <2>2 DEF NInv
<1>5. ASSUME NEW ok \in BOOLEAN, C!ls_capture_minimal_recover(ok) PROVE NInv'
  <2>1. /\ UNCHANGED <<minimal, wide, counter, fault, faults, born>> /\ pc' \in {"clear", "run"}
        /\ spool' \in {spool, spool \cup {C!Event}}
    BY <1>5 DEF C!ls_capture_minimal_recover, C!retained
  <2>2. C!Event.minimal \in C!Mixed..faults /\ C!Event.wide \in C!Mixed..faults
    BY <1>i DEF C!Event, NInv, Births
  <2>3. C!Event.minimal \in C!Fault /\ C!Event.wide \in C!Fault /\ born[C!Event.minimal] = born[C!Event.wide]
           => C!Event.minimal = C!Event.wide
    BY <1>i DEF C!Event, C!ls_wide_context_snapshot_read, NInv, Matched, Together
  <2>4. Births'
    BY <1>1, <2>1, <2>2 DEF NInv, Births
  <2>5. C!NestedTrapsApart'
    BY <2>1, <2>3 DEF NInv, C!NestedTrapsApart
  <2>6. Matched' /\ Numbered'
    BY <2>1 DEF NInv, Matched, Numbered, Together, C!wide_snapshot_matches_minimal
  <2>7. QED
    BY <2>4, <2>5, <2>6 DEF NInv
<1>6. CASE C!ls_minimal_snapshot_clear \/ C!PowerLoss
  <2>1. /\ UNCHANGED <<counter, fault, faults, born, spool>> /\ pc' \in {"clear_wide", "run", "off"}
        /\ \/ minimal'.body = C!Mixed
           \/ minimal'.body = minimal.body /\ minimal'.seq = minimal.seq /\ minimal'.version = minimal.version
        /\ ~wide'.magic \/ wide' = wide
        /\ wide'.body \in {wide.body, C!Mixed}
    BY <1>0, <1>6 DEF C!ls_minimal_snapshot_clear, C!PowerLoss, C!MinimalGarbage, C!WideGarbage,
       Snapshots, Contexts
  <2>2. Births'
    BY <1>1, <1>i, <2>1 DEF NInv, Births
  <2>3. Matched'
    BY <1>i, <2>1 DEF NInv, Matched, Together, C!wide_snapshot_matches_minimal
  <2>4. Numbered'
    BY <1>i, <2>1 DEF NInv, Numbered, Together
  <2>5. QED
    BY <2>1, <2>2, <2>3, <2>4 DEF NInv, C!NestedTrapsApart
<1>7. ASSUME NEW ok \in BOOLEAN, C!LeaveCapture(ok) PROVE NInv'
  <2> DEFINE e == [minimal |-> fault.id, wide |-> IF fault.rv64 THEN fault.id ELSE C!None]
  <2>1. /\ UNCHANGED <<minimal, wide, counter, faults, born>> /\ pc' \in {"stored", "unwide"}
        /\ spool' \in {spool, spool \cup {e}}
    BY <1>7 DEF C!LeaveCapture, C!retained
  <2>2. fault'.id = fault.id
    BY <1>7 DEF C!LeaveCapture, NInv, Shapes
  <2>3. Births'
    BY <1>1, <1>i, <2>1 DEF NInv, Births
  <2>4. C!NestedTrapsApart'
    BY <1>i, <2>1 DEF NInv, C!NestedTrapsApart
  <2>5. Matched' /\ Numbered'
    BY <2>1, <2>2 DEF NInv, Matched, Numbered, Together, C!wide_snapshot_matches_minimal
  <2>6. QED
    BY <2>3, <2>4, <2>5 DEF NInv
<1>8. CASE C!WideStep
  <2>0. UNCHANGED <<minimal, counter, fault, spool, faults, born>>
    BY <1>8 DEF C!WideStep
  <2>1. CASE pc = "unwide"
    <3>1. pc' = "open" /\ ~wide'.magic /\ wide'.body = wide.body
      BY <1>0, <1>8, <2>1 DEF C!WideStep, Contexts
    <3>2. Births' /\ Matched' /\ Numbered'
      BY <1>1, <2>0, <3>1 DEF NInv, Births, Matched, Numbered, Together
    <3>3. QED
      BY <2>0, <3>2 DEF NInv, C!NestedTrapsApart
  <2>2. CASE pc = "wide_open"
    <3>1. pc' = "wide_body" /\ ~wide'.magic /\ wide'.body = C!Mixed /\ wide'.seq = counter
      BY <1>8, <2>2 DEF C!WideStep
    <3>2. Births' /\ Matched' /\ Numbered'
      BY <1>1, <1>i, <2>0, <2>2, <3>1 DEF NInv, Births, Matched, Numbered, Together
    <3>3. QED
      BY <2>0, <3>2 DEF NInv, C!NestedTrapsApart
  <2>3. CASE pc = "wide_body"
    <3>1. pc' = "wide_commit" /\ ~wide'.magic /\ wide'.body = fault.id /\ wide'.seq = counter
      BY <1>0, <1>8, <2>3 DEF C!WideStep, C!Sealed, Contexts, NInv, Numbered
    <3>2. Births' /\ Matched' /\ Numbered'
      BY <1>1, <1>i, <2>0, <2>3, <3>1 DEF NInv, Births, Matched, Numbered, Together
    <3>3. QED
      BY <2>0, <3>2 DEF NInv, C!NestedTrapsApart
  <2>4. CASE pc = "wide_commit"
    <3>1. pc' = "open" /\ wide'.body = fault.id /\ wide'.seq = counter
      BY <1>0, <1>8, <2>4 DEF C!WideStep, Contexts, NInv, Numbered
    <3>2. minimal.seq \in Nat /\ ~(counter < counter)
      BY <1>0 DEF Snapshots
    <3>3. Matched'
      BY <2>0, <2>4, <3>1, <3>2
         DEF NInv, Matched, Numbered, Together, C!wide_snapshot_matches_minimal
    <3>4. Births' /\ Numbered'
      BY <1>1, <1>i, <2>0, <2>4, <3>1 DEF NInv, Births, Numbered, Together
    <3>5. QED
      BY <2>0, <3>3, <3>4 DEF NInv, C!NestedTrapsApart
  <2>5. QED
    BY <1>8, <2>1, <2>2, <2>3, <2>4 DEF C!WideStep
<1>9. CASE C!Open
  <2>1. /\ UNCHANGED <<wide, counter, fault, spool, faults, born>> /\ pc = "open" /\ pc' = "body"
        /\ minimal'.body = C!Mixed /\ minimal'.seq = counter
    BY <1>9 DEF C!Open
  <2>2. Births' /\ Matched' /\ Numbered'
    BY <1>1, <1>i, <2>1 DEF NInv, Births, Matched, Numbered, Together
  <2>3. QED
    BY <2>1, <2>2 DEF NInv, C!NestedTrapsApart
<1>10. CASE C!Body
  <2>1. /\ UNCHANGED <<wide, counter, fault, spool, faults, born>> /\ pc = "body" /\ pc' = "commit"
        /\ minimal'.body = fault.id /\ minimal'.seq = counter
    BY <1>0, <1>10 DEF C!Body, C!Sealed, Snapshots, NInv, Numbered
  <2>2. Births' /\ Matched' /\ Numbered'
    BY <1>1, <1>i, <1>s, <2>1 DEF NInv, Births, Matched, Numbered, Together
  <2>3. QED
    BY <2>1, <2>2 DEF NInv, C!NestedTrapsApart
<1>11. CASE C!Commit
  <2>1. /\ UNCHANGED <<wide, counter, fault, spool, faults, born>> /\ pc' = "stored"
        /\ minimal'.body = minimal.body /\ minimal'.seq = minimal.seq /\ minimal'.version = minimal.version
    BY <1>0, <1>11 DEF C!Commit, Snapshots
  <2>2. Births' /\ Matched' /\ Numbered'
    BY <1>1, <2>1 DEF NInv, Births, Matched, Numbered, Together, C!wide_snapshot_matches_minimal
  <2>3. QED
    BY <2>1, <2>2 DEF NInv, C!NestedTrapsApart
<1>12. CASE C!ls_capture_minimal_fault \/ C!ls_capture_minimal_riscv64_fault
  BY <1>12, RaiseKeepsNInv DEF C!ls_capture_minimal_fault, C!ls_capture_minimal_riscv64_fault
<1>13. ASSUME NEW rv64 \in BOOLEAN, C!capture_cpu_context(rv64) PROVE NInv'
  <2>1. CASE capturing \/ pc = "capture"
    BY <1>13, <2>1, RaiseKeepsNInv DEF C!capture_cpu_context
  <2>2. CASE ~(capturing \/ pc = "capture")
    BY <1>13, <2>2, RaiseKeepsNInv DEF C!capture_cpu_context
  <2>3. QED
    BY <2>1, <2>2
<1>14. QED
  BY <1>3, <1>4, <1>5, <1>6, <1>7, <1>8, <1>9, <1>10, <1>11, <1>12, <1>13
     DEF C!Next, C!BootStep, C!HandlerStep

(* wide_snapshot_matches_minimal (capture/capture.c): the sequence number  *)
(* tells the nested traps of one boot apart. No event has the minimal      *)
(* record of one of them and the wide context of another, for any number   *)
(* of faults and wherever each of them interrupts the last.                *)
THEOREM CrashNestedTrapsApart ==
    ASSUME C!CrashAssumption
    PROVE  C!Spec => []C!NestedTrapsApart
<1>1. C!Init => EInv /\ NInv
  BY EInit, NInit
<1>2. EInv /\ NInv /\ [C!Next]_(C!vars) => (EInv /\ NInv)'
  <2> SUFFICES ASSUME EInv, NInv, [C!Next]_(C!vars) PROVE EInv' /\ NInv'
    OBVIOUS
  <2>1. EInv'
    BY ENext
  <2>2. Shapes'
    BY <2>1 DEF EInv
  <2>3. QED
    BY <2>1, <2>2, NNext
<1>3. NInv => C!NestedTrapsApart
  BY DEF NInv
<1>4. QED
  BY <1>1, <1>2, <1>3, PTL DEF C!Spec

-----------------------------------------------------------------------------
(* Types of the two copies and of what the handler works on. *)
Copies == [magic : {"none", "part", "full"}, record : F!Brownout \cup {F!Mixed}]

Kept ==
    /\ seal \in Copies /\ backup \in Copies
    /\ brownouts \in Nat
    /\ owed \subseteq F!Brownout
    /\ nmi # "none" => now \in F!Brownout /\ pc = "run"

(* How far the handler has come: no magic is set over a record that is     *)
(* being written.                                                          *)
Stages ==
    /\ nmi \in {"tail", "mirror", "magic"} => seal.magic # "full"
    /\ nmi \in {"mirror", "magic", "mirror_magic"} => seal.record = now
    /\ nmi = "mirror_magic" => HasBackup /\ seal.magic = "full" /\ backup.magic # "full" /\ backup.record = now
    /\ nmi = "magic" /\ HasBackup => backup = [magic |-> "none", record |-> now]

(* A seal that is owed and not stored is in both memories, or in the one   *)
(* there is, and what is being promoted is what a boot would find.         *)
Safe ==
    /\ F!SealKept
    /\ HasBackup => \A b \in owed \ spool : F!sealed_validate_copy(backup) /\ backup.record = b
    /\ pc \in {"recover", "clear"} => sealed = F!sealed_read_retained
    /\ pc = "clear" => sealed \in spool
    /\ pc = "clear_mirror" => owed \subseteq spool

FInv == Kept /\ Stages /\ Safe

(* It holds when power comes up first. *)
LEMMA FInit == ASSUME F!SealAssumption, F!Init PROVE FInv
BY DEF F!Init, FInv, Kept, Stages, Safe, F!SealKept, F!Garbage, Copies

(* Nothing is owed but what is stored when neither memory has a seal. *)
LEMMA NothingFound ==
    ASSUME FInv, ~F!sealed_validate_copy(seal), HasBackup => ~F!sealed_validate_copy(backup)
    PROVE  owed \subseteq spool
<1>1. F!sealed_read_retained = F!None
  BY DEF F!sealed_read_retained
<1>2. F!None \notin owed
  BY DEF FInv, Kept, F!Brownout, F!None
<1>3. QED
  BY <1>1, <1>2 DEF FInv, Safe, F!SealKept

(* Every step keeps it. *)
LEMMA FNext == ASSUME F!SealAssumption, BootIsQuiet, FInv, [F!Next]_(F!vars) PROVE FInv'
<1>0. /\ seal \in Copies /\ backup \in Copies /\ owed \subseteq F!Brownout /\ HasBackup \in BOOLEAN
      /\ F!Mixed \notin F!Brownout /\ F!None \notin F!Brownout
  BY DEF FInv, Kept, F!SealAssumption, F!Brownout, F!None, F!Mixed
<1>1. ASSUME UNCHANGED <<seal, backup, owed, spool>>
      PROVE F!SealKept' /\ F!sealed_read_retained' = F!sealed_read_retained
  BY <1>1 DEF FInv, Safe, F!SealKept, F!sealed_read_retained, F!sealed_validate_copy
<1>2. CASE F!ls_powerfail_seal
  <2>1. /\ pc = "run" /\ pc' = pc /\ brownouts + 1 \in F!Brownout /\ brownouts' = brownouts + 1
        /\ brownouts + 1 \in Nat
    BY <1>2 DEF F!ls_powerfail_seal, F!Enter, F!Brownout, FInv, Kept, F!SealAssumption
  <2>2. UNCHANGED <<seal, backup, spool, sealed>> /\ owed' \subseteq owed
    BY <1>2 DEF F!ls_powerfail_seal
  <2>3. \/ UNCHANGED <<nmi, now>>
        \/ nmi' = "tail" /\ now' = brownouts + 1 /\ seal.magic # "full"
    BY <1>2, <2>1 DEF F!ls_powerfail_seal
  <2>4. Kept' /\ Stages'
    BY <2>1, <2>2, <2>3 DEF FInv, Kept, Stages
  <2>5. Safe'
    BY <2>1, <2>2 DEF FInv, Safe, F!SealKept, F!sealed_read_retained, F!sealed_validate_copy
  <2>6. QED
    BY <2>4, <2>5 DEF FInv
<1>3. CASE F!Tail
  <2>1. /\ UNCHANGED <<backup, now, pc, sealed, spool, brownouts, owed>> /\ pc = "run" /\ now \in F!Brownout
        /\ seal.magic # "full" /\ seal'.magic = seal.magic /\ seal' \in Copies
        /\ nmi' = "tail" \/ (seal'.record = now /\ nmi' = IF HasBackup THEN "mirror" ELSE "magic")
    BY <1>0, <1>3 DEF F!Tail, FInv, Kept, Stages, Copies
  <2>2. Kept' /\ Stages'
    BY <1>0, <2>1 DEF FInv, Kept, Stages
  <2>3. Safe'
    BY <2>1 DEF FInv, Safe, F!SealKept, F!sealed_read_retained, F!sealed_validate_copy
  <2>4. QED
    BY <2>2, <2>3 DEF FInv
<1>4. CASE F!seal_copy_to_backup
  <2>1. /\ UNCHANGED <<seal, now, pc, sealed, spool, brownouts>> /\ pc = "run" /\ now \in F!Brownout
        /\ seal.magic # "full" /\ seal.record = now /\ owed' = owed \ {backup.record}
        /\ \/ nmi' = "mirror" /\ backup' = F!Garbage
           \/ nmi' = "magic" /\ backup' = [magic |-> "none", record |-> now]
    BY <1>4 DEF F!seal_copy_to_backup, FInv, Kept, Stages
  <2>2. backup' \in Copies /\ backup'.magic = "none"
    BY <2>1 DEF Copies, F!Garbage
  <2>3. Kept' /\ Stages'
    BY <1>0, <2>1, <2>2 DEF FInv, Kept, Stages
  <2>4. owed' \subseteq spool
    <3>1. ASSUME NEW b \in owed, b \notin spool PROVE b = backup.record
      <4>1. F!sealed_read_retained = b /\ b # F!None
        BY <1>0, <3>1 DEF FInv, Safe, F!SealKept
      <4>2. QED
        BY <2>1, <4>1 DEF F!sealed_read_retained, F!sealed_validate_copy
    <3>2. QED
      BY <2>1, <3>1
  <2>5. Safe'
    BY <2>1, <2>4 DEF Safe, F!SealKept
  <2>6. QED
    BY <2>3, <2>5 DEF FInv
<1>5. CASE F!Magic
  <2>0. /\ UNCHANGED <<now, pc, sealed, spool, brownouts>> /\ pc = "run" /\ now \in F!Brownout
        /\ seal.record = now
    BY <1>5 DEF F!Magic, FInv, Kept, Stages
  <2>1. CASE nmi = "magic"
    <3>1. /\ seal'.magic = "full" /\ seal'.record = now /\ seal' \in Copies /\ backup' = backup
          /\ nmi' = IF HasBackup THEN "mirror_magic" ELSE "none"
          /\ owed' = IF HasBackup THEN owed ELSE owed \cup {now}
      BY <1>0, <1>5, <2>0, <2>1 DEF F!Magic, Copies
    <3>2. Kept'
      BY <1>0, <2>0, <3>1 DEF FInv, Kept
    <3>3. Stages'
      BY <1>0, <2>0, <2>1, <3>1 DEF FInv, Stages
    <3>4. owed \subseteq spool
      <4>1. ~F!sealed_validate_copy(seal) /\ (HasBackup => ~F!sealed_validate_copy(backup))
        BY <2>1 DEF FInv, Stages, F!sealed_validate_copy
      <4>2. QED
        BY <4>1, NothingFound
    <3>5. F!sealed_read_retained' = now
      BY <1>0, <2>0, <3>1 DEF F!sealed_read_retained, F!sealed_validate_copy
    <3>6. Safe'
      BY <1>0, <2>0, <3>1, <3>4, <3>5 DEF Safe, F!SealKept
    <3>7. QED
      BY <3>2, <3>3, <3>6 DEF FInv
  <2>2. CASE nmi = "mirror_magic"
    <3>1. /\ seal' = seal /\ seal.magic = "full" /\ HasBackup /\ backup'.record = now /\ backup' \in Copies
          /\ backup.magic # "full"
          /\ \/ backup'.magic = "part" /\ nmi' = "mirror_magic" /\ owed' = owed
             \/ backup'.magic = "full" /\ nmi' = "none" /\ owed' = owed \cup {now}
      BY <1>0, <1>5, <2>0, <2>2 DEF F!Magic, Copies, FInv, Stages
    <3>2. Kept'
      BY <1>0, <2>0, <3>1 DEF FInv, Kept
    <3>3. Stages'
      BY <1>0, <2>0, <3>1 DEF FInv, Stages
    <3>4. owed \subseteq spool
      BY <3>1 DEF FInv, Safe, F!sealed_validate_copy
    <3>5. F!sealed_read_retained' = now
      BY <1>0, <2>0, <3>1 DEF F!sealed_read_retained, F!sealed_validate_copy
    <3>6. \A b \in owed' \ spool' : b = now /\ backup'.magic = "full"
      BY <2>0, <3>1, <3>4
    <3>7. Safe'
      BY <1>0, <2>0, <3>1, <3>5, <3>6 DEF Safe, F!SealKept, F!sealed_validate_copy
    <3>8. QED
      BY <3>2, <3>3, <3>7 DEF FInv
  <2>3. QED
    BY <1>5, <2>1, <2>2 DEF F!Magic
<1>6. CASE F!RailDies
  <2>1. /\ UNCHANGED <<backup, spool, brownouts>> /\ pc' = "off" /\ nmi' = "none"
        /\ seal' \in {seal, F!Garbage}
        /\ owed' = IF HasBackup \/ seal' = seal THEN owed ELSE owed \cap spool
    BY <1>6 DEF F!RailDies
  <2>2. seal' \in Copies /\ ~F!sealed_validate_copy(F!Garbage)
    BY <1>0, <2>1 DEF Copies, F!Garbage, F!sealed_validate_copy
  <2>3. Kept' /\ Stages'
    BY <2>1, <2>2 DEF FInv, Kept, Stages
  <2>4. ASSUME NEW b \in owed', b \notin spool PROVE F!sealed_read_retained' = b
    <3>1. CASE seal' = seal
      BY <2>1, <2>4, <3>1 DEF FInv, Safe, F!SealKept, F!sealed_read_retained, F!sealed_validate_copy
    <3>2. CASE seal' = F!Garbage /\ HasBackup
      BY <2>1, <2>2, <2>4, <3>2 DEF FInv, Safe, F!sealed_read_retained, F!sealed_validate_copy
    <3>3. QED
      BY <2>1, <2>4, <3>1, <3>2
  <2>5. Safe'
    <3>1. F!SealKept'
      BY <2>1, <2>4 DEF F!SealKept
    <3>2. QED
      BY <2>1, <3>1 DEF FInv, Safe, F!sealed_validate_copy
  <2>6. QED
    BY <2>3, <2>5 DEF FInv
<1>7. CASE F!Boot
  <2>1. /\ UNCHANGED <<seal, backup, nmi, now, spool, brownouts, owed>> /\ pc = "off"
        /\ pc' \in {"run", "recover"} /\ sealed' = F!sealed_read_retained
    BY <1>7 DEF F!Boot
  <2>2. Kept' /\ Stages'
    BY <2>1 DEF FInv, Kept, Stages
  <2>3. Safe'
    BY <1>1, <2>1 DEF FInv, Safe, F!sealed_validate_copy
  <2>4. QED
    BY <2>2, <2>3 DEF FInv
<1>8. ASSUME NEW ok \in BOOLEAN, F!ls_powerfail_recover(ok) PROVE FInv'
  <2>1. /\ UNCHANGED <<seal, backup, nmi, now, sealed, brownouts, owed>> /\ pc = "recover" /\ nmi = "none"
        /\ spool' = IF ok THEN spool \cup {sealed} ELSE spool
        /\ pc' = IF ok THEN "clear" ELSE "run"
    BY <1>8 DEF F!ls_powerfail_recover
  <2>2. Kept' /\ Stages'
    BY <2>1 DEF FInv, Kept, Stages
  <2>3. Safe'
    BY <2>1 DEF FInv, Safe, F!SealKept, F!sealed_read_retained, F!sealed_validate_copy
  <2>4. QED
    BY <2>2, <2>3 DEF FInv
<1>9. CASE F!ls_powerfail_sealed_clear
  <2>1. /\ UNCHANGED <<nmi, now, sealed, spool, brownouts, owed>> /\ nmi = "none"
        /\ pc \in {"clear", "clear_mirror"}
        /\ pc' \in {"clear_mirror", "run"} /\ seal' \in Copies /\ backup' \in Copies
    BY <1>0, <1>9 DEF F!ls_powerfail_sealed_clear, Copies
  <2>2. Kept' /\ Stages'
    BY <2>1 DEF FInv, Kept, Stages
  <2>3. owed \subseteq spool
    BY <2>1 DEF FInv, Safe, F!SealKept
  <2>4. Safe'
    BY <2>1, <2>3 DEF Safe, F!SealKept
  <2>5. QED
    BY <2>2, <2>4 DEF FInv
<1>10. CASE F!MarkSuccessful \/ UNCHANGED F!vars
  <2>1. UNCHANGED <<seal, backup, nmi, now, pc, sealed, spool, brownouts, owed>>
    BY <1>10 DEF F!MarkSuccessful, F!vars
  <2>2. QED
    BY <1>1, <2>1 DEF FInv, Kept, Stages, Safe, F!sealed_validate_copy
<1>11. QED
  BY <1>2, <1>3, <1>4, <1>5, <1>6, <1>7, <1>8, <1>9, <1>10 DEF F!Next, F!NmiStep, F!BootStep

(* ls_powerfail_seal and ls_powerfail_recover (core/powerfail.c): a seal   *)
(* that was completed is stored, or the next boot finds it, until a later  *)
(* seal replaces it, wherever the supply dies, with backup RAM or without. *)
(* No brownout comes while a seal is promoted.                             *)
THEOREM PowerfailSealKept ==
    ASSUME F!SealAssumption, BootIsQuiet
    PROVE  F!Spec => []F!SealKept
<1>1. F!Init => FInv
  BY FInit
<1>2. FInv /\ [F!Next]_(F!vars) => FInv'
  BY FNext
<1>3. FInv => F!SealKept
  BY DEF FInv, Safe
<1>4. QED
  BY <1>1, <1>2, <1>3, PTL DEF F!Spec

(* While the handler writes a record its magic is not set, whatever the    *)
(* handler interrupts.                                                     *)
Guarded ==
    /\ brownouts \in Nat /\ now \in Nat
    /\ seal \in [magic : {"none", "full"}, record : Int]
    /\ nmi \in {"tail", "mirror", "magic"} => seal.magic # "full"

(* ls_powerfail_seal (core/powerfail.c): a second interrupt never tears    *)
(* the record of a committed seal, also when it comes during a promotion:  *)
(* while the magic of .noinit RAM is set its record does not change.       *)
THEOREM PowerfailSealedOnce ==
    ASSUME F!SealAssumption
    PROVE  F!Spec => [][F!SealedOnce]_(F!vars)
<1>1. F!Init => Guarded
  BY DEF F!Init, Guarded, F!Garbage, F!Mixed, F!None
<1>2. Guarded /\ [F!Next]_(F!vars) => Guarded' /\ [F!SealedOnce]_(F!vars)
  <2> SUFFICES ASSUME Guarded, [F!Next]_(F!vars) PROVE Guarded' /\ F!SealedOnce
    OBVIOUS
  <2> DEFINE Marks == [magic : {"none", "full"}, record : Int]
  <2> USE DEF Guarded
  <2>0. seal \in Marks
    OBVIOUS
  <2>i. F!Mixed \in Int /\ now \in Int
    <3>1. F!Mixed \in Int
      BY DEF F!Mixed
    <3>2. QED
      BY <3>1
  <2>r. \A r \in Int : [seal EXCEPT !.record = r] \in Marks /\ [seal EXCEPT !.record = r].magic = seal.magic
    BY <2>0
  <2>m. ASSUME NEW m \in {"none", "full"}
        PROVE  [seal EXCEPT !.magic = m] \in Marks /\ [seal EXCEPT !.magic = m].record = seal.record
    BY <2>0
  <2>1. CASE F!ls_powerfail_seal
    BY <2>1 DEF F!ls_powerfail_seal, F!Enter, F!SealedOnce
  <2>2. CASE F!Tail
    <3>1. /\ seal' \in Marks /\ seal'.magic = seal.magic
          /\ seal.magic # "full" /\ UNCHANGED <<brownouts, now>>
      BY <2>0, <2>i, <2>r, <2>2 DEF F!Tail
    <3>2. QED
      BY <3>1 DEF F!SealedOnce
  <2>3. CASE F!seal_copy_to_backup \/ F!MarkSuccessful \/ UNCHANGED F!vars
    BY <2>3 DEF F!seal_copy_to_backup, F!MarkSuccessful, F!vars, F!SealedOnce
  <2>4. CASE F!Magic
    <3>1. /\ seal' \in Marks /\ seal'.record = seal.record
          /\ nmi' \in {"mirror_magic", "none"} /\ UNCHANGED <<brownouts, now>>
      BY <2>0, <2>m, <2>4 DEF F!Magic
    <3>2. QED
      BY <3>1 DEF F!SealedOnce
  <2>5. CASE F!RailDies
    BY <2>5 DEF F!RailDies, F!SealedOnce, F!Garbage, F!Mixed, F!None
  <2>6. CASE F!BootStep
    <3>1. /\ seal' \in Marks /\ seal'.record = seal.record
          /\ seal' = seal \/ nmi = "none"
          /\ UNCHANGED <<brownouts, now, nmi>>
      BY <2>0, <2>m, <2>6 DEF F!BootStep, F!Boot, F!ls_powerfail_recover,
         F!ls_powerfail_sealed_clear
    <3>2. QED
      BY <3>1 DEF F!SealedOnce
  <2>7. QED
    BY <2>1, <2>2, <2>3, <2>4, <2>5, <2>6 DEF F!Next, F!NmiStep
<1>3. QED
  BY <1>1, <1>2, PTL DEF F!Spec
=============================================================================
