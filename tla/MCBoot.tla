------------------------------- MODULE MCBoot -------------------------------
(***************************************************************************)
(* What has to survive a reset, for TLC, one component at a time: part     *)
(* names the component that a behaviour runs, and the variables that it    *)
(* does not have keep the value Absent.                                    *)
(***************************************************************************)
EXTENDS Integers

CONSTANTS Torn, k1, k2, NoKey, t1, t2, Absent

VARIABLES part,
    persistent, medium, up,                                        \* the boot record
    retained, reason, safe_mode, previous_uptime, early, stale, left_over, ended,
    call, version, slot, requested, running, confirmed,            \* update
    step, element, loaded,                                         \* provisioning
    minimal, wide, counter, capturing, fault, faults, born,        \* crash evidence
    seal, backup, nmi, now, sealed, last_valid, brownouts,         \* power-fail seal
    records, total, overwritten, frozen, profile, until, previous_profile, current, made, changes,
    acked, chosen,                                                 \* black box
    descriptor, installed, alternate, action, previous, original, calls, handler, pipe, status,
    covered,                                                       \* signals
    pc, next, spool, owed, uptime, failures, resets                \* of several

record == <<persistent, medium, up>>
loop == <<retained, reason, safe_mode, previous_uptime, early, stale, left_over, ended>>
ota == <<call, version, slot, requested, running, confirmed>>
lifecycle == <<step, element, loaded>>
crash == <<minimal, wide, counter, capturing, fault, faults, born>>
powerfail == <<seal, backup, nmi, now, sealed, last_valid, brownouts>>
blackbox == <<records, total, overwritten, frozen, profile, until, previous_profile, current, made,
              changes, acked, chosen>>
signal == <<descriptor, installed, alternate, action, previous, original, calls, handler, pipe,
            status, covered>>
common == <<pc, next, spool, owed, uptime, failures, resets>>
vars == <<part, record, loop, ota, lifecycle, crash, powerfail, blackbox, signal, common>>

Loop == INSTANCE BootLoop WITH Atomic <- FALSE, Since <- 1, Threshold <- 2,
            PromotionMayFail <- TRUE, MaxFailures <- 3

Update == INSTANCE Ota WITH Atomic <- TRUE, Since <- 2, MaxVersion <- 3, MaxRollbacks <- 2,
            ConfirmsFirst <- TRUE

Identity == INSTANCE Provisioning WITH Atomic <- TRUE, Since <- 3, Key <- {k1, k2},
            MaxCounter <- 3, MaxGeneration <- 2

Crash == INSTANCE CrashEvidence WITH MaxFaults <- 3, MaxResets <- 1, AppendMayFail <- TRUE
Promote == INSTANCE CrashEvidence WITH MaxFaults <- 2, MaxResets <- 1, AppendMayFail <- FALSE

Backed == INSTANCE PowerfailSeal WITH MaxBrownouts <- 3, MaxFailures <- 2, HasBackup <- TRUE,
            BootIsQuiet <- TRUE
Unbacked == INSTANCE PowerfailSeal WITH MaxBrownouts <- 3, MaxFailures <- 2, HasBackup <- FALSE,
            BootIsQuiet <- TRUE

Ring == INSTANCE BlackBox WITH Capacity <- 4, Modulus <- 16, First <- 12, MaxRecords <- 8,
            MaxResets <- 2, MaxTime <- 0, MaxChanges <- 0
Profile == INSTANCE BlackBox WITH Capacity <- 2, Modulus <- 16, First <- 1, MaxRecords <- 1,
            MaxResets <- 0, MaxTime <- 4, MaxChanges <- 3

Install == INSTANCE SignalCapture WITH Thread <- {t1, t2}, Signals <- 2, PipeCapacity <- 1,
            MayOverflow <- TRUE, ByContract <- FALSE, MaxCalls <- 3
Single == INSTANCE SignalCapture WITH Thread <- {t1}, Signals <- 3, PipeCapacity <- 1,
            MayOverflow <- TRUE, ByContract <- FALSE, MaxCalls <- 3

ASSUME Loop!BootRecordAssumption /\ Loop!BootLoopAssumption
ASSUME Update!BootRecordAssumption /\ Update!OtaAssumption
ASSUME Identity!BootRecordAssumption /\ Identity!ProvisioningAssumption
ASSUME Crash!CrashAssumption /\ Promote!CrashAssumption
ASSUME Backed!SealAssumption /\ Unbacked!SealAssumption
ASSUME Ring!BlackBoxAssumption /\ Profile!BlackBoxAssumption
ASSUME Install!SignalCaptureAssumption /\ Single!SignalCaptureAssumption

NoRecord == persistent = Absent /\ medium = Absent /\ up = Absent
NoLoop == /\ retained = Absent /\ reason = Absent /\ safe_mode = Absent /\ previous_uptime = Absent
          /\ early = Absent /\ stale = Absent /\ left_over = Absent /\ ended = Absent
NoOta == /\ call = Absent /\ version = Absent /\ slot = Absent /\ requested = Absent
         /\ running = Absent /\ confirmed = Absent
NoLifecycle == step = Absent /\ element = Absent /\ loaded = Absent
NoCrash == /\ minimal = Absent /\ wide = Absent /\ counter = Absent /\ capturing = Absent
           /\ fault = Absent /\ faults = Absent /\ born = Absent
NoPowerfail == /\ seal = Absent /\ backup = Absent /\ nmi = Absent /\ now = Absent
               /\ sealed = Absent /\ last_valid = Absent /\ brownouts = Absent
NoBlackBox == /\ records = Absent /\ total = Absent /\ overwritten = Absent /\ frozen = Absent
              /\ profile = Absent /\ until = Absent /\ previous_profile = Absent /\ current = Absent
              /\ made = Absent /\ changes = Absent /\ acked = Absent /\ chosen = Absent
NoSignal == /\ descriptor = Absent /\ installed = Absent /\ alternate = Absent /\ action = Absent
            /\ previous = Absent /\ original = Absent /\ calls = Absent /\ handler = Absent
            /\ pipe = Absent /\ status = Absent /\ covered = Absent

RecordOnly == /\ NoCrash /\ NoPowerfail /\ NoBlackBox /\ NoSignal
              /\ pc = Absent /\ next = Absent /\ spool = Absent /\ owed = Absent /\ resets = Absent
RetainedOnly == NoRecord /\ NoLoop /\ NoOta /\ NoLifecycle

Init ==
    \/ part = "loop" /\ Loop!Init /\ NoOta /\ NoLifecycle /\ RecordOnly
    \/ part = "update" /\ Update!Init /\ NoLoop /\ NoLifecycle /\ RecordOnly
       /\ uptime = Absent /\ failures = Absent
    \/ part \in {"identity", "secure"} /\ Identity!Init /\ NoLoop /\ NoOta /\ RecordOnly
       /\ uptime = Absent /\ failures = Absent
    \/ part = "crash" /\ Crash!Init /\ RetainedOnly /\ NoPowerfail /\ NoBlackBox /\ NoSignal
       /\ next = Absent /\ uptime = Absent /\ failures = Absent
    \/ part = "promote" /\ Promote!Init /\ RetainedOnly /\ NoPowerfail /\ NoBlackBox /\ NoSignal
       /\ next = Absent /\ uptime = Absent /\ failures = Absent
    \/ part \in {"backed", "unbacked"} /\ Backed!Init /\ RetainedOnly /\ NoCrash /\ NoBlackBox
       /\ NoSignal /\ next = Absent /\ uptime = Absent /\ resets = Absent
    \/ part = "ring" /\ Ring!Init /\ RetainedOnly /\ NoCrash /\ NoPowerfail /\ NoSignal
       /\ spool = Absent /\ owed = Absent /\ failures = Absent
    \/ part = "profile" /\ Profile!Init /\ RetainedOnly /\ NoCrash /\ NoPowerfail /\ NoSignal
       /\ spool = Absent /\ owed = Absent /\ failures = Absent
    \/ part = "install" /\ Install!Init /\ RetainedOnly /\ NoCrash /\ NoPowerfail /\ NoBlackBox
       /\ spool = Absent /\ owed = Absent /\ uptime = Absent /\ failures = Absent /\ resets = Absent
    \/ part = "single" /\ Single!Init /\ RetainedOnly /\ NoCrash /\ NoPowerfail /\ NoBlackBox
       /\ spool = Absent /\ owed = Absent /\ uptime = Absent /\ failures = Absent /\ resets = Absent

RecordFrame == UNCHANGED <<part, crash, powerfail, blackbox, signal, pc, next, spool, owed, resets>>
RetainedFrame == UNCHANGED <<part, record, loop, ota, lifecycle>>
CrashFrame == RetainedFrame /\ UNCHANGED <<powerfail, blackbox, signal, next, uptime, failures>>
SealFrame == RetainedFrame /\ UNCHANGED <<crash, blackbox, signal, next, uptime, resets>>
BoxFrame == RetainedFrame /\ UNCHANGED <<crash, powerfail, signal, spool, owed, failures>>
SignalFrame == /\ RetainedFrame
               /\ UNCHANGED <<crash, powerfail, blackbox, spool, owed, uptime, failures, resets>>

(* A process that has ended does nothing more. *)
Ended == part \in {"install", "single"} /\ status # "running" /\ UNCHANGED vars

Next ==
    \/ part = "loop" /\ Loop!Next /\ RecordFrame /\ UNCHANGED <<ota, lifecycle>>
    \/ part = "update" /\ Update!Next /\ RecordFrame /\ UNCHANGED <<loop, lifecycle, uptime, failures>>
    \/ part = "identity" /\ Identity!Next /\ RecordFrame /\ UNCHANGED <<loop, ota, uptime, failures>>
    \/ part = "secure" /\ Identity!SecureNext /\ RecordFrame /\ UNCHANGED <<loop, ota, uptime, failures>>
    \/ part = "crash" /\ Crash!Next /\ CrashFrame
    \/ part = "promote" /\ Promote!Next /\ CrashFrame
    \/ part = "backed" /\ Backed!Next /\ SealFrame
    \/ part = "unbacked" /\ Unbacked!Next /\ SealFrame
    \/ part = "ring" /\ Ring!Next /\ BoxFrame
    \/ part = "profile" /\ Profile!Next /\ BoxFrame
    \/ part = "install" /\ Install!Next /\ SignalFrame
    \/ part = "single" /\ Single!Next /\ SignalFrame
    \/ Ended

(* The processor executes what it is at, in a handler and at boot; a thread *)
(* in the signal handler keeps running.                                     *)
Spec == /\ Init /\ [][Next]_vars
        /\ WF_vars(part = "promote" /\ Promote!BootStep /\ CrashFrame)
        /\ WF_vars(part = "promote" /\ Promote!HandlerStep /\ CrashFrame)
        /\ \A t \in {t1, t2} : WF_vars(part = "install" /\ Install!HandlerStep(t) /\ SignalFrame)

-----------------------------------------------------------------------------
(* Every component keeps to its types: among them, a success mark goes with *)
(* a failure counter of zero, a version is pending exactly while the update *)
(* state says so and a key during a rotation, and only complete seals are   *)
(* promoted.                                                                *)
TypeOK == /\ part = "loop" => Loop!TypeOK
          /\ part = "update" => Update!TypeOK
          /\ part \in {"identity", "secure"} => Identity!TypeOK
          /\ part = "crash" => Crash!TypeOK
          /\ part = "promote" => Promote!TypeOK
          /\ part = "backed" => Backed!TypeOK
          /\ part = "unbacked" => Unbacked!TypeOK
          /\ part = "ring" => Ring!TypeOK
          /\ part = "profile" => Profile!TypeOK
          /\ part = "install" => Install!TypeOK
          /\ part = "single" => Single!TypeOK

(* ls_boot counts failures right: when the firmware failed Threshold times  *)
(* within the window, with no success mark between, it starts in safe mode, *)
(* whatever kind of failure each one was; and it charges no reset twice and *)
(* no clean one, apart from the boots that met a snapshot an earlier boot   *)
(* had failed to promote.                                                   *)
FailuresAccounted == part = "loop" => Loop!LoopDetected /\ Loop!FailuresAccounted


(* ls_provisioning_decommission_secure destroys a key only when the intent  *)
(* is durable, and marks the metadata decommissioned only once the key is   *)
(* gone, so no reset brings an identity back without its key; and no        *)
(* session key stays in RAM after a revocation or a decommission.           *)
KeysFollowLifecycle ==
    /\ part = "secure" => Identity!DestroyedMeansIntended /\ Identity!DecommissionedMeansDestroyed
    /\ part \in {"identity", "secure"} => Identity!NoKeyAfterRevocation

(* A fault whose handler completed, and a power-fail seal that was, is not  *)
(* lost by a reset at any point of ls_boot or of a later handler: it is     *)
(* stored or will still be found, until a later one replaces it; and no     *)
(* event has the minimal record of one trap and the wide context of another *)
(* of the same boot.                                                        *)
EvidenceKept == /\ part = "crash" => Crash!EvidenceKept /\ Crash!NestedTrapsApart
                /\ part = "promote" => Promote!EvidenceKept
                /\ part = "backed" => Backed!SealKept
                /\ part = "unbacked" => Unbacked!SealKept


(* Outside install and uninstall, handlers are in place for all signals or  *)
(* for none, also when an installation failed half way; the reader of the   *)
(* pipe never sees a part of a record, whatever the number of threads in    *)
(* signal_handler; and a process with one thread that ends by a handled     *)
(* signal leaves a record, if the thread has its alternate stack.           *)
SignalsCaptured == /\ part = "install" => Install!AllOrNone /\ Install!WholeRecords
                   /\ part = "single" => Single!AllOrNone /\ Single!FaultRecorded

Unstored(f) == part = "promote" /\ f \in owed /\ ~Promote!Stored(f)
Handling == part = "install" /\ \E t \in {t1, t2} : handler[t] # "out"

(* ls_boot gets the evidence of a completed fault stored, unless a later    *)
(* fault replaces it or power is lost before; and a process that has        *)
(* entered signal_handler ends: nothing in it can wait for the reader of    *)
(* the pipe.                                                                *)
HandlingEnds == /\ \A f \in Promote!Fault : Unstored(f) ~> ~Unstored(f)
                /\ Handling ~> status # "running"
=============================================================================
