--------------------------- MODULE CrashEvidence ---------------------------
(***************************************************************************)
(* From a fault to a stored crash event (src/capture/capture.c and the end *)
(* of ls_boot): the minimal snapshot and the wide RV64 sidecar in retained *)
(* RAM, written word by word by handlers that a nested fault or a reset    *)
(* may interrupt, and their promotion at the next boot.  The registers of  *)
(* a fault are its identity; all faults here happen at the same place, so  *)
(* the summary words of any two of them are equal.  The spool is a set of  *)
(* events.                                                                 *)
(***************************************************************************)
EXTENDS Integers

CONSTANTS
    MaxFaults,          \* bound on the faults of a behaviour
    MaxResets,          \* bound on the resets no handler asks for
    AppendMayFail       \* whether the promotion may fail to append

CrashAssumption ==
    MaxFaults \in Nat \ {0} /\ MaxResets \in Nat /\ AppendMayFail \in BOOLEAN

Mixed == -1             \* words of more than one fault, or garbage
None == 0
Fault == 1..MaxFaults

VARIABLES
    minimal,            \* minimal_snapshot, in retained RAM
    wide,               \* wide_context_snapshot, in retained RAM
    counter,            \* riscv64_fault_capture_sequence
    capturing,          \* ls_runtime.capturing, held by another context
    pc,                 \* what the processor executes
    fault,              \* the fault being handled, and how
    spool,              \* crash events stored
    faults, resets,     \* how many there were
    owed,               \* history: faults whose evidence was complete and not replaced
    born                \* history: the first fault of the boot in which a fault happened

retained == <<minimal, wide>>
vars == <<minimal, wide, counter, capturing, pc, fault, spool, faults, resets, owed, born>>

WideGarbage == [magic |-> FALSE, body |-> Mixed, whole |-> FALSE, seq |-> 0]
MinimalGarbage == [magic |-> FALSE, body |-> Mixed, whole |-> FALSE, seq |-> 0, version |-> 3,
                   wide |-> FALSE]
NoFault == [id |-> None, rv64 |-> FALSE]

(* Power-up, or a snapshot an older firmware left. *)
Init == /\ minimal \in {MinimalGarbage} \cup
              {[magic |-> TRUE, body |-> None, whole |-> TRUE, seq |-> 1, version |-> v,
                wide |-> v = 2] : v \in 1..2}
        /\ wide = WideGarbage
        /\ counter = 0
        /\ capturing = FALSE
        /\ pc = "off"
        /\ fault = NoFault
        /\ spool = {}
        /\ faults = 0 /\ resets = 0
        /\ owed = {}
        /\ born = [f \in Fault |-> 0]

-----------------------------------------------------------------------------
(* The CRC over the fields and the magic still to come. *)
Sealed(record) == [record EXCEPT !.body = fault.id, !.whole = TRUE]

(* Any of the three formats. *)
ls_minimal_snapshot_validate(copy) == copy.magic /\ copy.whole

ls_minimal_snapshot_read == ls_minimal_snapshot_validate(minimal)

ls_wide_context_snapshot_read == wide.magic /\ wide.whole

(* The two older formats are zero where the architecture is compared. *)
wide_snapshot_matches_minimal == wide.seq = minimal.seq /\ minimal.version = 3

Event == [minimal |-> minimal.body,
          wide |-> IF minimal.wide /\ ls_wide_context_snapshot_read
                      /\ wide_snapshot_matches_minimal
                   THEN wide.body ELSE None]

(* Fault: the retained snapshot is not looked for. *)
Boot_Blind ==
    /\ pc = "off"
    /\ counter' = 0
    /\ capturing' = FALSE
    /\ pc' = "run"
    /\ fault' = NoFault
    /\ UNCHANGED <<retained, spool, faults, resets, owed, born>>

(* ls_init and ls_boot, up to the saves. *)
Boot ==
    /\ pc = "off"
    /\ counter' = 0
    /\ capturing' = FALSE
    /\ pc' = IF ls_minimal_snapshot_read THEN "recover" ELSE "run"
    /\ fault' = NoFault
    /\ UNCHANGED <<retained, spool, faults, resets, owed, born>>

(* Fault: the snapshot is cleared before its event is appended. *)
ls_capture_minimal_recover_ClearsFirst(ok) ==
    /\ pc = "recover"
    /\ ok \/ AppendMayFail
    /\ pc' = "run"
    /\ spool' = IF ok THEN spool \cup {Event} ELSE spool
    /\ minimal' = [minimal EXCEPT !.magic = FALSE]
    /\ UNCHANGED <<wide, counter, capturing, fault, faults, resets, owed, born>>

(* ls_capture_minimal_recover: the snapshot stays unless the append is      *)
(* LS_OK.                                                                   *)
ls_capture_minimal_recover(ok) ==
    /\ pc = "recover"
    /\ ok \/ AppendMayFail
    /\ pc' = IF ok THEN "clear" ELSE "run"
    /\ spool' = IF ok THEN spool \cup {Event} ELSE spool
    /\ UNCHANGED <<retained, counter, capturing, fault, faults, resets, owed, born>>

ls_minimal_snapshot_clear ==
    \/ /\ pc = "clear"
       /\ minimal' = [minimal EXCEPT !.magic = FALSE]
       /\ pc' = "clear_wide"
       /\ UNCHANGED <<wide, counter, capturing, fault, spool, faults, resets, owed, born>>
    \/ /\ pc = "clear_wide"
       /\ wide' = [wide EXCEPT !.magic = FALSE]
       /\ pc' = "run"
       /\ UNCHANGED <<minimal, counter, capturing, fault, spool, faults, resets, owed, born>>

(* ls_capture_event of an ordinary event begins and ends around a fault. *)
OtherCapture ==
    /\ pc \in {"run", "mark"}
    /\ capturing' = ~capturing
    /\ UNCHANGED <<retained, counter, pc, fault, spool, faults, resets, owed, born>>

-----------------------------------------------------------------------------
(* A fault, at any point, also in a handler. *)
Raise(next, rv64) ==
    /\ faults < MaxFaults
    /\ faults' = faults + 1
    /\ fault' = [id |-> faults', rv64 |-> rv64]
    /\ born' = [born EXCEPT ![faults'] = IF fault.id = None THEN faults' ELSE born[fault.id]]
    /\ pc' = next
    /\ UNCHANGED <<retained, capturing, spool, resets, owed>>

ls_capture_minimal_fault ==
    /\ pc # "off"
    /\ Raise("unwide", FALSE)
    /\ UNCHANGED counter

(* riscv64_fault_sequence_next included. *)
ls_capture_minimal_riscv64_fault ==
    /\ pc # "off"
    /\ Raise("wide_open", TRUE)
    /\ counter' = counter + 1

(* capture_cpu_context: with a capture in progress only retained RAM is     *)
(* written.                                                                 *)
capture_cpu_context(rv64) ==
    /\ pc # "off"
    /\ IF capturing \/ pc = "capture"
       THEN /\ Raise(IF rv64 THEN "wide_open" ELSE "unwide", rv64)
            /\ counter' = IF rv64 THEN counter + 1 ELSE counter
       ELSE Raise("mark", rv64) /\ UNCHANGED counter

(* ls_boot_state_mark_crash is behind; ls_capture_event tests again. *)
EnterCapture ==
    /\ pc = "mark"
    /\ pc' = IF capturing THEN "unwide" ELSE "capture"
    /\ UNCHANGED <<retained, counter, capturing, fault, spool, faults, resets, owed, born>>

LeaveCapture(ok) ==
    /\ pc = "capture"
    /\ pc' = IF ok THEN "stored" ELSE "unwide"
    /\ spool' = IF ok THEN spool \cup {[minimal |-> fault.id,
                                       wide |-> IF fault.rv64 THEN fault.id ELSE None]}
                      ELSE spool
    /\ owed' = IF ok THEN owed \cup {fault.id} ELSE owed
    /\ fault' = IF ok THEN fault ELSE [fault EXCEPT !.rv64 = FALSE]
    /\ UNCHANGED <<retained, counter, capturing, faults, resets, born>>

-----------------------------------------------------------------------------
(* wide_snapshot_store, and wide_snapshot_clear for a fault without one. *)
WideStep ==
    /\ \/ /\ pc = "unwide"
          /\ wide' = [wide EXCEPT !.magic = FALSE]
          /\ pc' = "open"
       \/ /\ pc = "wide_open"
          /\ wide' = [magic |-> FALSE, body |-> Mixed, whole |-> FALSE, seq |-> counter]
          /\ pc' = "wide_body"
       \/ /\ pc = "wide_body"
          /\ wide' = Sealed(wide)
          /\ pc' = "wide_commit"
       \/ /\ pc = "wide_commit"
          /\ wide' = [wide EXCEPT !.magic = TRUE]
          /\ pc' = "open"
    /\ UNCHANGED <<minimal, counter, capturing, fault, spool, faults, resets, owed, born>>

(* minimal_snapshot_store: no magic, then the fields, ... *)
Open ==
    /\ pc = "open"
    /\ minimal' = [magic |-> FALSE, body |-> Mixed, whole |-> FALSE, seq |-> counter, version |-> 3,
                   wide |-> fault.rv64]
    /\ pc' = "body"
    /\ owed' = owed \ {minimal.body}
    /\ UNCHANGED <<wide, counter, capturing, fault, spool, faults, resets, born>>

(* ... then the CRCs, over the value the magic will have, ... *)
Body ==
    /\ pc = "body"
    /\ minimal' = Sealed(minimal)
    /\ pc' = "commit"
    /\ UNCHANGED <<wide, counter, capturing, fault, spool, faults, resets, owed, born>>

(* ... and the magic. *)
Commit ==
    /\ pc = "commit"
    /\ minimal' = [minimal EXCEPT !.magic = TRUE]
    /\ pc' = "stored"
    /\ owed' = owed \cup {fault.id}
    /\ UNCHANGED <<wide, counter, capturing, fault, spool, faults, resets, born>>

-----------------------------------------------------------------------------
(* config.reset() or the handler's own reset; any other one, at any time. *)
HandlerReset ==
    /\ pc = "stored"
    /\ pc' = "off"
    /\ UNCHANGED <<retained, counter, capturing, fault, spool, faults, resets, owed, born>>

OtherReset ==
    /\ pc # "off"
    /\ resets < MaxResets
    /\ resets' = resets + 1
    /\ pc' = "off"
    /\ UNCHANGED <<retained, counter, capturing, fault, spool, faults, owed, born>>

Stored(f) == \E e \in spool : e.minimal = f

(* Retained RAM does not outlive power. *)
PowerLoss ==
    /\ resets < MaxResets
    /\ resets' = resets + 1
    /\ minimal' = MinimalGarbage
    /\ wide' = WideGarbage
    /\ owed' = {f \in owed : Stored(f)}
    /\ pc' = "off"
    /\ UNCHANGED <<counter, capturing, fault, spool, faults, born>>

-----------------------------------------------------------------------------
BootStep == Boot \/ (\E ok \in BOOLEAN : ls_capture_minimal_recover(ok)) \/ ls_minimal_snapshot_clear
HandlerStep == \/ EnterCapture \/ (\E ok \in BOOLEAN : LeaveCapture(ok))
               \/ WideStep \/ Open \/ Body \/ Commit \/ HandlerReset

Next == \/ BootStep \/ HandlerStep
        \/ OtherCapture \/ OtherReset \/ PowerLoss
        \/ ls_capture_minimal_fault \/ ls_capture_minimal_riscv64_fault
        \/ \E rv64 \in BOOLEAN : capture_cpu_context(rv64)

Spec == Init /\ [][Next]_vars

-----------------------------------------------------------------------------
(* Types; each fault of a boot has its own sequence number. *)
TypeOK ==
    /\ {minimal.body, wide.body} \subseteq Fault \cup {None, Mixed}
    /\ counter \in 0..MaxFaults
    /\ capturing \in BOOLEAN
    /\ pc \in {"off", "recover", "clear", "clear_wide", "run", "mark", "capture", "unwide",
               "wide_open", "wide_body", "wide_commit", "open", "body", "commit", "stored"}
    /\ fault.id \in 0..faults
    /\ spool \subseteq [minimal : Fault \cup {None}, wide : Fault \cup {None}]
    /\ owed \subseteq Fault

(* A fault whose handler completed is not lost by a reset at any point: it  *)
(* is stored, or its snapshot is still valid and will be promoted, until a  *)
(* later fault replaces it or power is lost.                                *)
EvidenceKept ==
    \A f \in owed : Stored(f) \/ (ls_minimal_snapshot_read /\ minimal.body = f)

(* The sequence number tells nested traps of one boot apart: an event never *)
(* has the minimal record of one and the wide context of another.           *)
NestedTrapsApart ==
    \A e \in spool : e.minimal \in Fault /\ e.wide \in Fault /\ born[e.minimal] = born[e.wide]
                       => e.minimal = e.wide
=============================================================================
