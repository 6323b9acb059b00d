--------------------------- MODULE PowerfailSeal ---------------------------
(***************************************************************************)
(* The power-fail seal (src/core/powerfail.c): the brownout handler writes *)
(* one record to .noinit RAM and mirrors it to backup RAM, both with the   *)
(* magic last; the next boot promotes it.  The supply may die between any  *)
(* two writes.  A record is the brownout it describes; its CRC tells a     *)
(* complete one.  The handler runs on top of whatever it interrupts.       *)
(***************************************************************************)
EXTENDS Integers

CONSTANTS
    MaxBrownouts,       \* bound on the brownouts of a behaviour
    MaxFailures,        \* bound on the promotions that fail
    HasBackup,          \* whether backup RAM is installed
    BootIsQuiet         \* whether no brownout comes while a seal is promoted

SealAssumption ==
    /\ MaxBrownouts \in Nat \ {0} /\ MaxFailures \in Nat
    /\ HasBackup \in BOOLEAN /\ BootIsQuiet \in BOOLEAN

Mixed == -1             \* garbage, or a record that is not complete
None == 0
Brownout == 1..MaxBrownouts

VARIABLES
    seal,               \* sealed_retained: the magic, the record
    backup,             \* the backup window
    nmi,                \* what the brownout handler does next, or "none"
    now,                \* the brownout it handles
    pc,                 \* what the interrupted program does
    sealed,             \* ls_powerfail_recover's copy of the record
    last_valid,         \* ls_runtime.powerfail_last_valid
    spool,              \* brownouts stored as events
    brownouts, failures,
    owed                \* history: brownouts sealed, and not replaced by a later seal

vars == <<seal, backup, nmi, now, pc, sealed, last_valid, spool, brownouts, failures, owed>>

Garbage == [magic |-> "none", record |-> Mixed]

Init == /\ seal = Garbage
        /\ backup = Garbage
        /\ nmi = "none" /\ now = None
        /\ pc = "off"
        /\ sealed = None
        /\ last_valid = FALSE
        /\ spool = {}
        /\ brownouts = 0 /\ failures = 0
        /\ owed = {}

-----------------------------------------------------------------------------
sealed_validate_copy(copy) == copy.magic = "full" /\ copy.record # Mixed

sealed_read_retained ==
    CASE sealed_validate_copy(seal) -> seal.record
      [] HasBackup /\ ~sealed_validate_copy(seal) /\ sealed_validate_copy(backup) -> backup.record
      [] OTHER -> None

-----------------------------------------------------------------------------
Enter ==
    /\ pc # "off" /\ nmi = "none"
    /\ BootIsQuiet => pc = "run"
    /\ brownouts < MaxBrownouts
    /\ brownouts' = brownouts + 1

(* The brownout interrupt; it does nothing when a seal is committed. *)
ls_powerfail_seal ==
    /\ Enter
    /\ IF seal.magic = "full" THEN UNCHANGED <<nmi, now, owed>>
       ELSE /\ nmi' = "tail" /\ now' = brownouts'
            /\ owed' = IF HasBackup THEN owed ELSE owed \ {seal.record}
    /\ UNCHANGED <<seal, backup, pc, sealed, last_valid, spool, failures>>

(* The tail of the .noinit record: payload and CRC. *)
Tail ==
    /\ nmi = "tail"
    /\ \/ seal.record # Mixed /\ seal' = [seal EXCEPT !.record = Mixed] /\ UNCHANGED nmi
       \/ seal' = [seal EXCEPT !.record = now] /\ nmi' = IF HasBackup THEN "mirror" ELSE "magic"
    /\ UNCHANGED <<backup, now, pc, sealed, last_valid, spool, brownouts, failures, owed>>

(* A byte copy whose first bytes clear the magic. *)
seal_copy_to_backup ==
    /\ nmi = "mirror"
    /\ \/ backup # Garbage /\ backup' = Garbage /\ UNCHANGED nmi
       \/ backup' = [magic |-> "none", record |-> now] /\ nmi' = "magic"
    /\ owed' = owed \ {backup.record}
    /\ UNCHANGED <<seal, now, pc, sealed, last_valid, spool, brownouts, failures>>

(* The seal counts once .noinit RAM has it, and the mirror too if there is  *)
(* one, whose magic is written byte by byte.                                *)
Magic ==
    /\ \/ /\ nmi = "magic"
          /\ seal' = [seal EXCEPT !.magic = "full"]
          /\ nmi' = IF HasBackup THEN "mirror_magic" ELSE "none"
          /\ owed' = IF HasBackup THEN owed ELSE owed \cup {now}
          /\ UNCHANGED backup
       \/ /\ nmi = "mirror_magic"
          /\ backup' = [backup EXCEPT !.magic = IF @ = "none" THEN "part" ELSE "full"]
          /\ nmi' = IF backup.magic = "none" THEN "mirror_magic" ELSE "none"
          /\ owed' = IF backup.magic = "none" THEN owed ELSE owed \cup {now}
          /\ UNCHANGED seal
    /\ UNCHANGED <<now, pc, sealed, last_valid, spool, brownouts, failures>>

-----------------------------------------------------------------------------
(* The supply dies, at any time; backup RAM has its own.  Without backup    *)
(* RAM a seal lives as long as the SRAM is powered.                         *)
RailDies ==
    /\ pc # "off"
    /\ pc' = "off" /\ nmi' = "none" /\ now' = None
    /\ sealed' = None /\ last_valid' = FALSE
    /\ seal' \in {seal, Garbage}
    /\ owed' = IF HasBackup \/ seal' = seal THEN owed ELSE owed \cap spool
    /\ UNCHANGED <<backup, spool, brownouts, failures>>

(* ls_boot with ls_powerfail_recover, up to the append. *)
Boot ==
    /\ pc = "off"
    /\ sealed' = sealed_read_retained
    /\ last_valid' = (sealed' # None)
    /\ pc' = IF sealed' = None THEN "run" ELSE "recover"
    /\ UNCHANGED <<seal, backup, nmi, now, spool, brownouts, failures, owed>>

ls_powerfail_recover(ok) ==
    /\ pc = "recover" /\ nmi = "none"
    /\ ok \/ failures < MaxFailures
    /\ failures' = IF ok THEN failures ELSE failures + 1
    /\ spool' = IF ok THEN spool \cup {sealed} ELSE spool
    /\ last_valid' = ok
    /\ pc' = IF ok THEN "clear" ELSE "run"
    /\ UNCHANGED <<seal, backup, nmi, now, sealed, brownouts, owed>>

ls_powerfail_sealed_clear ==
    /\ nmi = "none"
    /\ \/ /\ pc = "clear"
          /\ seal' = [seal EXCEPT !.magic = "none"]
          /\ pc' = "clear_mirror"
          /\ UNCHANGED backup
       \/ /\ pc = "clear_mirror"
          /\ backup' = IF HasBackup THEN [backup EXCEPT !.magic = "none"] ELSE backup
          /\ pc' = "run"
          /\ UNCHANGED seal
    /\ UNCHANGED <<nmi, now, sealed, last_valid, spool, brownouts, failures, owed>>

(* ls_boot_mark_successful. *)
MarkSuccessful ==
    /\ pc = "run" /\ last_valid /\ nmi = "none"
    /\ last_valid' = FALSE
    /\ UNCHANGED <<seal, backup, nmi, now, pc, sealed, spool, brownouts, failures, owed>>

-----------------------------------------------------------------------------
NmiStep == Tail \/ seal_copy_to_backup \/ Magic
BootStep == Boot \/ (\E ok \in BOOLEAN : ls_powerfail_recover(ok)) \/ ls_powerfail_sealed_clear

Next == ls_powerfail_seal \/ NmiStep \/ BootStep \/ RailDies \/ MarkSuccessful

Spec == Init /\ [][Next]_vars

-----------------------------------------------------------------------------
(* Types; only complete records are ever promoted. *)
TypeOK ==
    /\ {seal.magic, backup.magic} \subseteq {"none", "part", "full"}
    /\ {seal.record, backup.record} \subseteq Brownout \cup {Mixed}
    /\ nmi \in {"none", "tail", "mirror", "magic", "mirror_magic"}
    /\ pc \in {"off", "recover", "clear", "clear_mirror", "run"}
    /\ spool \cup {sealed} \subseteq Brownout \cup {None}
    /\ owed \subseteq Brownout

(* A seal that was completed is not lost, whatever dies when: it is stored, *)
(* or the next boot will find it, until a later seal replaces it.  It is    *)
(* promoted before it is cleared.                                           *)
SealKept == \A b \in owed : b \in spool \/ sealed_read_retained = b

(* A second interrupt never tears the committed record: while the magic of  *)
(* .noinit RAM is set its record does not change.                           *)
SealedOnce ==
    seal.magic = "full" /\ seal'.magic = "full" => seal'.record = seal.record
=============================================================================
