---------------------------- MODULE BootRecord ----------------------------
(***************************************************************************)
(* The boot record of src/core/boot.c: the copy in RAM, the copy on the    *)
(* medium, loading and saving.  The record is written in place, so a save  *)
(* that fails or is cut by a power loss leaves the old record, the new one *)
(* or, unless the backend is atomic, one whose CRC does not match.  The    *)
(* modules that extend this one each model one group of its fields.        *)
(***************************************************************************)
EXTENDS Integers

CONSTANTS
    Torn,               \* a record whose CRC does not match
    Atomic,             \* whether the storage backend is atomic
    Since               \* the format version that introduced the group of fields

BootRecordAssumption == Atomic \in BOOLEAN /\ Since \in 1..3

VARIABLES
    persistent,         \* ls_runtime.persistent
    medium,             \* the record on the medium: its version and fields, or Torn
    up                  \* the firmware runs (between ls_boot and the next reset)

LS_BOOT_VERSION == 3

OnMedium(v, r) == [version |-> v, fields |-> r]

Records(F) == [version : 1..LS_BOOT_VERSION, fields : F]

(* ls_boot_state_load, boot_from_v1 and boot_from_v2: fields the stored     *)
(* format lacks are zero, and so is a record that is corrupt (LS_ECORRUPT,  *)
(* which ls_boot takes as a first boot).                                    *)
ls_boot_state_load(blank) ==
    IF medium # Torn /\ medium.version >= Since THEN medium.fields ELSE blank

Left(r) == {medium, OnMedium(LS_BOOT_VERSION, r)} \cup (IF Atomic THEN {} ELSE {Torn})

(* ls_boot_state_save with record r in RAM.  Outcomes: LS_OK; an error, and *)
(* then RAM keeps what the medium may lack; a power loss.                   *)
Outcome == {"ok", "fails", "cut"}

ls_boot_state_save(r, o, blank) ==
    /\ persistent' = IF o = "cut" THEN blank ELSE r
    /\ medium' \in IF o = "ok" THEN {OnMedium(LS_BOOT_VERSION, r)} ELSE Left(r)
=============================================================================
