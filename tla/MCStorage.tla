------------------------------ MODULE MCStorage ------------------------------
(***************************************************************************)
(* The storage layers for TLC, one at a time: part names the layer that a  *)
(* behaviour runs, and the variables that it does not have keep the value  *)
(* None.  Layers whose states have the same names share the variables.     *)
(***************************************************************************)
EXTENDS Integers

CONSTANTS c1, c2, written, k1, k2, n1, n2, n3,
          Erased, NoHeader, Torn, NoImage, NoKey, NoNonce, NoCall, None

VARIABLES part,
    may, mounted, step, workspace, attempted,                      \* every adapter
    slot, generation, next_generation,                             \* mirror, wear
    active_bank, bank,                                             \* mirror
    active_slot, erase_counts, failed_commits, target, updates, unlevelled,
    stored, key_id, last_nonce, old_key, old_nonce,                \* secure
    data, operation_count, fail_operation, partial_bytes, call, unit_offset, erased, before, result,
    pc, next, cached, durable, expected, used, failures, stops, writes

adapter == <<may, mounted, step, workspace, attempted>>
raw == <<slot, generation, next_generation>>
mirror == <<active_bank, bank>>
wear == <<active_slot, erase_counts, failed_commits, target, updates, unlevelled>>
secure == <<stored, key_id, last_nonce, old_key, old_nonce>>
program == <<data, operation_count, fail_operation, partial_bytes, call, unit_offset, erased, before, result>>
file == <<pc, next, cached, durable, expected, used, failures, stops, writes>>
vars == <<part, adapter, raw, mirror, wear, secure, program, file>>

Cells == {c1, c2}
Values == {written}
AllSteps == {"erase", "header", "payload", "sync", "marker", "commit"}

Mirror == INSTANCE FlashMirror WITH Slot <- {0, 1}, Cell <- Cells, Value <- Values, Modulus <- 4,
              MayFail <- {"erase", "commit"}, WarmRestart <- FALSE

Warm == INSTANCE FlashMirror WITH Slot <- {0, 1}, Cell <- {c1}, Value <- Values, Modulus <- 4,
              MayFail <- AllSteps, WarmRestart <- TRUE

Wear == INSTANCE WearLevel WITH Slot <- {0, 1, 2}, Cell <- {c1}, Value <- Values, Modulus <- 16,
              MayFail <- {"erase", "header", "payload", "sync"}, MaxCount <- 2, MaxUpdates <- 3

Pair == INSTANCE WearLevel WITH Slot <- {0, 1}, Cell <- {c1}, Value <- Values, Modulus <- 16,
              MayFail <- AllSteps, MaxCount <- 2, MaxUpdates <- 3

Secure == INSTANCE SecureStorage WITH Cell <- Cells, Value <- Values, Key <- {k1, k2},
              Nonce <- {n1, n2, n3}, Atomic <- TRUE, SyncMayFail <- {"update"}

Units == INSTANCE StorageProgram WITH Bit <- {written}, Capacity <- 5, WriteSize <- 2,
              MaxLength <- 3, MaxFail <- 2
Bytes == INSTANCE StorageProgram WITH Bit <- Cells, Capacity <- 2, WriteSize <- 1,
              MaxLength <- 2, MaxFail <- 2

File == INSTANCE FileStorage WITH Size <- 2, Value <- {"a", "b"}, FirstSize <- {0, 1, 2, 3},
              MaxFailures <- 2, MaxStops <- 2, MaxWrites <- 2

ASSUME Mirror!MirrorAssumption /\ Warm!MirrorAssumption /\ Wear!WearAssumption /\ Pair!WearAssumption
ASSUME Secure!SecureAssumption /\ Units!ProgramAssumption /\ Bytes!ProgramAssumption
ASSUME File!FileAssumption

NoAdapter == may = None /\ mounted = None /\ step = None /\ workspace = None /\ attempted = None
NoRaw == slot = None /\ generation = None /\ next_generation = None
NoMirror == active_bank = None /\ bank = None
NoWear == /\ active_slot = None /\ erase_counts = None /\ failed_commits = None /\ target = None
          /\ updates = None /\ unlevelled = None
NoSecure == stored = None /\ key_id = None /\ last_nonce = None /\ old_key = None /\ old_nonce = None
NoProgram == /\ data = None /\ operation_count = None /\ fail_operation = None
             /\ partial_bytes = None /\ call = None /\ unit_offset = None /\ erased = None
             /\ before = None /\ result = None
NoFile == /\ pc = None /\ next = None /\ cached = None /\ durable = None /\ expected = None
          /\ used = None /\ failures = None /\ stops = None /\ writes = None

Init == \/ part = "mirror" /\ Mirror!Init /\ NoWear /\ NoSecure /\ NoProgram /\ NoFile
        \/ part = "warm" /\ Warm!Init /\ NoWear /\ NoSecure /\ NoProgram /\ NoFile
        \/ part = "wear" /\ Wear!Init /\ NoMirror /\ NoSecure /\ NoProgram /\ NoFile
        \/ part = "pair" /\ Pair!Init /\ NoMirror /\ NoSecure /\ NoProgram /\ NoFile
        \/ part = "secure" /\ Secure!Init /\ NoRaw /\ NoMirror /\ NoWear /\ NoProgram /\ NoFile
        \/ part = "units" /\ Units!Init /\ NoAdapter /\ NoRaw /\ NoMirror /\ NoWear /\ NoSecure /\ NoFile
        \/ part = "bytes" /\ Bytes!Init /\ NoAdapter /\ NoRaw /\ NoMirror /\ NoWear /\ NoSecure /\ NoFile
        \/ part = "file" /\ File!Init /\ NoAdapter /\ NoRaw /\ NoMirror /\ NoWear /\ NoSecure /\ NoProgram

Next == \/ part = "mirror" /\ Mirror!Next /\ UNCHANGED <<part, wear, secure, program, file>>
        \/ part = "warm" /\ Warm!Next /\ UNCHANGED <<part, wear, secure, program, file>>
        \/ part = "wear" /\ Wear!Next /\ UNCHANGED <<part, mirror, secure, program, file>>
        \/ part = "pair" /\ Pair!Next /\ UNCHANGED <<part, mirror, secure, program, file>>
        \/ part = "secure" /\ Secure!Next /\ UNCHANGED <<part, raw, mirror, wear, program, file>>
        \/ part = "units" /\ Units!Next /\ UNCHANGED <<part, adapter, raw, mirror, wear, secure, file>>
        \/ part = "bytes" /\ Bytes!Next /\ UNCHANGED <<part, adapter, raw, mirror, wear, secure, file>>
        \/ part = "file" /\ File!Next /\ UNCHANGED <<part, adapter, raw, mirror, wear, secure, program>>

Spec == Init /\ [][Next]_vars

-----------------------------------------------------------------------------
(* Every layer keeps to its types: among them, a generation stays within 32 *)
(* bits, an erase count never passes UINT32_MAX, and ls_storage_program     *)
(* never reaches beyond the device.                                         *)
TypeOK == /\ part = "mirror" => Mirror!TypeOK
          /\ part = "warm" => Warm!TypeOK
          /\ part = "wear" => Wear!TypeOK
          /\ part = "pair" => Pair!TypeOK
          /\ part = "secure" => Secure!TypeOK
          /\ part = "units" => Units!TypeOK
          /\ part = "bytes" => Bytes!TypeOK
          /\ part = "file" => File!TypeOK

(* Wear levelling runs with one cell, the other one is never written. *)
Whole(image) == IF image = NoImage THEN NoImage
                ELSE [c \in Cells |-> IF c = c1 THEN image[c] ELSE Erased]

(* The image that the reader of an adapter gets and the one that a write in *)
(* progress would leave.                                                    *)
Image == CASE part = "mirror" -> Mirror!Visible
           [] part = "wear" -> Whole(Wear!Visible)
           [] part = "pair" -> Whole(Pair!Visible)
           [] part = "secure" -> Secure!Visible
           [] OTHER -> Mirror!Blank

Current == CASE part = "mirror" -> Mirror!Current
             [] part = "wear" -> Whole(Wear!Current)
             [] part = "pair" -> Whole(Pair!Current)
             [] part = "secure" -> Secure!Current
             [] OTHER -> NoImage

Attempted == CASE part \in {"mirror", "secure"} -> attempted
               [] part \in {"wear", "pair"} -> {Whole(i) : i \in attempted}
               [] OTHER -> {}

Store == INSTANCE ImageStore WITH Cell <- Cells, Value <- Values,
            image <- Image, current <- Current, attempted <- Attempted

(* The mirror, wear levelling and the encrypted store are atomic images     *)
(* (flash_mirror.c:5, "a power loss can never leave a partially committed   *)
(* record visible to the reader"): what was acknowledged is read from then  *)
(* on, across power losses and rotations, and a failed write leaves the old *)
(* image or the whole new one.                                              *)
AtomicImage == Store!Spec


(* Two images that follow each other on the medium of the encrypted store   *)
(* never have the same nonce, across restarts and failed writes.            *)
NonceChanges == [][part = "secure" => Secure!NonceChanges]_vars

(* LS_OK of ls_storage_program means that every byte of the range holds the *)
(* source and no byte outside it was touched, although whole units are      *)
(* rewritten around an unaligned range; and wherever a call fails, no bit   *)
(* has been set and a byte is as it was or as it should be.                 *)
ProgramIsExact == [][/\ part = "units" => Units!OkMeansProgrammed /\ Units!OnlyClears
                     /\ part = "bytes" => Bytes!OkMeansProgrammed /\ Bytes!OnlyClears]_vars
=============================================================================
