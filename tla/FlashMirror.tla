---------------------------- MODULE FlashMirror ----------------------------
(***************************************************************************)
(* The two-bank mirror (src/storage/flash_mirror.c).  One call at a time   *)
(* runs, but power can be lost before every driver call and every driver   *)
(* call can fail, so a commit is a sequence of steps.                      *)
(***************************************************************************)
EXTENDS RawFlash

CONSTANTS
    NoImage,            \* no write in progress
    WarmRestart         \* whether the program may start over with the driver's cache intact

MirrorAssumption ==
    /\ Slot = {0, 1} /\ Modulus \in Nat /\ Modulus % 2 = 0 /\ Modulus > 3
    /\ Torn \notin Image /\ NoImage \notin Image
    /\ NoHeader \notin [gen : 0..(Modulus - 1), crc : Image]

VARIABLES
    mounted,            \* ls_flash_mirror_init has returned LS_OK
    step,               \* the next driver call of commit_image, or "idle"
    active_bank,
    generation,
    bank,               \* the arguments of commit_image
    next_generation,
    workspace,
    attempted           \* history: failed updates since the last acknowledged one

ram == <<mounted, step, active_bank, generation, bank, next_generation, workspace>>
vars == <<slot, may, ram, attempted>>

Init == /\ slot = [s \in Slot |-> ErasedSlot]
        /\ may = [s \in Slot |-> {ErasedSlot}]
        /\ mounted = FALSE
        /\ step = "idle"
        /\ active_bank = 0
        /\ generation = 0
        /\ bank = 0
        /\ next_generation = 0
        /\ workspace = Blank
        /\ attempted = {}

generation_of(b) == slot[b].meta.hdr.gen

(* Fault: the header alone makes a bank valid. *)
valid_bank_HeaderOnly(b) == slot[b].meta.hdr # NoHeader

(* valid_bank: header CRC, then the commit marker, then the payload CRC. *)
valid_bank(b) == /\ slot[b].meta.hdr # NoHeader
                 /\ slot[b].meta.mark
                 /\ slot[b].data = slot[b].meta.hdr.crc

(* The bank that ls_flash_mirror_init takes when one of them is valid. *)
Newest == IF valid_bank(1) /\ (~valid_bank(0) \/ Newer(generation_of(1), generation_of(0)))
          THEN 1 ELSE 0

Commit(b, g, img) ==
    /\ bank' = b
    /\ next_generation' = g
    /\ workspace' = img
    /\ step' = "erase"

(* A read error of valid_bank ends the call with nothing changed. *)
ls_flash_mirror_init ==
    /\ ~mounted
    /\ step = "idle"
    /\ IF valid_bank(0) \/ valid_bank(1)
       THEN /\ active_bank' = Newest
            /\ generation' = generation_of(Newest)
            /\ mounted' = TRUE
            /\ UNCHANGED <<step, bank, next_generation, workspace>>
       ELSE /\ active_bank' = 0
            /\ generation' = 0
            /\ Commit(0, 1, Blank)
            /\ UNCHANGED mounted
    /\ UNCHANGED <<slot, may, attempted>>

(* Fault: the generation does not start over at 2^32. *)
update_image_NoWrap(c, v) ==
    /\ mounted
    /\ step = "idle"
    /\ Commit(1 - active_bank, generation + 1, [slot[active_bank].data EXCEPT ![c] = v])
    /\ UNCHANGED <<slot, may, mounted, active_bank, generation, attempted>>

(* mirror_write, and mirror_erase with v = Erased, up to the first driver    *)
(* call of commit_image; a failing read of the active image changes nothing. *)
update_image(c, v) ==
    /\ mounted
    /\ step = "idle"
    /\ Commit(1 - active_bank, (generation + 1) % Modulus,
              [slot[active_bank].data EXCEPT ![c] = v])
    /\ UNCHANGED <<slot, may, mounted, active_bank, generation, attempted>>

-----------------------------------------------------------------------------
(* The driver calls of commit_image in order.                               *)
Header(marked) == [hdr |-> [gen |-> next_generation, crc |-> workspace], mark |-> marked]

After == [erase |-> "header", header |-> "payload", payload |-> "sync", sync |-> "marker",
          marker |-> "commit"]

Goes == /\ step' = After[step]
        /\ UNCHANGED <<mounted, active_bank, generation, bank, next_generation, workspace, attempted>>

EraseBank == step = "erase" /\ Erase(bank) /\ Goes
ProgramHeader == step = "header" /\ Program(bank, "meta", Header(FALSE), NoMeta) /\ Goes
ProgramPayload == step = "payload" /\ Program(bank, "data", workspace, Torn) /\ Goes
SyncPayload == step = "sync" /\ Sync /\ Goes
write_commit_marker == step = "marker" /\ Program(bank, "meta", Header(TRUE), Header(FALSE)) /\ Goes

(* The last sync of commit_image returned LS_OK, and so does the call. *)
SyncCommit ==
    /\ step = "commit"
    /\ Sync
    /\ active_bank' = bank
    /\ generation' = next_generation
    /\ mounted' = TRUE
    /\ step' = "idle"
    /\ attempted' = {}
    /\ UNCHANGED <<bank, next_generation, workspace>>


(* commit_image returns the error of a driver call at once; active_bank and *)
(* generation stay, and a first initialization fails with it.               *)
Abandon ==
    /\ step' = "idle"
    /\ attempted' = IF mounted THEN attempted \cup {workspace} ELSE attempted
    /\ UNCHANGED <<mounted, active_bank, generation, bank, next_generation, workspace>>

Fails ==
    /\ step \in MayFail
    /\ \/ step = "erase" /\ EraseFails(bank)
       \/ step = "header" /\ ProgramFails(bank, "meta", Header(FALSE), NoMeta)
       \/ step = "payload" /\ ProgramFails(bank, "data", workspace, Torn)
       \/ step = "marker" /\ ProgramFails(bank, "meta", Header(TRUE), Header(FALSE))
       \/ step \in {"sync", "commit"} /\ UNCHANGED <<slot, may>>
    /\ Abandon

RamLost ==
    /\ mounted' = FALSE
    /\ step' = "idle"
    /\ active_bank' = 0
    /\ generation' = 0
    /\ bank' = 0
    /\ next_generation' = 0
    /\ workspace' = Blank

Crash == PowerLoss /\ RamLost /\ attempted' = {}

(* What a read returns, or will return after the next initialization. *)
Visible == IF mounted THEN slot[active_bank].data
           ELSE IF valid_bank(0) \/ valid_bank(1) THEN slot[Newest].data ELSE Blank

Current == IF mounted /\ step # "idle" THEN workspace ELSE NoImage

(* The processor or the process starts over, the medium keeps its power. *)
Restart == /\ WarmRestart
           /\ RamLost
           /\ attempted' = attempted \cup {Visible} \cup ({Current} \ {NoImage})
           /\ UNCHANGED <<slot, may>>

Next == \/ ls_flash_mirror_init
        \/ \E c \in Cell, v \in Value \cup {Erased} : update_image(c, v)
        \/ EraseBank \/ ProgramHeader \/ ProgramPayload \/ SyncPayload
        \/ write_commit_marker \/ SyncCommit \/ Fails \/ Crash \/ Restart

Spec == Init /\ [][Next]_vars

-----------------------------------------------------------------------------
Headers == [gen : 0..(Modulus - 1), crc : Image] \cup {NoHeader}

(* Types of the medium and of the mirror's RAM. *)
TypeOK ==
    /\ slot \in [Slot -> [meta : [hdr : Headers, mark : BOOLEAN], data : Image \cup {Torn}]]
    /\ \A s \in Slot : slot[s] \in may[s]
    /\ mounted \in BOOLEAN
    /\ step \in DOMAIN After \cup {"commit", "idle"}
    /\ active_bank \in Slot /\ bank \in Slot
    /\ generation \in 0..(Modulus - 1) /\ next_generation \in 0..(Modulus - 1)
    /\ workspace \in Image
    /\ attempted \subseteq Image

(* The reader never sees a partially committed image (flash_mirror.c:5),    *)
(* even when the program starts over while the driver still holds writes    *)
(* back and power is lost later: the bank in use holds exactly the payload  *)
(* that its header was written for.                                         *)
WholeImageVisible ==
    mounted => /\ slot[active_bank].data \in Image
               /\ slot[active_bank].meta = [hdr |-> [gen |-> generation, crc |-> Visible],
                                            mark |-> TRUE]

(* Whatever failed before, a header that a power loss may leave in the      *)
(* other bank is one generation away from the one in use: the serial        *)
(* comparison of the next ls_flash_mirror_init is never ambiguous, across   *)
(* the wrap of the generation included.                                     *)
GenerationsAdjacent ==
    mounted => /\ generation_of(active_bank) = generation
               /\ \A o \in {p \in may[1 - active_bank] : p.meta # NoMeta} :
                     (o.meta.hdr.gen - generation) % Modulus \in {1, Modulus - 1}
=============================================================================
