----------------------------- MODULE WearLevel -----------------------------
(***************************************************************************)
(* The wear-levelling adapter (src/storage/wear_level.c): the logical      *)
(* image moves between several slots, the least erased one next.  As in    *)
(* FlashMirror, power can be lost before every driver call and every       *)
(* driver call can fail.                                                   *)
(***************************************************************************)
EXTENDS RawFlash, FiniteSetsExt

CONSTANTS
    NoImage,            \* no write in progress
    MaxCount,           \* UINT32_MAX, the largest erase count
    MaxUpdates          \* bound on the updates of a behaviour

WearAssumption ==
    /\ Slot = 0..(Cardinality(Slot) - 1) /\ Cardinality(Slot) > 1
    /\ MaxCount \in Nat /\ MaxUpdates \in Nat
    /\ Modulus \in Nat /\ Modulus > 2 * MaxUpdates + 2

VARIABLES
    mounted,            \* ls_flash_wear_init has returned LS_OK
    step,               \* the next driver call of commit, or "idle"
    active_slot,
    generation,
    erase_counts,
    failed_commits,
    target,             \* the arguments of commit
    next_generation,
    workspace,
    attempted,          \* history: failed updates since the last acknowledged one
    updates,            \* history: updates so far
    unlevelled          \* history: failed commits, or MaxCount once counts were lost

commitArgs == <<target, next_generation, workspace>>
vars == <<slot, may, mounted, step, active_slot, generation, erase_counts, failed_commits,
          commitArgs, attempted, updates, unlevelled>>

slot_count == Cardinality(Slot)

NoCounts == [s \in Slot |-> 0]

Init == /\ slot = [s \in Slot |-> ErasedSlot]
        /\ may = [s \in Slot |-> {ErasedSlot}]
        /\ mounted = FALSE
        /\ step = "idle"
        /\ active_slot = 0
        /\ generation = 0
        /\ erase_counts = NoCounts
        /\ failed_commits = 0
        /\ target = 0
        /\ next_generation = 0
        /\ workspace = Blank
        /\ attempted = {}
        /\ updates = 0
        /\ unlevelled = 0

-----------------------------------------------------------------------------
valid_header(s) == slot[s].meta.hdr # NoHeader

valid_slot(s) == /\ valid_header(s)
                 /\ slot[s].meta.mark
                 /\ slot[s].data = slot[s].meta.hdr.crc

Valid == {s \in Slot : valid_slot(s)}

Gen(s) == slot[s].meta.hdr.gen

(* The scan of ls_flash_wear_init in slot order: a valid slot replaces the  *)
(* one found so far only when it is newer.                                  *)
Newest == LET best[s \in Slot] ==
                  LET found == best[s - 1]
                  IN  IF s = 0 THEN 0
                      ELSE IF valid_slot(s) /\ (~valid_slot(found) \/ Newer(Gen(s), Gen(found)))
                      THEN s ELSE found
          IN  best[slot_count - 1]

(* next_slot: the least erased slot but the active one, the nearest after   *)
(* it among equals; the one right after it when all are worn out.           *)
next_slot ==
    LET at(k) == (active_slot + k) % slot_count
        least == CHOOSE k \in 1..(slot_count - 1) : \A j \in 1..(slot_count - 1) :
                    \/ erase_counts[at(k)] < erase_counts[at(j)]
                    \/ erase_counts[at(k)] = erase_counts[at(j)] /\ k <= j
    IN  at(least)

(* commit up to its first driver call: LS_EOVERFLOW for a worn-out slot. *)
Commit(s, g, img, failed) ==
    IF erase_counts'[s] = MaxCount
    THEN /\ failed_commits' = failed + 1
         /\ UNCHANGED <<step, commitArgs>>
    ELSE /\ target' = s
         /\ next_generation' = g
         /\ workspace' = img
         /\ step' = "erase"
         /\ failed_commits' = failed

(* A read error of valid_slot ends the call with nothing changed. *)
ls_flash_wear_init ==
    /\ ~mounted
    /\ step = "idle"
    /\ erase_counts' = [s \in Slot |-> IF valid_header(s) THEN slot[s].meta.hdr.count ELSE 0]
    /\ IF Valid # {}
       THEN /\ active_slot' = Newest
            /\ generation' = Gen(Newest)
            /\ mounted' = TRUE
            /\ failed_commits' = 0
            /\ UNCHANGED <<step, commitArgs>>
       ELSE /\ active_slot' = 0
            /\ generation' = 0
            /\ Commit(0, 1, Blank, 0)
            /\ UNCHANGED mounted
    /\ UNCHANGED <<slot, may, attempted, updates, unlevelled>>

(* wear_write, and wear_erase with v = Erased. *)
update(c, v) ==
    /\ mounted
    /\ step = "idle"
    /\ updates < MaxUpdates
    /\ updates' = updates + 1
    /\ UNCHANGED erase_counts
    /\ Commit(next_slot, (generation + 1) % Modulus, [slot[active_slot].data EXCEPT ![c] = v],
              failed_commits)
    /\ UNCHANGED <<slot, may, mounted, active_slot, generation, attempted, unlevelled>>

-----------------------------------------------------------------------------
(* The driver calls of commit in order. *)
Header(marked) == [hdr |-> [gen |-> next_generation, crc |-> workspace,
                            count |-> erase_counts[target]],
                   mark |-> marked]

After == [erase |-> "header", header |-> "payload", payload |-> "sync", sync |-> "marker",
          marker |-> "commit"]

Goes == /\ step' = After[step]
        /\ UNCHANGED <<mounted, active_slot, generation, failed_commits, commitArgs, attempted,
                       updates, unlevelled>>

EraseSlot == /\ step = "erase"
             /\ Erase(target)
             /\ erase_counts' = [erase_counts EXCEPT ![target] = @ + 1]
             /\ Goes

ProgramHeader == /\ step = "header"
                 /\ Program(target, "meta", Header(FALSE), NoMeta)
                 /\ Goes /\ UNCHANGED erase_counts

ProgramPayload == /\ step = "payload"
                  /\ Program(target, "data", workspace, Torn)
                  /\ Goes /\ UNCHANGED erase_counts

SyncPayload == step = "sync" /\ Sync /\ Goes /\ UNCHANGED erase_counts

ProgramMarker == /\ step = "marker"
                 /\ Program(target, "meta", Header(TRUE), Header(FALSE))
                 /\ Goes /\ UNCHANGED erase_counts

(* The last sync of commit returned LS_OK, and so does the call. *)
SyncCommit ==
    /\ step = "commit"
    /\ Sync
    /\ active_slot' = target
    /\ generation' = next_generation
    /\ mounted' = TRUE
    /\ step' = "idle"
    /\ attempted' = {}
    /\ UNCHANGED <<erase_counts, failed_commits, commitArgs, updates, unlevelled>>

(* commit returns the error of a driver call; active_slot, generation and   *)
(* the erase counted so far stay.                                           *)
Fails ==
    /\ step \in MayFail
    /\ \/ step = "erase" /\ EraseFails(target)
       \/ step = "header" /\ ProgramFails(target, "meta", Header(FALSE), NoMeta)
       \/ step = "payload" /\ ProgramFails(target, "data", workspace, Torn)
       \/ step = "marker" /\ ProgramFails(target, "meta", Header(TRUE), Header(FALSE))
       \/ step \in {"sync", "commit"} /\ UNCHANGED <<slot, may>>
    /\ failed_commits' = failed_commits + 1
    /\ unlevelled' = Min({unlevelled + 1, MaxCount})
    /\ step' = "idle"
    /\ attempted' = IF mounted THEN attempted \cup {workspace} ELSE attempted
    /\ UNCHANGED <<mounted, active_slot, generation, erase_counts, commitArgs, updates>>

Crash ==
    /\ PowerLoss
    /\ mounted' = FALSE
    /\ step' = "idle"
    /\ active_slot' = 0
    /\ generation' = 0
    /\ erase_counts' = NoCounts
    /\ failed_commits' = 0
    /\ target' = 0
    /\ next_generation' = 0
    /\ workspace' = Blank
    /\ attempted' = {}
    /\ unlevelled' = MaxCount
    /\ UNCHANGED updates

Next == \/ ls_flash_wear_init
        \/ \E c \in Cell, v \in Value \cup {Erased} : update(c, v)
        \/ EraseSlot \/ ProgramHeader \/ ProgramPayload \/ SyncPayload
        \/ ProgramMarker \/ SyncCommit \/ Fails \/ Crash

Spec == Init /\ [][Next]_vars

-----------------------------------------------------------------------------
Visible == IF mounted THEN slot[active_slot].data
           ELSE IF Valid # {} THEN slot[Newest].data ELSE Blank

Current == IF mounted /\ step # "idle" THEN workspace ELSE NoImage

(* Types of the medium and of the adapter's RAM; an erase count never       *)
(* passes UINT32_MAX, so it cannot start over at 0.                         *)
TypeOK ==
    /\ \A s \in Slot :
          /\ slot[s] \in may[s]
          /\ slot[s].data \in Image \cup {Torn}
          /\ valid_header(s) => slot[s].meta.hdr \in [gen : 0..(Modulus - 1), crc : Image, count : 1..MaxCount]
    /\ mounted \in BOOLEAN
    /\ step \in DOMAIN After \cup {"commit", "idle"}
    /\ active_slot \in Slot /\ target \in Slot
    /\ generation \in 0..(Modulus - 1) /\ next_generation \in 0..(Modulus - 1)
    /\ erase_counts \in [Slot -> 0..MaxCount]
    /\ failed_commits \in 0..(MaxUpdates + 1)
    /\ workspace \in Image /\ attempted \subseteq Image

(* Wear is levelled (next_slot takes the least erased slot): until a power  *)
(* loss tears a header and its count with it, no slot has been erased more  *)
(* than once above another, but for one erase for each failed commit.       *)
WearSpread ==
    mounted => \A s, t \in Slot : erase_counts[s] <= erase_counts[t] + 1 + unlevelled
=============================================================================
