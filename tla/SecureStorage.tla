--------------------------- MODULE SecureStorage ---------------------------
(***************************************************************************)
(* Authenticated encrypted storage (src/storage/secure_storage.c) over a   *)
(* backend that is atomic (the mirror, wear levelling) or in place.  A     *)
(* sealed image carries its key, its nonce and the plaintext; the CRCs and *)
(* the tag tell a sealed image from anything else.  The generation is only *)
(* an input of the key derivation and is left out.                         *)
(***************************************************************************)
EXTENDS Integers, FiniteSets

CONSTANTS
    Cell, Value, Erased, NoImage,       \* as in ImageStore
    Key,                \* key ids that the application accepts
    Nonce,              \* what the random callback may return
    NoKey, NoNonce,
    Atomic,             \* whether a write of the backend is atomic
    SyncMayFail         \* calls whose sync can fail after a successful write

VARIABLES
    stored,             \* what the backend reads back
    may,                \* what a power loss may leave
    mounted,            \* ls_secure_storage_init has returned LS_OK
    step,               \* the next backend call of seal_image, or "idle"
    key_id,
    last_nonce,
    old_key,            \* the saved key of a rotation, or NoKey
    old_nonce,
    workspace,          \* the image being sealed
    attempted           \* history: failed updates since the last acknowledged one

ram == <<mounted, step, key_id, last_nonce, old_key, old_nonce, workspace>>
vars == <<stored, may, ram, attempted>>

Image == [Cell -> Value \cup {Erased}]
Blank == [c \in Cell |-> Erased]
ErasedMedium == [key |-> NoKey, nonce |-> NoNonce, data |-> Blank]
TornImage == [key |-> NoKey, nonce |-> NoNonce, data |-> NoImage]
Sealed == [key : Key, nonce : Nonce, data : Image]

SecureAssumption == /\ Atomic \in BOOLEAN /\ SyncMayFail \subseteq {"update", "rotate"}
                    /\ Cell # {} /\ NoKey \notin Key /\ NoImage \notin Image

(* The CRCs match, and the tag under the key they name. *)
Intact == stored.key \in Key

Init == /\ stored = ErasedMedium
        /\ may = {ErasedMedium}
        /\ mounted = FALSE
        /\ step = "idle"
        /\ key_id = NoKey
        /\ last_nonce = NoNonce
        /\ old_key = NoKey
        /\ old_nonce = NoNonce
        /\ workspace = ErasedMedium
        /\ attempted = {}

-----------------------------------------------------------------------------
(* Fault: the nonce of the loaded image is not remembered. *)
load_image_Forgets(k) ==
    /\ Intact /\ stored.key = k
    /\ UNCHANGED last_nonce

(* load_image with key k, when it returns LS_OK. *)
load_image(k) ==
    /\ Intact /\ stored.key = k
    /\ last_nonce' = stored.nonce

(* seal_image up to the write.  A failing random callback, and a nonce that *)
(* is the last one again (LS_EAUTH), end the call with nothing written.     *)
seal_image(k, img) ==
    \E n \in Nonce : /\ n # last_nonce'
                     /\ workspace' = [key |-> k, nonce |-> n, data |-> img]
                     /\ step' = "write"

(* With a sealed image on the medium the call only loads it; an erased      *)
(* medium is formatted; anything else is LS_ECORRUPT.                       *)
ls_secure_storage_init(k) ==
    /\ ~mounted /\ step = "idle"
    /\ key_id' = k
    /\ IF stored = ErasedMedium
       THEN /\ last_nonce' = NoNonce
            /\ seal_image(k, Blank)
            /\ UNCHANGED mounted
       ELSE /\ load_image(k)
            /\ mounted' = TRUE
            /\ UNCHANGED <<step, workspace>>
    /\ UNCHANGED <<stored, may, old_key, old_nonce, attempted>>

secure_read ==
    /\ mounted /\ step = "idle"
    /\ load_image(key_id)
    /\ UNCHANGED <<stored, may, mounted, step, key_id, old_key, old_nonce, workspace, attempted>>

(* secure_write, and secure_erase with v = Erased. *)
update_image(c, v) ==
    /\ mounted /\ step = "idle"
    /\ load_image(key_id)
    /\ seal_image(key_id, [stored.data EXCEPT ![c] = v])
    /\ UNCHANGED <<stored, may, mounted, key_id, old_key, old_nonce, attempted>>

ls_secure_storage_rotate_key(k) ==
    /\ mounted /\ step = "idle"
    /\ k # key_id
    /\ load_image(key_id)
    /\ old_key' = key_id
    /\ old_nonce' = last_nonce'
    /\ key_id' = k
    /\ seal_image(k, stored.data)
    /\ UNCHANGED <<stored, may, mounted, attempted>>

-----------------------------------------------------------------------------
(* The backend: an atomic write that returned LS_OK is durable, one that    *)
(* failed may still turn up at the next power loss.                         *)
Write ==
    /\ step = "write"
    /\ stored' = workspace
    /\ may' = IF Atomic THEN {workspace} ELSE may \cup {workspace, TornImage}
    /\ step' = "sync"
    /\ attempted' = IF Atomic THEN {} ELSE attempted
    /\ UNCHANGED <<mounted, key_id, last_nonce, old_key, old_nonce, workspace>>

(* What ls_secure_storage_rotate_key puts back when seal_image fails. *)
Restored == IF old_key = NoKey THEN UNCHANGED <<key_id, last_nonce>>
            ELSE key_id' = old_key /\ last_nonce' = old_nonce

Returned == /\ step' = "idle"
            /\ workspace' = ErasedMedium
            /\ old_key' = NoKey
            /\ old_nonce' = NoNonce

Failed == /\ Returned
          /\ Restored
          /\ UNCHANGED mounted

WriteFails ==
    /\ step = "write"
    /\ stored' \in IF Atomic THEN {stored} ELSE {stored, workspace, TornImage}
    /\ may' = may \cup {workspace} \cup (IF Atomic THEN {} ELSE {TornImage})
    /\ attempted' = IF mounted THEN attempted \cup {workspace.data} ELSE attempted
    /\ Failed

Sync ==
    /\ step = "sync"
    /\ may' = {stored}
    /\ mounted' = TRUE
    /\ last_nonce' = workspace.nonce
    /\ attempted' = {}
    /\ Returned
    /\ UNCHANGED <<stored, key_id>>

SyncFails == /\ step = "sync"
             /\ (IF old_key = NoKey THEN "update" ELSE "rotate") \in SyncMayFail
             /\ Failed
             /\ UNCHANGED <<stored, may, attempted>>

RamLost == /\ mounted' = FALSE
           /\ step' = "idle"
           /\ key_id' = NoKey
           /\ last_nonce' = NoNonce
           /\ old_key' = NoKey
           /\ old_nonce' = NoNonce
           /\ workspace' = ErasedMedium

ls_secure_storage_destroy ==
    /\ mounted /\ step = "idle"
    /\ RamLost
    /\ UNCHANGED <<stored, may, attempted>>

PowerLoss == /\ stored' \in may
             /\ may' = {stored'}
             /\ RamLost
             /\ attempted' = {}

Next == \/ \E k \in Key : ls_secure_storage_init(k) \/ ls_secure_storage_rotate_key(k)
        \/ \E c \in Cell, v \in Value \cup {Erased} : update_image(c, v)
        \/ secure_read \/ Write \/ WriteFails \/ Sync \/ SyncFails
        \/ ls_secure_storage_destroy \/ PowerLoss

Spec == Init /\ [][Next]_vars

-----------------------------------------------------------------------------
(* Types of the medium and of the RAM state. *)
TypeOK ==
    /\ stored = TornImage \/ stored \in Sealed \cup {ErasedMedium}
    /\ stored \in may
    /\ mounted \in BOOLEAN /\ step \in {"idle", "write", "sync"}
    /\ key_id \in Key \cup {NoKey} /\ old_key \in Key \cup {NoKey}
    /\ last_nonce \in Nonce \cup {NoNonce} /\ old_nonce \in Nonce \cup {NoNonce}
    /\ mounted => key_id \in Key
    /\ workspace \in Sealed \cup {ErasedMedium}
    /\ attempted \subseteq Image

(* A mounted image can be read with the key in use whenever no call is in   *)
(* progress: no failed write and no failed rotation locks the caller out    *)
(* (docs/security-and-storage.md, "restores the in-memory old-key state if  *)
(* the commit fails").                                                      *)
StaysReadable == mounted /\ step = "idle" => Intact /\ stored.key = key_id

(* Two images that follow each other on the medium never have the same      *)
(* nonce, across restarts and failed writes: seal_image refuses the nonce   *)
(* that load_image or the last seal recorded.                               *)
NonceChanges == stored' # stored /\ Intact => stored'.nonce # stored.nonce

Visible == IF Intact THEN stored.data ELSE Blank

Current == IF mounted /\ step = "write" THEN workspace.data ELSE NoImage
=============================================================================
