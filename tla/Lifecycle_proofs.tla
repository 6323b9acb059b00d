-------------------------- MODULE Lifecycle_proofs --------------------------
(***************************************************************************)
(* Proofs about what must not be undone: the provisioned identity and the  *)
(* update state in the boot record, and the keys and nonces of encrypted   *)
(* storage, for any number of keys, counters and versions.                 *)
(***************************************************************************)
EXTENDS Integers, TLAPS

CONSTANTS Torn, Atomic, Since,                                  \* BootRecord
          Key, NoKey, MaxCounter, MaxGeneration,                \* Provisioning
          MaxVersion, MaxRollbacks, ConfirmsFirst,              \* Ota
          Cell, Value, Erased, NoImage, Nonce, NoNonce, SyncMayFail \* SecureStorage

VARIABLES persistent, medium, up,                               \* BootRecord
          step, element, loaded,                                \* Provisioning
          call, version, slot, requested, running, confirmed,   \* Ota
          stored, may, mounted, key_id, last_nonce, old_key,    \* SecureStorage
          old_nonce, workspace, attempted

P == INSTANCE Provisioning
U == INSTANCE Ota
S == INSTANCE SecureStorage

-----------------------------------------------------------------------------
(* An atomic backend keeps a whole record, and a format that lacks the      *)
(* fields holds blank ones.                                                 *)
Media ==
    /\ medium \in [version : 1..3, fields : P!State]
    /\ medium.version = 3 \/ medium.fields = P!Blank
    /\ persistent \in P!State
    /\ element \subseteq Key
    /\ {up, loaded} \subseteq BOOLEAN
    /\ ~up => ~loaded /\ step = "idle" /\ persistent = P!Blank
    /\ step \in {"idle", "destroy", "decommission"}

(* What RAM holds and the medium may lack after a failed save. *)
Ahead(p, m) ==
    /\ p.counter >= m.counter
    /\ m.state = "decommissioned" => p.state = "decommissioned"
    /\ m.pending = NoKey /\ (p.key \notin {m.key, NoKey} \/ p.pending \notin {m.key, NoKey})
          => p.counter > m.counter

(* The inductive invariant of the stored identity. *)
PInv == Media /\ (up => Ahead(persistent, medium.fields))

(* The identity of a fresh device. *)
LEMMA Blanks == ASSUME P!ProvisioningAssumption PROVE P!Blank \in P!State
BY DEF P!Blank, P!State, P!ProvisioningAssumption

(* It holds before the first boot. *)
LEMMA PInit == ASSUME P!ProvisioningAssumption, P!Init PROVE PInv
<1>1. PICK v \in 1..3 : medium = [version |-> v, fields |-> P!Blank]
  BY DEF P!Init, P!OnMedium
<1>2. medium \in [version : 1..3, fields : P!State] /\ medium.fields = P!Blank
  BY <1>1, Blanks
<1>3. QED
  BY <1>2, Blanks DEF P!Init, PInv, Media

(* A save leaves the record it was given, or the one before. *)
LEMMA Saved ==
    ASSUME Atomic, Media, NEW r \in P!State, NEW o \in P!Outcome, P!ls_boot_state_save(r, o, P!Blank)
    PROVE  /\ medium' \in [version : 1..3, fields : P!State]
           /\ medium'.version = 3 \/ medium'.fields = P!Blank
           /\ medium'.fields = r \/ (o # "ok" /\ medium' = medium)
           /\ persistent' = IF o = "cut" THEN P!Blank ELSE r
<1>1. (medium' = medium /\ o # "ok") \/ medium' = [version |-> 3, fields |-> r]
  BY DEF P!ls_boot_state_save, P!Left, P!OnMedium, P!LS_BOOT_VERSION
<1>2. QED
  BY <1>1 DEF Media, P!ls_boot_state_save

(* No record is ahead of itself in a way that needs a new counter. *)
LEMMA AheadSelf == ASSUME NEW r \in P!State PROVE Ahead(r, r)
BY DEF Ahead, P!State

(* A call that ends with a save of a record ahead of the stored one. *)
LEMMA SaveKeeps ==
    ASSUME P!ProvisioningAssumption, Atomic, PInv, up, NEW r \in P!State, NEW o \in P!Outcome,
           NEW key \in BOOLEAN,
           P!ls_boot_state_save(r, o, P!Blank), Ahead(r, medium.fields),
           IF o = "cut" THEN P!Reset
           ELSE loaded' = key /\ step' \in {"idle", "destroy", "decommission"} /\ UNCHANGED <<up, element>>
    PROVE  PInv' /\ Ahead(medium'.fields, medium.fields)
<1>1. /\ medium' \in [version : 1..3, fields : P!State]
      /\ medium'.version = 3 \/ medium'.fields = P!Blank
      /\ medium'.fields = r \/ (o # "ok" /\ medium' = medium)
      /\ persistent' = IF o = "cut" THEN P!Blank ELSE r
  BY Saved DEF PInv
<1>2. Ahead(medium'.fields, medium.fields)
  BY <1>1, AheadSelf DEF PInv, Media
<1>3. CASE o = "cut"
  BY <1>1, <1>2, <1>3, Blanks DEF PInv, Media, P!Reset
<1>4. CASE o # "cut"
  <2>1. Media'
    BY <1>1, <1>4 DEF PInv, Media
  <2>2. Ahead(r, medium'.fields)
    BY <1>1, AheadSelf
  <2>3. QED
    BY <1>1, <1>2, <1>4, <2>1, <2>2 DEF PInv
<1>5. QED
  BY <1>3, <1>4

(* The record a step leaves behind is ahead of the one it found. *)
LEMMA PNext ==
    ASSUME P!BootRecordAssumption, P!ProvisioningAssumption, Atomic, PInv, [P!Next]_(P!vars),
           Torn \notin [version : 1..3, fields : P!State]
    PROVE  PInv' /\ Ahead(medium'.fields, medium.fields)
<1> DEFINE p == persistent
           m == medium.fields
<1>0. p \in P!State /\ m \in P!State /\ medium # Torn /\ {up, loaded} \subseteq BOOLEAN /\ Ahead(m, m)
  BY AheadSelf DEF PInv, Media
<1>l. P!Later(p.generation) \in 0..MaxGeneration
  BY <1>0 DEF P!State, P!Later, P!ProvisioningAssumption
<1>1. CASE P!Boot
  <2>1. persistent' = m
    BY <1>0, <1>1 DEF P!Boot, P!ls_boot_state_load, P!BootRecordAssumption, PInv, Media
  <2>2. medium' = [version |-> 3, fields |-> m]
    BY <1>1, <2>1 DEF P!Boot, P!OnMedium, P!LS_BOOT_VERSION
  <2>3. medium' \in [version : 1..3, fields : P!State] /\ medium'.version = 3 /\ medium'.fields = m
    BY <1>0, <2>2
  <2>4. QED
    BY <1>0, <1>1, <2>1, <2>3 DEF P!Boot, PInv, Media
<1>2. CASE P!PowerLoss
  BY <1>0, <1>2, Blanks DEF P!PowerLoss, P!Reset, PInv, Media
<1>3. CASE P!UseKey \/ P!AlreadyDone \/ UNCHANGED P!vars
  <2>1. UNCHANGED <<persistent, medium, up, step, element>> /\ loaded' \in BOOLEAN /\ (up \/ loaded' = loaded)
    BY <1>0, <1>3 DEF P!UseKey, P!AlreadyDone, P!vars
  <2>2. QED
    BY <1>0, <2>1 DEF PInv, Media
<1>4. ASSUME NEW ok \in BOOLEAN, P!Destroy(ok) PROVE PInv' /\ Ahead(medium'.fields, m)
  BY <1>0, <1>4 DEF P!Destroy, PInv, Media
<1>5. ASSUME NEW o \in P!Outcome, NEW k \in Key, NEW c \in 1..MaxCounter,
             P!ls_provisioning_activate(k, c, o)
      PROVE  PInv' /\ Ahead(medium'.fields, m)
  <2> DEFINE r == [state |-> "active", key |-> k, pending |-> NoKey, counter |-> c,
                   generation |-> P!Later(persistent.generation)]
  <2>1. up /\ step = "idle" /\ c > p.counter /\ P!Activatable /\ P!Save(r, o, loaded)
    BY <1>5 DEF P!ls_provisioning_activate, P!monotonic_allowed
  <2>2. r \in P!State
    BY <1>0 DEF P!State, P!Later, P!ProvisioningAssumption
  <2>3. Ahead(r, m)
    BY <1>0, <2>1 DEF PInv, Ahead, P!State, P!Activatable
  <2>4. QED
    BY <1>0, <2>1, <2>2, <2>3, SaveKeeps DEF P!Save
<1>6. ASSUME NEW o \in P!Outcome, NEW k \in Key, NEW c \in 1..MaxCounter,
             P!ls_provisioning_begin_rotation(k, c, o)
      PROVE  PInv' /\ Ahead(medium'.fields, m)
  <2> DEFINE r == [persistent EXCEPT !.state = "rotating", !.pending = k, !.counter = c]
  <2>1. up /\ step = "idle" /\ c > p.counter /\ p.state = "active" /\ P!Save(r, o, loaded)
    BY <1>6 DEF P!ls_provisioning_begin_rotation, P!monotonic_allowed
  <2>2. r \in P!State
    <3>1. c \in 0..MaxCounter
      BY DEF P!ProvisioningAssumption
    <3>2. QED
      BY <1>0, <3>1 DEF P!State
  <2>3. Ahead(r, m)
    BY <1>0, <2>1 DEF PInv, Ahead, P!State
  <2>4. QED
    BY <1>0, <2>1, <2>2, <2>3, SaveKeeps DEF P!Save
<1>7. ASSUME NEW o \in P!Outcome, P!ls_provisioning_commit_rotation(o)
      PROVE PInv' /\ Ahead(medium'.fields, m)
  <2> DEFINE r == [persistent EXCEPT !.state = "active", !.key = persistent.pending, !.pending = NoKey,
                                     !.generation = P!Later(@)]
  <2>1. up /\ step = "idle" /\ p.state = "rotating" /\ P!Save(r, o, loaded)
    BY <1>7 DEF P!ls_provisioning_commit_rotation
  <2>2. r \in P!State
    BY <1>0, <1>l DEF P!State
  <2>3. Ahead(r, m)
    BY <1>0, <2>1 DEF PInv, Ahead, P!State
  <2>4. QED
    BY <1>0, <2>1, <2>2, <2>3, SaveKeeps DEF P!Save
<1>8. ASSUME NEW o \in P!Outcome, P!ls_provisioning_revoke(o) PROVE PInv' /\ Ahead(medium'.fields, m)
  <2> DEFINE r == [persistent EXCEPT !.state = "revoked", !.pending = NoKey]
  <2>1. up /\ step = "idle" /\ p.state \in {"active", "rotating"} /\ P!Save(r, o, FALSE)
    BY <1>8 DEF P!ls_provisioning_revoke
  <2>2. r \in P!State
    BY <1>0 DEF P!State
  <2>3. Ahead(r, m)
    BY <1>0, <2>1 DEF PInv, Ahead, P!State
  <2>4. QED
    BY <1>0, <2>1, <2>2, <2>3, SaveKeeps DEF P!Save
<1>9. ASSUME NEW o \in P!Outcome, P!ls_provisioning_decommission(o) PROVE PInv' /\ Ahead(medium'.fields, m)
  <2>1. CASE p.state = "decommissioned"
    BY <1>0, <1>9, <2>1 DEF P!ls_provisioning_decommission, PInv, Media
  <2>2. CASE p.state # "decommissioned"
    <3>1. P!Decommissioned \in P!State
      BY <1>0, <1>l DEF P!Decommissioned, P!State
    <3>2. Ahead(P!Decommissioned, m)
      BY <1>0, <1>9 DEF P!Decommissioned, PInv, Ahead, P!State, P!ls_provisioning_decommission
    <3>3. /\ up /\ P!ls_boot_state_save(P!Decommissioned, o, P!Blank)
          /\ IF o = "cut" THEN P!Reset ELSE step' = "idle" /\ loaded' = FALSE /\ UNCHANGED <<up, element>>
      BY <1>9, <2>2 DEF P!ls_provisioning_decommission
    <3>4. QED
      BY <3>1, <3>2, <3>3, SaveKeeps
  <2>3. QED
    BY <2>1, <2>2
<1>10. ASSUME NEW o \in P!Outcome, P!Intend(o) PROVE PInv' /\ Ahead(medium'.fields, m)
  <2> DEFINE r == [persistent EXCEPT !.state = "decommissioning"]
  <2>1. CASE p.state = "decommissioning"
    BY <1>0, <1>10, <2>1 DEF P!Intend, PInv, Media
  <2>2. CASE p.state \in {"active", "revoked"}
    <3>1. r \in P!State
      BY <1>0 DEF P!State
    <3>2. Ahead(r, m) /\ Ahead(p, r)
      BY <1>0, <1>10, <2>2 DEF PInv, Ahead, P!State, P!Intend
    <3>3. CASE o = "fails"
      <4>1. medium' \in P!Left(r) /\ UNCHANGED <<persistent, up, step, element, loaded>> /\ up
        BY <1>10, <2>2, <3>3 DEF P!Intend
      <4>2. medium' = medium \/ medium' = [version |-> 3, fields |-> r]
        BY <4>1 DEF P!Left, P!OnMedium, P!LS_BOOT_VERSION
      <4>3. medium' \in [version : 1..3, fields : P!State] /\ (medium'.version = 3 \/ medium'.fields = P!Blank)
        BY <3>1, <4>2 DEF PInv, Media
      <4>4. QED
        BY <1>0, <3>2, <4>1, <4>2, <4>3 DEF PInv, Media
    <3>4. CASE o # "fails"
      <4>1. /\ up /\ P!ls_boot_state_save(r, o, P!Blank)
            /\ IF o = "cut" THEN P!Reset ELSE step' = "destroy" /\ loaded' = loaded /\ UNCHANGED <<up, element>>
        BY <1>10, <2>2, <3>4 DEF P!Intend, P!Outcome
      <4>2. QED
        BY <1>0, <3>1, <3>2, <4>1, SaveKeeps
    <3>5. QED
      BY <3>3, <3>4
  <2>3. QED
    BY <1>10, <2>1, <2>2 DEF P!Intend
<1>11. QED
  BY <1>1, <1>2, <1>3, <1>4, <1>5, <1>6, <1>7, <1>8, <1>9, <1>10
     DEF P!Next, P!SecureNext, P!Decommission, P!Finish

(* monotonic_allowed (core/provisioning.c): with an atomic backend, the    *)
(* stored identity never goes back. The counter that authorises it does    *)
(* not fall and never authorises twice, and a decommissioned identity      *)
(* stays so.                                                               *)
THEOREM LifecycleNeverGoesBack ==
    ASSUME P!BootRecordAssumption, P!ProvisioningAssumption, Atomic
    PROVE  P!Spec => [][P!LifecycleIsMonotonic]_(P!vars)
<1>0. Torn \notin [version : 1..3, fields : P!State]
  BY DEF P!ProvisioningAssumption, P!Records, P!LS_BOOT_VERSION
<1>1. P!Init => PInv
  BY PInit
<1>2. PInv /\ [P!Next]_(P!vars) => PInv'
  BY <1>0, PNext
<1>3. PInv /\ PInv' /\ [P!Next]_(P!vars) => [P!LifecycleIsMonotonic]_(P!vars)
  <2> SUFFICES ASSUME PInv, PInv', [P!Next]_(P!vars) PROVE P!LifecycleIsMonotonic
    OBVIOUS
  <2>1. Ahead(medium'.fields, medium.fields)
    BY <1>0, PNext
  <2>2. P!Stored = medium.fields /\ P!Stored' = medium'.fields
    BY <1>0 DEF P!Stored, PInv, Media
  <2>3. QED
    BY <2>1, <2>2 DEF Ahead, P!LifecycleIsMonotonic
<1>4. QED
  BY <1>1, <1>2, <1>3, PTL DEF P!Spec

(* The two last states of an identity. *)
Ending == {"decommissioning", "decommissioned"}

(* The intent is durable before the key goes, and the key is gone before    *)
(* the record says so.                                                      *)
KInv ==
    /\ up /\ persistent.state = "decommissioning" => medium.fields.state = "decommissioning"
    /\ step # "idle" => up /\ persistent.state = "decommissioning" /\ persistent.key \in Key
    /\ element # Key => medium.fields.state \in Ending /\ (up => persistent.state \in Ending)
    /\ "decommissioned" \in {medium.fields.state, persistent.state} \/ step = "decommission" => element # Key

(* It holds before the first boot. *)
LEMMA KInit == ASSUME P!Init PROVE KInv
<1>1. PICK v \in 1..3 : medium = [version |-> v, fields |-> P!Blank]
  BY DEF P!Init, P!OnMedium
<1>2. medium.fields.state = "unprovisioned" /\ persistent.state = "unprovisioned"
  BY <1>1 DEF P!Init, P!Blank
<1>3. QED
  BY <1>2 DEF P!Init, KInv

(* A call on an identity that is not being decommissioned. *)
LEMMA SaveKeepsKInv ==
    ASSUME Atomic, PInv, KInv, up, step = "idle", NEW r \in P!State, NEW o \in P!Outcome,
           NEW key \in BOOLEAN,
           P!Save(r, o, key), persistent.state \notin Ending, r.state \notin Ending
    PROVE  KInv'
<1>1. /\ medium'.fields = r \/ medium' = medium
      /\ persistent' = IF o = "cut" THEN P!Blank ELSE r
  BY Saved DEF P!Save, PInv
<1>2. element = Key /\ element' = element /\ step' = "idle" /\ P!Blank.state \notin Ending
  BY DEF KInv, P!Save, P!Reset, P!Blank, Ending
<1>3. medium.fields.state # "decommissioned"
  BY <1>2 DEF KInv
<1>4. persistent'.state \notin Ending
  BY <1>1, <1>2
<1>5. medium'.fields.state # "decommissioned"
  BY <1>1, <1>3 DEF Ending
<1>6. QED
  BY <1>2, <1>4, <1>5 DEF KInv, Ending

(* Every step through the secure element keeps it. *)
LEMMA KNext ==
    ASSUME P!BootRecordAssumption, P!ProvisioningAssumption, Atomic, PInv, KInv, [P!SecureNext]_(P!vars),
           Torn \notin [version : 1..3, fields : P!State]
    PROVE  KInv'
<1>0. /\ persistent \in P!State /\ medium.fields \in P!State /\ medium # Torn
      /\ {up, loaded} \subseteq BOOLEAN
      /\ P!Blank.state = "unprovisioned"
  BY DEF PInv, Media, P!Blank
<1>l. P!Later(persistent.generation) \in 0..MaxGeneration
  BY <1>0 DEF P!State, P!Later, P!ProvisioningAssumption
<1>1. CASE P!Boot
  <2>1. persistent' = medium.fields /\ medium'.fields = medium.fields
    BY <1>0, <1>1 DEF P!Boot, P!ls_boot_state_load, P!BootRecordAssumption, PInv, Media, P!OnMedium
  <2>2. QED
    BY <1>1, <2>1 DEF P!Boot, KInv, PInv, Media, Ending
<1>2. CASE P!PowerLoss
  BY <1>0, <1>2 DEF P!PowerLoss, P!Reset, KInv, Ending
<1>3. CASE P!UseKey \/ P!AlreadyDone \/ UNCHANGED P!vars
  BY <1>3 DEF P!UseKey, P!AlreadyDone, P!vars, KInv
<1>4. ASSUME NEW ok \in BOOLEAN, P!Destroy(ok) PROVE KInv'
  BY <1>4 DEF P!Destroy, KInv, Ending
<1>5. ASSUME NEW o \in P!Outcome, NEW k \in Key, NEW c \in 1..MaxCounter,
             P!ls_provisioning_activate(k, c, o)
      PROVE  KInv'
  <2> DEFINE r == [state |-> "active", key |-> k, pending |-> NoKey, counter |-> c,
                   generation |-> P!Later(persistent.generation)]
  <2>1. /\ up /\ step = "idle" /\ persistent.state \notin Ending /\ P!Save(r, o, loaded)
        /\ r.state \notin Ending
    BY <1>5 DEF P!ls_provisioning_activate, P!Activatable, Ending
  <2>2. r \in P!State
    <3>1. c \in 0..MaxCounter
      BY DEF P!ProvisioningAssumption
    <3>2. QED
      BY <1>0, <1>l, <3>1 DEF P!State
  <2>3. QED
    BY <1>0, <2>1, <2>2, SaveKeepsKInv
<1>6. ASSUME NEW o \in P!Outcome, NEW k \in Key, NEW c \in 1..MaxCounter,
             P!ls_provisioning_begin_rotation(k, c, o)
      PROVE  KInv'
  <2> DEFINE r == [persistent EXCEPT !.state = "rotating", !.pending = k, !.counter = c]
  <2>1. up /\ step = "idle" /\ persistent.state \notin Ending /\ P!Save(r, o, loaded)
    BY <1>6 DEF P!ls_provisioning_begin_rotation, Ending
  <2>2. r \in P!State /\ r.state \notin Ending
    <3>1. c \in 0..MaxCounter
      BY DEF P!ProvisioningAssumption
    <3>2. QED
      BY <1>0, <3>1 DEF P!State, Ending
  <2>3. QED
    BY <1>0, <2>1, <2>2, SaveKeepsKInv
<1>7. ASSUME NEW o \in P!Outcome, P!ls_provisioning_commit_rotation(o) PROVE KInv'
  <2> DEFINE r == [persistent EXCEPT !.state = "active", !.key = persistent.pending, !.pending = NoKey,
                                     !.generation = P!Later(@)]
  <2>1. up /\ step = "idle" /\ persistent.state \notin Ending /\ P!Save(r, o, loaded)
    BY <1>7 DEF P!ls_provisioning_commit_rotation, Ending
  <2>2. r \in P!State /\ r.state \notin Ending
    BY <1>0, <1>l DEF P!State, Ending
  <2>3. QED
    BY <1>0, <2>1, <2>2, SaveKeepsKInv
<1>8. ASSUME NEW o \in P!Outcome, P!ls_provisioning_revoke(o) PROVE KInv'
  <2> DEFINE r == [persistent EXCEPT !.state = "revoked", !.pending = NoKey]
  <2>1. up /\ step = "idle" /\ persistent.state \notin Ending /\ P!Save(r, o, FALSE)
    BY <1>8 DEF P!ls_provisioning_revoke, Ending
  <2>2. r \in P!State /\ r.state \notin Ending
    BY <1>0 DEF P!State, Ending
  <2>3. QED
    BY <1>0, <2>1, <2>2, SaveKeepsKInv
<1>9. ASSUME NEW o \in P!Outcome, P!Finish(o) PROVE KInv'
  <2>1. /\ step = "decommission" /\ persistent.state = "decommissioning" /\ up /\ element # Key
        /\ P!ls_boot_state_save(P!Decommissioned, o, P!Blank) /\ element' = element /\ step' = "idle"
        /\ medium.fields.state = "decommissioning" /\ up' = (o # "cut")
    BY <1>9 DEF P!Finish, P!ls_provisioning_decommission, KInv, P!Reset
  <2>2. P!Decommissioned \in P!State /\ P!Decommissioned.state = "decommissioned"
    BY <1>0, <1>l DEF P!Decommissioned, P!State
  <2>3. /\ medium'.fields = P!Decommissioned \/ medium' = medium
        /\ persistent' = IF o = "cut" THEN P!Blank ELSE P!Decommissioned
    BY <2>1, <2>2, Saved DEF PInv
  <2>4. medium'.fields.state \in Ending /\ (up' => persistent'.state = "decommissioned")
    BY <2>1, <2>2, <2>3 DEF Ending
  <2>5. QED
    BY <2>1, <2>4 DEF KInv, Ending
<1>10. ASSUME NEW o \in P!Outcome, P!Intend(o) PROVE KInv'
  <2> DEFINE r == [persistent EXCEPT !.state = "decommissioning"]
  <2>1. CASE persistent.state = "decommissioning"
    <3>1. persistent.key \in Key
      BY <1>0, <1>10 DEF P!Intend, P!State
    <3>2. QED
      BY <1>10, <2>1, <3>1 DEF P!Intend, KInv, Ending
  <2>2. CASE persistent.state \in {"active", "revoked"}
    <3>1. r \in P!State /\ r.state = "decommissioning" /\ r.key = persistent.key
      BY <1>0 DEF P!State
    <3>2. /\ element = Key /\ element' = element /\ medium.fields.state # "decommissioned" /\ up
          /\ step = "idle"
      BY <1>10, <2>2 DEF P!Intend, KInv, Ending, P!Outcome, P!Reset
    <3>3. CASE o = "fails"
      <4>1. medium' \in P!Left(r) /\ UNCHANGED <<persistent, up, step>>
        BY <1>10, <2>2, <3>3 DEF P!Intend
      <4>2. medium'.fields.state # "decommissioned"
        <5>1. medium' = medium \/ medium' = [version |-> 3, fields |-> r]
          BY <4>1 DEF P!Left, P!OnMedium, P!LS_BOOT_VERSION
        <5>2. medium' = medium \/ medium'.fields = r
          BY <5>1
        <5>3. QED
          BY <3>1, <3>2, <5>2
      <4>3. QED
        BY <2>2, <3>2, <4>1, <4>2 DEF KInv, Ending
    <3>4. CASE o # "fails"
      <4>1. /\ P!ls_boot_state_save(r, o, P!Blank)
            /\ IF o = "cut" THEN P!Reset ELSE step' = "destroy" /\ UNCHANGED up
        BY <1>10, <2>2, <3>4 DEF P!Intend, P!Outcome
      <4>2. /\ medium'.fields = r \/ (o # "ok" /\ medium' = medium)
            /\ persistent' = IF o = "cut" THEN P!Blank ELSE r
        BY <3>1, <4>1, Saved DEF PInv
      <4>3. CASE o = "cut"
        BY <1>0, <3>1, <3>2, <4>1, <4>2, <4>3 DEF KInv, P!Reset, Ending
      <4>4. CASE o = "ok"
        <5>1. persistent.key \in Key
          BY <1>0, <1>10 DEF P!Intend, P!State
        <5>2. QED
          BY <3>1, <3>2, <4>1, <4>2, <4>4, <5>1 DEF KInv, Ending
      <4>5. QED
        BY <3>4, <4>3, <4>4 DEF P!Outcome
    <3>5. QED
      BY <3>3, <3>4
  <2>3. QED
    BY <1>10, <2>1, <2>2 DEF P!Intend
<1>11. QED
  BY <1>1, <1>2, <1>3, <1>4, <1>5, <1>6, <1>7, <1>8, <1>9, <1>10 DEF P!SecureNext

(* ls_provisioning_decommission_secure (core/provisioning.c): with an      *)
(* atomic backend, a key is destroyed only when the intent to do so is     *)
(* durable, and the record says decommissioned only when the key is gone.  *)
(* The steps are those of a device with a secure element: it does not call *)
(* ls_provisioning_decommission by itself, which destroys no key.          *)
THEOREM DecommissioningIsSafe ==
    ASSUME P!BootRecordAssumption, P!ProvisioningAssumption, Atomic
    PROVE  P!Init /\ [][P!SecureNext]_(P!vars) => [](P!DestroyedMeansIntended /\ P!DecommissionedMeansDestroyed)
<1>0. Torn \notin [version : 1..3, fields : P!State]
  BY DEF P!ProvisioningAssumption, P!Records, P!LS_BOOT_VERSION
<1>1. P!Init => PInv /\ KInv
  BY PInit, KInit
<1>2. PInv /\ KInv /\ [P!SecureNext]_(P!vars) => (PInv /\ KInv)'
  BY <1>0, PNext, KNext DEF P!Next
<1>3. PInv /\ KInv => P!DestroyedMeansIntended /\ P!DecommissionedMeansDestroyed
  BY <1>0 DEF PInv, Media, KInv, Ending, P!Stored, P!DestroyedMeansIntended,
     P!DecommissionedMeansDestroyed
<1>4. QED
  BY <1>1, <1>2, <1>3, PTL

(* What a session key in RAM says of the identity, over any backend. *)
SInv ==
    /\ persistent \in P!State
    /\ medium = Torn \/ medium.fields \in P!State
    /\ ~up => ~loaded
    /\ P!NoKeyAfterRevocation

(* A save of an identity in a state that fits the key in RAM. *)
LEMMA SaveKeepsSInv ==
    ASSUME P!ProvisioningAssumption, SInv, NEW r \in P!State, NEW o \in P!Outcome, NEW key,
           P!ls_boot_state_save(r, o, P!Blank),
           r.state \in {"revoked", "decommissioned"} => ~key,
           IF o = "cut" THEN P!Reset ELSE loaded' = key /\ up' = up /\ up
    PROVE  SInv'
<1>1. medium' = Torn \/ medium'.fields \in P!State
  BY DEF P!ls_boot_state_save, P!Left, P!OnMedium, SInv
<1>2. CASE o = "cut"
  BY <1>1, <1>2, Blanks DEF P!Reset, SInv, P!NoKeyAfterRevocation
<1>3. CASE o # "cut"
  BY <1>1, <1>3 DEF P!ls_boot_state_save, SInv, P!NoKeyAfterRevocation
<1>4. QED
  BY <1>2, <1>3

(* Every step keeps it. *)
LEMMA NextKeepsSInv ==
    ASSUME P!BootRecordAssumption, P!ProvisioningAssumption, SInv, [P!Next]_(P!vars)
    PROVE  SInv'
<1>0. /\ persistent \in P!State /\ P!Later(persistent.generation) \in 0..MaxGeneration
      /\ \A c \in 1..MaxCounter : c \in 0..MaxCounter
  BY DEF SInv, P!State, P!Later, P!ProvisioningAssumption
<1>1. CASE P!Boot
  BY <1>1, Blanks DEF P!Boot, P!ls_boot_state_load, P!OnMedium, SInv, P!NoKeyAfterRevocation
<1>2. CASE P!PowerLoss
  BY <1>2, Blanks DEF P!PowerLoss, P!Reset, SInv, P!NoKeyAfterRevocation
<1>3. CASE P!UseKey \/ P!AlreadyDone \/ (\E ok \in BOOLEAN : P!Destroy(ok)) \/ UNCHANGED P!vars
  <2>1. /\ UNCHANGED <<persistent, medium, up>>
        /\ \/ loaded' = loaded \/ loaded' = FALSE
           \/ up /\ persistent.state \in {"active", "rotating"}
    BY <1>3 DEF P!UseKey, P!AlreadyDone, P!Destroy, P!vars
  <2>2. QED
    BY <2>1 DEF SInv, P!NoKeyAfterRevocation
<1>4. ASSUME NEW o \in P!Outcome, NEW k \in Key, NEW c \in 1..MaxCounter,
             P!ls_provisioning_activate(k, c, o) \/ P!ls_provisioning_begin_rotation(k, c, o)
      PROVE  SInv'
  <2>1. CASE P!ls_provisioning_activate(k, c, o)
    <3> DEFINE r == [state |-> "active", key |-> k, pending |-> NoKey, counter |-> c,
                     generation |-> P!Later(persistent.generation)]
    <3>1. r \in P!State /\ r.state = "active"
      BY <1>0 DEF P!State
    <3>2. QED
      BY <2>1, <3>1, SaveKeepsSInv DEF P!ls_provisioning_activate, P!Save
  <2>2. CASE P!ls_provisioning_begin_rotation(k, c, o)
    <3> DEFINE r == [persistent EXCEPT !.state = "rotating", !.pending = k, !.counter = c]
    <3>1. r \in P!State /\ r.state = "rotating"
      BY <1>0 DEF P!State
    <3>2. QED
      BY <2>2, <3>1, SaveKeepsSInv DEF P!ls_provisioning_begin_rotation, P!Save
  <2>3. QED
    BY <1>4, <2>1, <2>2
<1>5. ASSUME NEW o \in P!Outcome, P!ls_provisioning_commit_rotation(o) PROVE SInv'
  <2> DEFINE r == [persistent EXCEPT !.state = "active", !.key = persistent.pending, !.pending = NoKey,
                                     !.generation = P!Later(@)]
  <2>1. r \in P!State /\ r.state = "active"
    BY <1>0 DEF P!State
  <2>2. QED
    BY <1>5, <2>1, SaveKeepsSInv DEF P!ls_provisioning_commit_rotation, P!Save
<1>6. ASSUME NEW o \in P!Outcome, P!ls_provisioning_revoke(o) PROVE SInv'
  <2> DEFINE r == [persistent EXCEPT !.state = "revoked", !.pending = NoKey]
  <2>1. r \in P!State
    BY <1>0 DEF P!State
  <2>2. QED
    BY <1>6, <2>1, SaveKeepsSInv DEF P!ls_provisioning_revoke, P!Save
<1>7. ASSUME NEW o \in P!Outcome, P!ls_provisioning_decommission(o) PROVE SInv'
  <2>1. P!Decommissioned \in P!State
    BY <1>0 DEF P!Decommissioned, P!State
  <2>2. CASE persistent.state = "decommissioned"
    BY <1>7, <2>2 DEF P!ls_provisioning_decommission, SInv, P!NoKeyAfterRevocation
  <2>3. CASE persistent.state # "decommissioned"
    BY <1>7, <2>1, <2>3, SaveKeepsSInv DEF P!ls_provisioning_decommission
  <2>4. QED
    BY <2>2, <2>3
<1>8. ASSUME NEW o \in P!Outcome, P!Intend(o) PROVE SInv'
  <2> DEFINE r == [persistent EXCEPT !.state = "decommissioning"]
  <2>1. r \in P!State /\ r.state = "decommissioning"
    BY <1>0 DEF P!State
  <2>2. CASE persistent.state = "decommissioning" \/ o = "fails"
    <3>1. UNCHANGED <<persistent, up, loaded>> /\ medium' \in {medium} \cup P!Left(r)
      BY <1>8, <2>2 DEF P!Intend
    <3>2. medium' = Torn \/ medium'.fields \in P!State
      BY <2>1, <3>1 DEF P!Left, P!OnMedium, SInv
    <3>3. QED
      BY <3>1, <3>2 DEF SInv, P!NoKeyAfterRevocation
  <2>3. CASE persistent.state \in {"active", "revoked"} /\ o # "fails"
    <3>1. /\ P!ls_boot_state_save(r, o, P!Blank)
          /\ IF o = "cut" THEN P!Reset ELSE loaded' = loaded /\ up' = up /\ up
      BY <1>8, <2>3 DEF P!Intend, P!Outcome
    <3>2. QED
      BY <2>1, <3>1, SaveKeepsSInv
  <2>4. QED
    BY <1>8, <2>2, <2>3 DEF P!Intend
<1>9. QED
  BY <1>1, <1>2, <1>3, <1>4, <1>5, <1>6, <1>7, <1>8
     DEF P!Next, P!SecureNext, P!Decommission, P!Finish

(* ls_provisioning_revoke and ls_provisioning_decommission                 *)
(* (core/provisioning.c): no session key stays in RAM once the identity is *)
(* revoked or decommissioned, over an atomic backend or not, whichever     *)
(* saves fail.                                                             *)
THEOREM NoSessionKeyAfterRevocation ==
    ASSUME P!BootRecordAssumption, P!ProvisioningAssumption
    PROVE  P!Spec => []P!NoKeyAfterRevocation
<1>1. P!Init => SInv
  <2>1. P!Init => medium.fields = P!Blank
    BY DEF P!Init, P!OnMedium
  <2>2. QED
    BY <2>1, Blanks DEF P!Init, SInv, P!NoKeyAfterRevocation
<1>2. SInv /\ [P!Next]_(P!vars) => SInv'
  BY NextKeepsSInv
<1>3. SInv => P!NoKeyAfterRevocation
  BY DEF SInv
<1>4. QED
  BY <1>1, <1>2, <1>3, PTL DEF P!Spec

-----------------------------------------------------------------------------
(* A record on the medium, in any of the formats. *)
UpdateRecord == [version : 1..3, fields : U!State]

(* Types of the update state; an atomic backend keeps a whole record. *)
Kinds ==
    /\ medium \in UpdateRecord
    /\ medium.version = 3 \/ medium.fields = U!Blank
    /\ persistent \in U!State
    /\ up \in BOOLEAN
    /\ version \in 0..MaxVersion
    /\ slot \in 0..MaxVersion /\ requested \in 0..MaxVersion
    /\ running \in 0..MaxVersion /\ confirmed \in 0..MaxVersion
    /\ ~up => call = "idle"

(* UpdateRecord r vouches for version v: it is not above the floor, or it is the  *)
(* update that r still has to confirm.                                      *)
Vouches(r, v) == v <= r.floor \/ (r.state = "pending" /\ r.pending = v)

(* Every version the bootloader could be made to fall back to. *)
Vouched(r) ==
    /\ Vouches(r, confirmed)
    /\ Vouches(r, requested)
    /\ running = slot => Vouches(r, running)

(* What holds in the middle of each call: what ls_ota_stage_candidate has  *)
(* checked is still so when the backend is asked to boot the candidate.    *)
Calls ==
    /\ running # confirmed => requested = 0 /\ running # 0
    /\ call \in {"stage", "request_boot", "abort"} =>
          confirmed <= persistent.floor /\ running = confirmed /\ requested = 0
    /\ call \in {"stage", "request_boot"} => version >= persistent.floor
    /\ call = "request_boot" => /\ medium.fields = persistent
                                /\ persistent.state = "pending" /\ persistent.pending = version
    /\ call = "confirm" => version = running /\ running = confirmed
    /\ call = "rollback" => version = running /\ running # confirmed /\ slot = 0

(* RAM may be ahead of the medium, never behind it. *)
Floors == up => persistent.floor >= medium.fields.floor

(* The inductive invariants: of the floor, and of the versions above it. *)
UInv == Kinds /\ Floors

BInv == /\ Calls
        /\ Vouched(medium.fields)
        /\ up => Vouched(persistent)

(* The record of a fresh device. *)
LEMMA UBlank == ASSUME U!OtaAssumption PROVE U!Blank \in U!State /\ U!Blank.floor = 0 /\ 0 \in 0..MaxVersion
BY DEF U!Blank, U!State, U!OtaAssumption

(* Both invariants hold before the first boot. *)
LEMMA UInit == ASSUME U!OtaAssumption, U!Init PROVE UInv /\ BInv
<1>1. PICK v \in 1..3 : medium = [version |-> v, fields |-> U!Blank]
  BY DEF U!Init, U!OnMedium
<1>2. medium \in UpdateRecord /\ medium.fields = U!Blank
  BY <1>1, UBlank DEF UpdateRecord
<1>3. UInv
  BY <1>2, UBlank DEF U!Init, UInv, Kinds, Floors
<1>4. QED
  BY <1>2, <1>3, UBlank DEF U!Init, BInv, Calls, Vouched, Vouches

(* A save leaves the record it was given, or the one before. *)
LEMMA USaved ==
    ASSUME Atomic, Kinds, NEW r \in U!State, NEW o \in U!Outcome, U!ls_boot_state_save(r, o, U!Blank)
    PROVE  /\ medium' \in UpdateRecord
           /\ medium'.version = 3 \/ medium'.fields = U!Blank
           /\ medium'.fields = r \/ (o # "ok" /\ medium' = medium)
           /\ persistent' = IF o = "cut" THEN U!Blank ELSE r
<1>1. (medium' = medium /\ o # "ok") \/ medium' = [version |-> 3, fields |-> r]
  BY DEF U!ls_boot_state_save, U!Left, U!OnMedium, U!LS_BOOT_VERSION
<1>2. QED
  BY <1>1 DEF Kinds, U!ls_boot_state_save, UpdateRecord

(* A save in a call, whether its result is looked at or not. *)
Ends(r, o, calls) ==
    /\ U!ls_boot_state_save(r, o, U!Blank)
    /\ IF o = "cut" THEN U!Reset ELSE call' \in calls /\ UNCHANGED <<up, version, U!backend>>

(* A save that does not lower the floor keeps the floor. *)
LEMMA SaveKeepsUInv ==
    ASSUME U!OtaAssumption, Atomic, UInv, up, NEW r \in U!State, NEW o \in U!Outcome, NEW calls,
           Ends(r, o, calls),
           r.floor >= persistent.floor
    PROVE  UInv' /\ medium'.fields.floor >= medium.fields.floor
<1>1. /\ medium' \in UpdateRecord
      /\ medium'.version = 3 \/ medium'.fields = U!Blank
      /\ medium'.fields = r \/ (o # "ok" /\ medium' = medium)
      /\ persistent' = IF o = "cut" THEN U!Blank ELSE r
  BY USaved DEF UInv, Ends
<1>2. medium.fields.floor \in Nat /\ persistent.floor \in Nat /\ r.floor \in Nat
  BY DEF UInv, Kinds, UpdateRecord, U!State, U!OtaAssumption
<1>3. medium'.fields.floor >= medium.fields.floor
  BY <1>1, <1>2 DEF UInv, Floors
<1>4. CASE o = "cut"
  <2>1. U!Reset
    BY <1>4 DEF Ends
  <2>2. Kinds'
    BY <1>1, <1>4, <2>1, UBlank DEF UInv, Kinds, U!Reset
  <2>3. QED
    BY <1>3, <2>1, <2>2 DEF UInv, Floors, U!Reset
<1>5. CASE o # "cut"
  <2>1. UNCHANGED <<up, version, U!backend>> /\ call' \in calls
    BY <1>5 DEF Ends
  <2>2. Kinds'
    BY <1>1, <1>5, <2>1 DEF UInv, Kinds, U!backend
  <2>3. Floors'
    BY <1>1, <1>2, <1>5 DEF UInv, Floors
  <2>4. QED
    BY <1>3, <2>2, <2>3 DEF UInv
<1>6. QED
  BY <1>4, <1>5

(* The same for the versions that the records vouch for. *)
LEMMA SaveKeepsBInv ==
    ASSUME U!OtaAssumption, Atomic, UInv, BInv, up, NEW r \in U!State, NEW o \in U!Outcome, NEW calls,
           Ends(r, o, calls), Vouched(r), calls \cap {"stage", "abort", "confirm", "rollback"} = {},
           o = "ok" /\ call' = "request_boot" =>
              /\ running = confirmed /\ requested = 0 /\ confirmed <= r.floor
              /\ version >= r.floor /\ r.state = "pending" /\ r.pending = version,
           o # "ok" => call' # "request_boot"
    PROVE  BInv'
<1>1. /\ medium' \in UpdateRecord
      /\ medium'.fields = r \/ (o # "ok" /\ medium' = medium)
      /\ persistent' = IF o = "cut" THEN U!Blank ELSE r
  BY USaved DEF UInv, Ends
<1>2. Vouched(medium'.fields)
  BY <1>1 DEF BInv
<1>3. CASE o = "cut"
  <2>1. /\ up' = FALSE /\ call' = "idle" /\ requested' = 0 /\ UNCHANGED <<slot, confirmed>>
        /\ running' = IF requested # 0 THEN requested ELSE confirmed
    BY <1>3 DEF Ends, U!Reset
  <2>2. medium'.fields.floor \in Nat
    BY <1>1 DEF UpdateRecord, U!State, U!OtaAssumption
  <2>3. Calls'
    BY <2>1 DEF Calls
  <2>4. Vouched(medium.fields)'
    BY <1>2, <2>1, <2>2 DEF Vouched, Vouches
  <2>5. QED
    BY <2>1, <2>3, <2>4 DEF BInv
<1>4. CASE o # "cut"
  <2>1. UNCHANGED <<up, version, slot, requested, running, confirmed>> /\ call' \in calls
    BY <1>4 DEF Ends, U!backend
  <2>2. Vouched(medium.fields)' /\ Vouched(persistent)'
    BY <1>1, <1>2, <1>4, <2>1 DEF Vouched, Vouches
  <2>3. Calls'
    BY <1>1, <1>4, <2>1 DEF Calls, BInv
  <2>4. QED
    BY <2>2, <2>3 DEF BInv
<1>5. QED
  BY <1>3, <1>4

(* The steps that save nothing. *)
Quiet == \/ U!ls_ota_confirm_running \/ U!ls_ota_request_rollback
         \/ \E v \in U!Version : U!ls_ota_stage_candidate(v)
         \/ \E ok \in BOOLEAN : U!request_boot(ok)
         \/ call' = "idle" /\ UNCHANGED <<persistent, medium, up, version, U!backend>>

(* The records that the calls save. *)
Staged == [persistent EXCEPT !.pending = version, !.state = "pending"]
Aborted == [persistent EXCEPT !.pending = 0, !.state = "none"]
Confirmed == [persistent EXCEPT !.floor = U!Raised(version), !.pending = 0, !.state = "confirmed"]
RolledBack == [persistent EXCEPT !.rollbacks = IF @ < MaxRollbacks THEN @ + 1 ELSE @,
                                 !.pending = 0, !.state = "rolled_back"]
Released(x) == [persistent EXCEPT !.release = x]

Phases == {"pending", "confirmed", "rolled_back"}

(* What a step does: which record it saves, and what may follow. *)
LEMMA Steps ==
    ASSUME Kinds, [U!Next]_(U!vars)
    PROVE  \/ U!Boot \/ U!PowerLoss \/ Quiet \/ UNCHANGED U!vars
           \/ \E o \in U!Outcome :
                 /\ up /\ call # "idle"
                 /\ \/ call = "stage" /\ Ends(Staged, o, IF o = "ok" THEN {"request_boot"} ELSE {"idle"})
                    \/ call = "abort" /\ Ends(Aborted, o, {"idle"})
                    \/ call = "confirm" /\ U!Pending /\ Ends(Confirmed, o, {"release_confirm", "idle"})
                    \/ call = "rollback" /\ U!Pending /\ Ends(RolledBack, o, {"release_rollback", "idle"})
                    \/ \E x \in Phases : Ends(Released(x), o, {"idle"})
<1>1. ASSUME NEW o \in U!Outcome, U!ls_update_stage(o)
      PROVE  call = "stage" /\ Ends(Staged, o, IF o = "ok" THEN {"request_boot"} ELSE {"idle"})
  BY <1>1 DEF U!ls_update_stage, U!Save, Ends, Staged
<1>2. ASSUME NEW o \in U!Outcome, U!ls_update_abort_stage(o)
      PROVE call = "abort" /\ Ends(Aborted, o, {"idle"})
  BY <1>2 DEF U!ls_update_abort_stage, U!SaveAnyway, Ends, Aborted
<1>3. ASSUME NEW o \in U!Outcome, U!ls_update_confirm_version(o)
      PROVE  Quiet \/ (call = "confirm" /\ U!Pending /\ Ends(Confirmed, o, {"release_confirm", "idle"}))
  BY <1>3 DEF U!ls_update_confirm_version, U!Save, Ends, Confirmed, Quiet
<1>4. ASSUME NEW o \in U!Outcome, U!ls_update_mark_version_rollback(o)
      PROVE  Quiet \/ (call = "rollback" /\ U!Pending /\ Ends(RolledBack, o, {"release_rollback", "idle"}))
  BY <1>4 DEF U!ls_update_mark_version_rollback, U!Save, Ends, RolledBack, Quiet
<1>5. ASSUME NEW o \in U!Outcome,
             U!ls_release_mark_pending(o) \/ U!ls_release_confirm(o) \/ U!ls_release_mark_rollback(o)
      PROVE  call # "idle" /\ \E x \in Phases : Ends(Released(x), o, {"idle"})
  <2>1. PICK x \in Phases : U!SaveAnyway(Released(x), o, "idle") /\ call # "idle"
    BY <1>5 DEF U!ls_release_mark_pending, U!ls_release_confirm, U!ls_release_mark_rollback,
       Released, Phases
  <2>2. QED
    BY <2>1 DEF U!SaveAnyway, Ends
<1>6. call # "idle" => up
  BY DEF Kinds
<1>7. QED
  BY <1>1, <1>2, <1>3, <1>4, <1>5, <1>6 DEF U!Next, Quiet

(* What those records hold. *)
LEMMA RecordTypes ==
    ASSUME U!OtaAssumption, Kinds
    PROVE  /\ {Staged, Aborted, Confirmed, RolledBack} \subseteq U!State
           /\ \A x \in Phases : Released(x) \in U!State /\ Released(x).floor = persistent.floor
                                 /\ Released(x).state = persistent.state
                                 /\ Released(x).pending = persistent.pending
           /\ Staged.floor = persistent.floor /\ Staged.state = "pending" /\ Staged.pending = version
           /\ Aborted.floor = persistent.floor /\ RolledBack.floor = persistent.floor
           /\ Confirmed.floor >= persistent.floor /\ Confirmed.floor >= version
<1> USE DEF Kinds, U!State
<1>1. /\ U!Raised(version) \in 0..MaxVersion /\ U!Raised(version) >= persistent.floor
      /\ U!Raised(version) >= version
  BY DEF U!Raised, U!OtaAssumption
<1>2. (IF persistent.rollbacks < MaxRollbacks THEN persistent.rollbacks + 1
                                             ELSE persistent.rollbacks) \in 0..MaxRollbacks
  BY DEF U!OtaAssumption
<1>3. 0 \in 0..MaxVersion
  BY DEF U!OtaAssumption
<1>4. Staged \in U!State /\ Aborted \in U!State
  BY <1>3 DEF Staged, Aborted
<1>5. Confirmed \in U!State /\ Confirmed.floor = U!Raised(version)
  BY <1>1, <1>3 DEF Confirmed
<1>6. RolledBack \in U!State /\ RolledBack.floor = persistent.floor
  BY <1>2, <1>3 DEF RolledBack
<1>7. \A x \in Phases : Released(x) \in U!State /\ Released(x).floor = persistent.floor
                                 /\ Released(x).state = persistent.state
                                 /\ Released(x).pending = persistent.pending
  BY DEF Released, Phases
<1>8. /\ Staged.floor = persistent.floor /\ Staged.state = "pending" /\ Staged.pending = version
      /\ Aborted.floor = persistent.floor
  BY DEF Staged, Aborted
<1>9. QED
  BY <1>1, <1>4, <1>5, <1>6, <1>7, <1>8

(* Every step keeps the floor on the medium, or raises it. *)
LEMMA UNext ==
    ASSUME U!BootRecordAssumption, U!OtaAssumption, Atomic, Torn \notin UpdateRecord, UInv,
           [U!Next]_(U!vars)
    PROVE  UInv' /\ medium'.fields.floor >= medium.fields.floor
<1>0. /\ Kinds /\ medium.fields.floor \in Nat /\ persistent.floor \in Nat
      /\ persistent.floor >= persistent.floor
  BY DEF UInv, Kinds, UpdateRecord, U!State, U!OtaAssumption
<1>1. CASE U!Boot
  <2>1. persistent' = medium.fields
    BY <1>0, <1>1 DEF U!Boot, U!ls_boot_state_load, U!BootRecordAssumption, Kinds
  <2>2. medium' = [version |-> 3, fields |-> medium.fields]
    BY <1>1, <2>1 DEF U!Boot, U!OnMedium, U!LS_BOOT_VERSION
  <2>3. /\ medium' \in UpdateRecord /\ medium'.version = 3 /\ medium'.fields = medium.fields
        /\ medium.fields \in U!State
    BY <1>0, <2>2 DEF Kinds, UpdateRecord
  <2>4. QED
    BY <1>0, <1>1, <2>1, <2>3 DEF U!Boot, UInv, Kinds, Floors, U!backend
<1>2. CASE U!PowerLoss
  <2>1. Kinds'
    BY <1>0, <1>2, UBlank DEF U!PowerLoss, U!Reset, Kinds
  <2>2. QED
    BY <1>0, <1>2, <2>1 DEF U!PowerLoss, U!Reset, UInv, Floors
<1>3. CASE Quiet \/ UNCHANGED U!vars
  <2>1. UNCHANGED <<persistent, medium, up>>
    BY <1>3 DEF Quiet, U!ls_ota_confirm_running, U!ls_ota_request_rollback,
       U!ls_ota_stage_candidate, U!request_boot, U!vars
  <2>2. U!Version \subseteq 0..MaxVersion /\ 0 \in 0..MaxVersion
    BY DEF U!Version, U!OtaAssumption
  <2>3. version' \in 0..MaxVersion /\ slot' \in 0..MaxVersion /\ requested' \in 0..MaxVersion
    BY <1>0, <1>3, <2>2 DEF Quiet, U!ls_ota_confirm_running, U!ls_ota_request_rollback,
       U!ls_ota_stage_candidate,
                            U!request_boot, U!vars, U!backend, Kinds
  <2>4. running' \in 0..MaxVersion /\ confirmed' \in 0..MaxVersion /\ (call' = "idle" \/ call # "idle" \/ up)
    BY <1>0, <1>3 DEF Quiet, U!ls_ota_confirm_running, U!ls_ota_request_rollback,
       U!ls_ota_stage_candidate,
                            U!request_boot, U!vars, U!backend, Kinds
  <2>5. QED
    BY <1>0, <2>1, <2>3, <2>4 DEF UInv, Kinds, Floors
<1>4. ASSUME NEW o \in U!Outcome, NEW r \in U!State, NEW calls, up, Ends(r, o, calls),
             r.floor >= persistent.floor
      PROVE  UInv' /\ medium'.fields.floor >= medium.fields.floor
  BY <1>4, SaveKeepsUInv
<1>5. QED
  BY <1>0, <1>1, <1>2, <1>3, <1>4, Steps, RecordTypes

(* A record with a floor as high vouches for as much. *)
LEMMA VouchesMore ==
    ASSUME NEW r \in U!State, NEW x \in U!State, U!OtaAssumption, Kinds, Vouched(r), x.floor >= r.floor,
           x.state = r.state /\ x.pending = r.pending
    PROVE  Vouched(x)
<1>1. r.floor \in Nat /\ x.floor \in Nat /\ confirmed \in Nat /\ requested \in Nat /\ running \in Nat
  BY DEF U!State, Kinds, U!OtaAssumption
<1>2. QED
  BY <1>1 DEF Vouched, Vouches

(* Every step keeps the versions vouched for, and boots none below. *)
LEMMA BNext ==
    ASSUME U!BootRecordAssumption, U!OtaAssumption, Atomic, ConfirmsFirst,
           Torn \notin UpdateRecord, UInv, BInv, [U!Next]_(U!vars)
    PROVE  BInv' /\ U!NeverBelowConfirmed
<1>0. /\ Kinds /\ persistent \in U!State /\ persistent.floor \in Nat /\ medium.fields.floor \in Nat
      /\ version \in Nat /\ slot \in Nat /\ requested \in Nat /\ running \in Nat /\ confirmed \in Nat
  BY DEF UInv, Kinds, UpdateRecord, U!State, U!OtaAssumption
<1>1. CASE U!Boot
  <2>1. persistent' = medium.fields
    BY <1>0, <1>1 DEF U!Boot, U!ls_boot_state_load, U!BootRecordAssumption, Kinds
  <2>2. medium' = [version |-> 3, fields |-> medium.fields]
    BY <1>1, <2>1 DEF U!Boot, U!OnMedium, U!LS_BOOT_VERSION
  <2>3. /\ medium'.fields = medium.fields
        /\ UNCHANGED <<version, slot, requested, running, confirmed>> /\ call' = "idle"
    BY <1>0, <1>1, <2>2 DEF U!Boot, U!backend, Kinds
  <2>4. Vouched(medium.fields)' /\ Vouched(persistent)'
    BY <2>1, <2>3 DEF BInv, Vouched, Vouches
  <2>5. QED
    BY <2>3, <2>4 DEF BInv, Calls, U!NeverBelowConfirmed
<1>2. CASE U!PowerLoss
  <2>1. /\ up' = FALSE /\ call' = "idle" /\ requested' = 0 /\ UNCHANGED <<slot, confirmed, medium>>
        /\ running' = IF requested # 0 THEN requested ELSE confirmed
    BY <1>2 DEF U!PowerLoss, U!Reset
  <2>2. Vouched(medium.fields)'
    BY <1>0, <2>1 DEF BInv, Vouched, Vouches
  <2>3. QED
    BY <2>1, <2>2 DEF BInv, Calls, U!NeverBelowConfirmed
<1>3. CASE UNCHANGED U!vars
  BY <1>3 DEF U!vars, U!backend, BInv, Calls, Vouched, Vouches, U!NeverBelowConfirmed
<1>4. CASE U!ls_ota_confirm_running
  <2>1. /\ up /\ running \in {slot, confirmed} /\ running # 0 /\ confirmed' = running
        /\ version' = running /\ call' = "confirm"
        /\ UNCHANGED <<persistent, medium, up, slot, requested, running>>
    BY <1>4 DEF U!ls_ota_confirm_running
  <2>2. Vouched(medium.fields)' /\ Vouched(persistent)'
    BY <2>1 DEF BInv, Vouched, Vouches
  <2>3. QED
    BY <2>1, <2>2 DEF BInv, Calls, U!NeverBelowConfirmed
<1>5. CASE U!ls_ota_request_rollback
  <2>1. /\ up /\ running # confirmed /\ running # 0 /\ slot' = 0 /\ version' = running /\ call' = "rollback"
        /\ UNCHANGED <<persistent, medium, up, requested, running, confirmed>>
    BY <1>5 DEF U!ls_ota_request_rollback
  <2>2. Vouched(medium.fields)' /\ Vouched(persistent)'
    BY <2>1 DEF BInv, Vouched, Vouches
  <2>3. QED
    BY <2>1, <2>2 DEF BInv, Calls, U!NeverBelowConfirmed
<1>6. ASSUME NEW v \in U!Version, U!ls_ota_stage_candidate(v) PROVE BInv' /\ U!NeverBelowConfirmed
  <2>1. /\ up /\ v >= persistent.floor /\ running = confirmed /\ slot' = v /\ requested' = 0
        /\ version' = v /\ call' = "stage"
        /\ ~(persistent.state = "pending" /\ running = persistent.pending)
        /\ UNCHANGED <<persistent, medium, up, running, confirmed>>
    BY <1>6 DEF U!ls_ota_stage_candidate, U!ls_update_version_allowed
  <2>2. confirmed <= persistent.floor
    BY <2>1 DEF BInv, Vouched, Vouches
  <2>3. Vouched(medium.fields)' /\ Vouched(persistent)'
    BY <1>0, <2>1 DEF BInv, Vouched, Vouches
  <2>4. QED
    BY <2>1, <2>2, <2>3 DEF BInv, Calls, U!NeverBelowConfirmed
<1>7. ASSUME NEW ok \in BOOLEAN, U!request_boot(ok) PROVE BInv' /\ U!NeverBelowConfirmed
  <2>1. /\ call = "request_boot" /\ requested' = (IF ok THEN version ELSE requested)
        /\ call' = IF ok THEN "mark_pending" ELSE "abort"
        /\ UNCHANGED <<persistent, medium, up, version, slot, running, confirmed>>
    BY <1>7 DEF U!request_boot
  <2>2. /\ confirmed <= persistent.floor /\ running = confirmed /\ requested = 0
        /\ version >= persistent.floor
        /\ medium.fields = persistent /\ persistent.state = "pending" /\ persistent.pending = version /\ up
    BY <1>0, <2>1 DEF BInv, Calls, Kinds
  <2>3. Vouched(medium.fields)' /\ Vouched(persistent)'
    BY <1>0, <2>1, <2>2 DEF BInv, Vouched, Vouches
  <2>4. U!NeverBelowConfirmed
    BY <1>0, <2>1, <2>2 DEF U!NeverBelowConfirmed
  <2>5. QED
    BY <2>1, <2>2, <2>3, <2>4 DEF BInv, Calls
<1>8. CASE call' = "idle" /\ UNCHANGED <<persistent, medium, up, version, U!backend>>
  BY <1>8 DEF U!backend, BInv, Calls, Vouched, Vouches, U!NeverBelowConfirmed
<1>9. CASE Quiet
  BY <1>4, <1>5, <1>6, <1>7, <1>8, <1>9 DEF Quiet
<1>10. ASSUME NEW o \in U!Outcome, NEW r \in U!State, NEW calls, up, Ends(r, o, calls), Vouched(r),
              calls \subseteq {"idle", "release_confirm", "release_rollback"}
       PROVE  BInv' /\ U!NeverBelowConfirmed
  <2>1. call' # "request_boot" /\ calls \cap {"stage", "abort", "confirm", "rollback"} = {}
    BY <1>10 DEF Ends, U!Reset
  <2>2. requested' \in {0, requested}
    BY <1>10 DEF Ends, U!Reset, U!backend
  <2>3. QED
    BY <1>10, <2>1, <2>2, SaveKeepsBInv DEF U!NeverBelowConfirmed
<1>11. ASSUME NEW o \in U!Outcome, up, call = "stage",
              Ends(Staged, o, IF o = "ok" THEN {"request_boot"} ELSE {"idle"})
       PROVE  BInv' /\ U!NeverBelowConfirmed
  <2>1. confirmed <= persistent.floor /\ running = confirmed /\ requested = 0 /\ version >= persistent.floor
    BY <1>11 DEF BInv, Calls
  <2>2. /\ Staged \in U!State /\ Staged.floor = persistent.floor /\ Staged.state = "pending"
        /\ Staged.pending = version
    BY <1>0, RecordTypes
  <2>3. Vouched(Staged)
    BY <1>0, <2>1, <2>2 DEF Vouched, Vouches
  <2>4. o # "ok" => call' # "request_boot"
    BY <1>11 DEF Ends, U!Reset
  <2>5. requested' \in {0, requested}
    BY <1>11 DEF Ends, U!Reset, U!backend
  <2>6. BInv'
    BY <1>11, <2>1, <2>2, <2>3, <2>4, SaveKeepsBInv
  <2>7. QED
    BY <2>5, <2>6 DEF U!NeverBelowConfirmed
<1>12. call = "abort" => Vouched(Aborted)
  BY <1>0, RecordTypes DEF BInv, Calls, Vouched, Vouches
<1>13. call = "confirm" /\ U!Pending /\ up => Vouched(Confirmed)
  <2>1. Confirmed.floor \in Nat /\ Confirmed.floor >= persistent.floor /\ Confirmed.floor >= version
    BY <1>0, RecordTypes DEF U!State, U!OtaAssumption
  <2>2. QED
    BY <1>0, <2>1 DEF BInv, Calls, Vouched, Vouches, U!Pending
<1>14. call = "rollback" /\ U!Pending /\ up => Vouched(RolledBack)
  BY <1>0, RecordTypes DEF BInv, Calls, Vouched, Vouches, U!Pending
<1>15. \A x \in Phases : up => Vouched(Released(x))
  BY <1>0, RecordTypes, VouchesMore DEF BInv
<1>16. QED
  BY <1>0, <1>1, <1>2, <1>3, <1>9, <1>10, <1>11, <1>12, <1>13, <1>14, <1>15, Steps, RecordTypes

(* ls_update_confirm_version (core/boot.c): with a storage backend     *)
(* that replaces the record atomically, the floor that the next boot loads *)
(* is never lowered, by failed saves, power losses or any order of calls.  *)
THEOREM UpdateFloorIsMonotonic ==
    ASSUME U!BootRecordAssumption, U!OtaAssumption, Atomic
    PROVE  U!Spec => [][U!FloorIsMonotonic]_(U!vars)
<1>0. Torn \notin UpdateRecord
  BY DEF U!OtaAssumption, U!Records, U!LS_BOOT_VERSION, UpdateRecord
<1>1. U!Init => UInv
  BY UInit
<1>2. UInv /\ [U!Next]_(U!vars) => UInv'
  BY <1>0, UNext
<1>3. UInv /\ UInv' /\ [U!Next]_(U!vars) => [U!FloorIsMonotonic]_(U!vars)
  BY <1>0, UNext DEF UInv, Kinds, U!Floor, U!FloorIsMonotonic
<1>4. QED
  BY <1>1, <1>2, <1>3, PTL DEF U!Spec

(* ls_ota_stage_candidate (core/ota.c): with an atomic backend and an      *)
(* application that finishes a confirmation before it stages the next      *)
(* candidate, the bootloader is never asked to try a version older than    *)
(* the one it has confirmed.                                               *)
THEOREM UpdateNeverBelowConfirmed ==
    ASSUME U!BootRecordAssumption, U!OtaAssumption, Atomic, ConfirmsFirst
    PROVE  U!Spec => [][U!NeverBelowConfirmed]_(U!vars)
<1>0. Torn \notin UpdateRecord
  BY DEF U!OtaAssumption, U!Records, U!LS_BOOT_VERSION, UpdateRecord
<1>1. U!Init => UInv /\ BInv
  BY UInit
<1>2. UInv /\ BInv /\ [U!Next]_(U!vars) => (UInv /\ BInv)' /\ [U!NeverBelowConfirmed]_(U!vars)
  BY <1>0, UNext, BNext
<1>3. QED
  BY <1>1, <1>2, PTL DEF U!Spec

-----------------------------------------------------------------------------
(* What load_image may find on the medium of an atomic backend. *)
Loaded == S!Sealed \cup {S!ErasedMedium}

(* The medium of an atomic backend: whatever a power loss brings back has   *)
(* another nonce than what is stored.                                       *)
Nonces ==
    /\ stored \in may /\ may \subseteq Loaded
    /\ step = "write" => workspace \in S!Sealed
    /\ step = "sync" => workspace = stored
    /\ S!Intact => \A m \in may : m = stored \/ m.nonce # stored.nonce
    /\ S!Intact /\ step = "write" => workspace.nonce # stored.nonce

(* The key of the image is the one in use, or the saved one while a         *)
(* rotation has not been written.                                           *)
Keys ==
    /\ step = "idle" => old_key = NoKey
    /\ step # "idle" => workspace.key = key_id /\ key_id \in Key
    /\ mounted /\ step # "sync" =>
          stored.key \in Key /\ stored.key = IF old_key = NoKey THEN key_id ELSE old_key

(* A sealed image.                                                          *)
LEMMA SealedFields ==
    ASSUME NEW k \in Key, NEW n \in Nonce, NEW i \in S!Image
    PROVE  [key |-> k, nonce |-> n, data |-> i] \in S!Sealed
BY DEF S!Sealed

(* The erased medium opens under no key.                                    *)
LEMMA Erasure == ASSUME S!SecureAssumption PROVE S!ErasedMedium.key = NoKey /\ S!ErasedMedium.key \notin Key
BY DEF S!ErasedMedium, S!SecureAssumption

(* Both hold of an erased medium.                                           *)
LEMMA SInit == ASSUME S!SecureAssumption, S!Init PROVE Nonces /\ Keys
BY Erasure DEF S!Init, Nonces, Keys, Loaded, S!Intact

(* seal_image hands out a nonce that differs from the last one. *)
LEMMA SealKeeps ==
    ASSUME NEW k \in Key, NEW i \in S!Image, S!seal_image(k, i)
    PROVE  /\ workspace' \in S!Sealed /\ workspace'.key = k /\ workspace'.nonce # last_nonce'
           /\ step' = "write"
<1>1. PICK n \in Nonce : /\ n # last_nonce' /\ step' = "write"
                         /\ workspace' = [key |-> k, nonce |-> n, data |-> i]
  BY DEF S!seal_image
<1>2. QED
  BY <1>1 DEF S!Sealed

(* What load_image accepts is a whole image.                                *)
LEMMA LoadedImage ==
    ASSUME S!SecureAssumption, Nonces, S!Intact
    PROVE  stored \in S!Sealed /\ stored.data \in S!Image
BY Erasure DEF Nonces, Loaded, S!Intact, S!Sealed

(* No step writes an image under the nonce of the one before.               *)
LEMMA NextNonces ==
    ASSUME S!SecureAssumption, Atomic, Nonces, [S!Next]_(S!vars)
    PROVE  Nonces' /\ (stored' # stored /\ S!Intact => stored'.nonce # stored.nonce)
<1> USE DEF Nonces
<1>1. ASSUME NEW k \in Key, S!ls_secure_storage_init(k) PROVE Nonces' /\ stored' = stored
  <2>1. UNCHANGED <<stored, may>>
    BY <1>1 DEF S!ls_secure_storage_init
  <2>2. CASE stored = S!ErasedMedium
    <3>1. S!Blank \in S!Image
      BY DEF S!Blank, S!Image
    <3>2. S!seal_image(k, S!Blank)
      BY <1>1, <2>2 DEF S!ls_secure_storage_init
    <3>3. ~S!Intact
      BY <2>2, Erasure DEF S!Intact
    <3>4. QED
      BY <2>1, <3>1, <3>2, <3>3, SealKeeps DEF S!Intact
  <2>3. CASE stored # S!ErasedMedium
    BY <1>1, <2>1, <2>3 DEF S!ls_secure_storage_init, S!Intact
  <2>4. QED
    BY <2>1, <2>2, <2>3
<1>2. ASSUME NEW k \in Key, NEW i \in S!Image, S!seal_image(k, i), last_nonce' = stored.nonce,
             UNCHANGED <<stored, may>>
      PROVE  Nonces' /\ stored' = stored
  BY <1>2, SealKeeps DEF S!Intact
<1>3. ASSUME NEW k \in Key, S!ls_secure_storage_rotate_key(k) PROVE Nonces' /\ stored' = stored
  <2>1. S!Intact /\ last_nonce' = stored.nonce /\ S!seal_image(k, stored.data) /\ UNCHANGED <<stored, may>>
    BY <1>3 DEF S!ls_secure_storage_rotate_key, S!load_image
  <2>2. QED
    BY <1>2, <2>1, LoadedImage
<1>4. ASSUME NEW c \in Cell, NEW v \in Value \cup {Erased}, S!update_image(c, v)
      PROVE Nonces' /\ stored' = stored
  <2>1. /\ S!Intact /\ stored.key = key_id /\ last_nonce' = stored.nonce
        /\ S!seal_image(key_id, [stored.data EXCEPT ![c] = v]) /\ UNCHANGED <<stored, may>>
    BY <1>4 DEF S!update_image, S!load_image
  <2>2. [stored.data EXCEPT ![c] = v] \in S!Image
    BY <2>1, LoadedImage DEF S!Image
  <2>3. QED
    BY <1>2, <2>1, <2>2 DEF S!Intact
<1>5. CASE S!secure_read \/ S!ls_secure_storage_destroy \/ S!SyncFails \/ UNCHANGED S!vars
  <2>1. UNCHANGED <<stored, may>> /\ (step' = "idle" \/ UNCHANGED <<step, workspace>>)
    BY <1>5 DEF S!secure_read, S!ls_secure_storage_destroy, S!RamLost, S!SyncFails, S!Failed,
       S!Returned, S!vars, S!ram
  <2>2. QED
    BY <2>1 DEF S!Intact
<1>6. CASE S!Write
  BY <1>6 DEF S!Write, Loaded
<1>7. CASE S!WriteFails
  BY <1>7 DEF S!WriteFails, Loaded, S!Failed, S!Returned, S!Intact
<1>8. CASE S!Sync
  BY <1>8 DEF S!Sync, S!Returned, S!Intact
<1>9. CASE S!PowerLoss
  BY <1>9 DEF S!PowerLoss, S!RamLost, Loaded
<1>10. QED
  BY <1>1, <1>3, <1>4, <1>5, <1>6, <1>7, <1>8, <1>9 DEF S!Next

(* Every step leaves the image readable with the key that the next call has. *)
LEMMA NextKeys ==
    ASSUME S!SecureAssumption, Atomic, "rotate" \notin SyncMayFail, Nonces, Keys, [S!Next]_(S!vars)
    PROVE  Keys'
<1> USE DEF Keys
<1>1. ASSUME NEW k \in Key, S!ls_secure_storage_init(k) PROVE Keys'
  <2>1. ~mounted /\ step = "idle" /\ key_id' = k /\ UNCHANGED <<stored, old_key>>
    BY <1>1 DEF S!ls_secure_storage_init
  <2>2. CASE stored = S!ErasedMedium
    <3>1. S!Blank \in S!Image
      BY DEF S!Blank, S!Image
    <3>2. S!seal_image(k, S!Blank) /\ mounted' = mounted
      BY <1>1, <2>2 DEF S!ls_secure_storage_init
    <3>3. QED
      BY <2>1, <3>1, <3>2, SealKeeps
  <2>3. CASE stored # S!ErasedMedium
    <3>1. stored.key = k /\ step' = step
      BY <1>1, <2>3 DEF S!ls_secure_storage_init, S!load_image
    <3>2. QED
      BY <2>1, <3>1
  <2>4. QED
    BY <2>2, <2>3
<1>2. ASSUME NEW k \in Key, S!ls_secure_storage_rotate_key(k) PROVE Keys'
  <2>1. /\ S!Intact /\ stored.key = key_id /\ old_key' = key_id /\ key_id' = k
        /\ S!seal_image(k, stored.data)
        /\ UNCHANGED <<stored, mounted>>
    BY <1>2 DEF S!ls_secure_storage_rotate_key, S!load_image
  <2>2. workspace'.key = k /\ step' = "write"
    BY <2>1, LoadedImage, SealKeeps
  <2>3. key_id \in Key /\ key_id # NoKey
    BY <2>1 DEF S!Intact, S!SecureAssumption
  <2>4. QED
    BY <2>1, <2>2, <2>3
<1>3. ASSUME NEW c \in Cell, NEW v \in Value \cup {Erased}, S!update_image(c, v) PROVE Keys'
  <2>1. /\ S!Intact /\ stored.key = key_id /\ step = "idle"
        /\ S!seal_image(key_id, [stored.data EXCEPT ![c] = v])
        /\ UNCHANGED <<stored, key_id, old_key, mounted>>
    BY <1>3 DEF S!update_image, S!load_image
  <2>2. [stored.data EXCEPT ![c] = v] \in S!Image
    BY <2>1, LoadedImage DEF S!Image
  <2>3. workspace'.key = key_id /\ step' = "write"
    BY <2>1, <2>2, SealKeeps DEF S!Intact
  <2>4. QED
    BY <2>1, <2>3 DEF S!Intact
<1>4. CASE S!secure_read \/ UNCHANGED S!vars
  BY <1>4 DEF S!secure_read, S!vars, S!ram
<1>5. CASE S!Write
  BY <1>5 DEF S!Write
<1>6. CASE S!WriteFails
  BY <1>6 DEF S!WriteFails, S!Failed, S!Returned, S!Restored
<1>7. CASE S!Sync
  <2>1. stored.key = key_id /\ stored.key \in Key
    BY <1>7 DEF S!Sync, Nonces, Loaded
  <2>2. QED
    BY <1>7, <2>1 DEF S!Sync, S!Returned
<1>8. CASE S!SyncFails
  <2>1. old_key = NoKey /\ step = "sync"
    BY <1>8 DEF S!SyncFails
  <2>2. stored.key = key_id /\ stored.key \in Key
    BY <2>1 DEF Nonces
  <2>3. step' = "idle" /\ old_key' = NoKey /\ UNCHANGED <<stored, key_id>>
    BY <1>8, <2>1 DEF S!SyncFails, S!Failed, S!Returned, S!Restored
  <2>4. QED
    BY <2>2, <2>3
<1>9. CASE S!ls_secure_storage_destroy \/ S!PowerLoss
  BY <1>9 DEF S!ls_secure_storage_destroy, S!PowerLoss, S!RamLost
<1>10. QED
  BY <1>1, <1>2, <1>3, <1>4, <1>5, <1>6, <1>7, <1>8, <1>9 DEF S!Next

(* ls_secure_storage_rotate_key (storage/secure_storage.c): as long as no  *)
(* sync of a rotation fails after its write, the key in use, or the saved  *)
(* one of a rotation that is not written yet, opens the stored image.      *)
THEOREM SecureStaysReadable ==
    ASSUME S!SecureAssumption, Atomic, "rotate" \notin SyncMayFail PROVE S!Spec => []S!StaysReadable
<1>1. S!Init => Nonces /\ Keys
  BY SInit
<1>2. (Nonces /\ Keys) /\ [S!Next]_(S!vars) => (Nonces /\ Keys)'
  BY NextNonces, NextKeys
<1>3. Nonces /\ Keys => S!StaysReadable
  BY DEF Keys, S!StaysReadable, S!Intact
<1>4. QED
  BY <1>1, <1>2, <1>3, PTL DEF S!Spec

(* seal_image (storage/secure_storage.c): over an atomic backend, an image *)
(* is never replaced by one sealed under the same nonce, across restarts,  *)
(* failed writes and power losses.                                         *)
THEOREM SecureNonceChanges ==
    ASSUME S!SecureAssumption, Atomic PROVE S!Spec => [][S!NonceChanges]_(S!vars)
<1>1. S!Init => Nonces
  BY SInit
<1>2. Nonces /\ [S!Next]_(S!vars) => Nonces'
  BY NextNonces
<1>3. Nonces /\ [S!Next]_(S!vars) => [S!NonceChanges]_(S!vars)
  BY NextNonces DEF S!NonceChanges
<1>4. QED
  BY <1>1, <1>2, <1>3, PTL DEF S!Spec

Shown(m) == IF m.key \in Key THEN m.data ELSE S!Blank

(* What a power loss may bring back is the image in force or one that a     *)
(* failed update left behind; formatting starts with nothing attempted.     *)
Held ==
    /\ \A m \in may : Shown(m) \in {S!Visible} \cup attempted
    /\ mounted => S!Intact
    /\ stored = S!ErasedMedium => attempted = {}
    /\ step = "write" /\ ~mounted => stored = S!ErasedMedium /\ workspace.data = S!Blank
    /\ step = "sync" => attempted = {} /\ stored \in S!Sealed

Vault == INSTANCE ImageStore WITH image <- S!Visible, current <- S!Current

(* The first states are states of an erased ImageStore.                     *)
LEMMA InitHeld == ASSUME S!SecureAssumption, S!Init PROVE Held /\ Vault!Init
BY Erasure DEF S!Init, Held, Shown, S!Visible, S!Intact, Vault!Init, Vault!Blank, S!Blank, S!Current

(* A step of the adapter is a step of ImageStore, or changes nothing a reader sees. *)
LEMMA NextHeld ==
    ASSUME S!SecureAssumption, Atomic, Nonces, Held, [S!Next]_(S!vars)
    PROVE  Held' /\ [Vault!Next]_(Vault!vars)
<1> USE DEF Held
<1>1. ASSUME NEW k \in Key, S!ls_secure_storage_init(k) PROVE Held' /\ UNCHANGED Vault!vars
  <2>1. /\ ~mounted /\ step = "idle" /\ UNCHANGED <<stored, may, attempted>>
        /\ UNCHANGED <<S!Visible, S!Intact>>
    BY <1>1 DEF S!ls_secure_storage_init, S!Visible, S!Intact
  <2>2. CASE stored = S!ErasedMedium
    <3>1. S!seal_image(k, S!Blank) /\ mounted' = mounted
      BY <1>1, <2>2 DEF S!ls_secure_storage_init
    <3>2. workspace'.data = S!Blank /\ step' = "write"
      BY <3>1 DEF S!seal_image
    <3>3. QED
      BY <2>1, <2>2, <3>1, <3>2 DEF Shown, Vault!vars, S!Current
  <2>3. CASE stored # S!ErasedMedium
    <3>1. S!Intact /\ step' = step
      BY <1>1, <2>3 DEF S!ls_secure_storage_init, S!load_image
    <3>2. QED
      BY <2>1, <3>1 DEF Shown, Vault!vars, S!Current
  <2>4. QED
    BY <2>2, <2>3
<1>2. ASSUME NEW c \in Cell, NEW v \in Value \cup {Erased}, NEW k \in Key,
             mounted, step = "idle", S!seal_image(k, [stored.data EXCEPT ![c] = v]),
             UNCHANGED <<stored, may, mounted, attempted>>
      PROVE  Held' /\ Vault!Next
  <2>1. workspace'.data = [stored.data EXCEPT ![c] = v] /\ step' = "write"
    BY <1>2 DEF S!seal_image
  <2>2. UNCHANGED <<S!Visible, S!Intact>> /\ S!Visible = stored.data
    BY <1>2 DEF S!Visible, S!Intact
  <2>3. Held'
    BY <1>2, <2>1, <2>2 DEF Shown
  <2>4. S!Current = NoImage /\ S!Current' = [S!Visible EXCEPT ![c] = v]
    BY <1>2, <2>1, <2>2 DEF S!Current
  <2>5. QED
    BY <1>2, <2>2, <2>3, <2>4 DEF Vault!Next, Vault!Begin
<1>3. ASSUME NEW k \in Key, S!ls_secure_storage_rotate_key(k) PROVE Held' /\ Vault!Next
  <2>1. /\ mounted /\ step = "idle" /\ S!Intact /\ S!seal_image(k, stored.data)
        /\ UNCHANGED <<stored, may, mounted, attempted>>
    BY <1>3 DEF S!ls_secure_storage_rotate_key, S!load_image
  <2>2. PICK c \in Cell : TRUE
    BY DEF S!SecureAssumption
  <2>3. stored.data[c] \in Value \cup {Erased} /\ stored.data = [stored.data EXCEPT ![c] = stored.data[c]]
    BY <2>1, LoadedImage DEF S!Image
  <2>4. QED
    BY <1>2, <2>1, <2>3
<1>4. ASSUME NEW c \in Cell, NEW v \in Value \cup {Erased}, S!update_image(c, v) PROVE Held' /\ Vault!Next
  <2>1. /\ mounted /\ step = "idle" /\ key_id \in Key /\ S!seal_image(key_id, [stored.data EXCEPT ![c] = v])
        /\ UNCHANGED <<stored, may, mounted, attempted>>
    BY <1>4 DEF S!update_image, S!load_image, S!Intact
  <2>2. QED
    BY <1>2, <2>1
<1>5. CASE S!secure_read \/ S!ls_secure_storage_destroy \/ S!SyncFails \/ UNCHANGED S!vars
  <2>1. /\ UNCHANGED <<stored, may, attempted>> /\ (mounted' => mounted)
        /\ ((step' = "idle" /\ step # "write") \/ UNCHANGED <<step, workspace, mounted>>)
    BY <1>5 DEF S!secure_read, S!ls_secure_storage_destroy, S!RamLost, S!SyncFails, S!Failed,
       S!Returned, S!vars, S!ram
  <2>2. UNCHANGED <<S!Visible, S!Current, S!Intact>>
    BY <2>1 DEF S!Visible, S!Intact, S!Current
  <2>3. QED
    BY <2>1, <2>2 DEF Shown, Vault!vars
<1>6. CASE S!Write
  <2>1. /\ stored' = workspace /\ may' = {workspace} /\ step' = "sync" /\ attempted' = {} /\ step = "write"
        /\ workspace \in S!Sealed /\ mounted' = mounted
    BY <1>6 DEF S!Write, Nonces
  <2>2. S!Visible' = workspace.data /\ S!Intact' /\ S!Current' = NoImage /\ stored' # S!ErasedMedium'
    BY <2>1, Erasure DEF S!Visible, S!Intact, S!Sealed, S!Current, S!ErasedMedium
  <2>3. Held'
    BY <2>1, <2>2 DEF Shown, S!Visible, S!Intact
  <2>4. CASE mounted
    <3>1. S!Current = workspace.data /\ S!Current # NoImage
      BY <2>1, <2>4 DEF S!Current, S!Sealed, S!SecureAssumption
    <3>2. QED
      BY <2>1, <2>2, <2>3, <3>1 DEF Vault!Next, Vault!Acknowledge
  <2>5. CASE ~mounted
    <3>1. UNCHANGED <<S!Visible, S!Current, attempted>>
      BY <2>1, <2>2, <2>5, Erasure DEF S!Visible, S!Current, S!Intact
    <3>2. QED
      BY <2>3, <3>1 DEF Vault!vars
  <2>6. QED
    BY <2>4, <2>5
<1>7. CASE S!WriteFails
  <2>1. /\ stored' = stored /\ may' = may \cup {workspace} /\ step' = "idle" /\ step = "write"
        /\ workspace \in S!Sealed /\ mounted' = mounted
        /\ attempted' = IF mounted THEN attempted \cup {workspace.data} ELSE attempted
    BY <1>7 DEF S!WriteFails, S!Failed, S!Returned, Nonces
  <2>2. /\ S!Visible' = S!Visible /\ S!Intact' = S!Intact /\ S!Current' = NoImage
        /\ Shown(workspace) = workspace.data
    BY <2>1 DEF S!Visible, S!Intact, S!Sealed, S!Current, Shown
  <2>3. CASE mounted
    <3>1. S!Current = workspace.data /\ S!Current # NoImage
      BY <2>1, <2>3 DEF S!Current, S!Sealed, S!SecureAssumption
    <3>2. Held'
      <4>1. \A m \in may' : Shown(m) \in {S!Visible} \cup attempted'
        BY <2>1, <2>2, <2>3
      <4>2. stored # S!ErasedMedium
        BY <2>3, Erasure DEF S!Intact
      <4>3. QED
        BY <2>1, <2>2, <2>3, <4>1, <4>2 DEF Shown, S!Intact
    <3>3. QED
      BY <2>1, <2>2, <2>3, <3>1, <3>2 DEF Vault!Next, Vault!Fail
  <2>4. CASE ~mounted
    <3>1. S!Visible = S!Blank /\ S!Current = NoImage
      BY <2>1, <2>4, Erasure DEF S!Visible, S!Current, S!Intact
    <3>2. QED
      BY <2>1, <2>2, <2>4, <3>1 DEF Vault!vars, Shown
  <2>5. QED
    BY <2>3, <2>4
<1>8. CASE S!Sync
  <2>1. /\ UNCHANGED stored /\ may' = {stored} /\ step = "sync" /\ step' = "idle" /\ UNCHANGED attempted
        /\ S!Intact /\ mounted' = TRUE
    BY <1>8 DEF S!Sync, S!Returned, S!Intact, S!Sealed
  <2>2. UNCHANGED <<S!Visible, S!Current, S!Intact>>
    BY <2>1 DEF S!Visible, S!Intact, S!Current
  <2>3. QED
    BY <2>1, <2>2 DEF Shown, Vault!vars, S!Visible, S!Intact
<1>9. CASE S!PowerLoss
  <2>1. /\ stored' \in may /\ may' = {stored'} /\ attempted' = {} /\ mounted' = FALSE /\ step' = "idle"
    BY <1>9 DEF S!PowerLoss, S!RamLost
  <2>2. S!Visible' = Shown(stored') /\ S!Current' = NoImage
    BY <2>1 DEF S!Visible, S!Intact, Shown, S!Current
  <2>3. Held'
    BY <2>1, <2>2 DEF Shown, S!Visible, S!Intact
  <2>4. QED
    BY <2>1, <2>2, <2>3 DEF Vault!Next, Vault!Crash, Vault!Possible
<1>10. QED
  BY <1>1, <1>3, <1>4, <1>5, <1>6, <1>7, <1>8, <1>9 DEF S!Next

(* update_image (storage/secure_storage.c): over an atomic backend, the    *)
(* encrypted storage is the same ImageStore that the mirror is: a reader   *)
(* sees the last acknowledged image or a whole one of a failed update.     *)
THEOREM SecureImplementsImageStore ==
    ASSUME S!SecureAssumption, Atomic PROVE S!Spec => Vault!Spec
<1>1. S!Init => Nonces /\ Held /\ Vault!Init
  BY SInit, InitHeld
<1>2. (Nonces /\ Held) /\ [S!Next]_(S!vars) => (Nonces /\ Held)' /\ [Vault!Next]_(Vault!vars)
  BY NextNonces, NextHeld
<1>3. QED
  BY <1>1, <1>2, PTL DEF S!Spec, Vault!Spec
=============================================================================
