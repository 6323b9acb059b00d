------------------------- MODULE FlashMirror_proofs -------------------------
(***************************************************************************)
(* The proofs about the two-bank mirror, for any image, any generation     *)
(* counter and any driver calls that fail.                                 *)
(***************************************************************************)
EXTENDS FlashMirror, TLAPS

Content == [meta : [hdr : Headers, mark : BOOLEAN], data : Image \cup {Torn}]

Valid(p) == p.meta.hdr # NoHeader /\ p.meta.mark /\ p.data = p.meta.hdr.crc

(* A marker is only programmed under a complete payload, and the next       *)
(* payload only goes where the old one has been erased or looks like it.    *)
Shaped(p) ==
    /\ p.meta.hdr = NoHeader => ~p.meta.mark
    /\ p.meta.mark => p.data = p.meta.hdr.crc \/ (p.meta.hdr.crc = Blank /\ p.data # Blank)

Medium ==
    /\ slot \in [Slot -> Content]
    /\ may \in [Slot -> SUBSET Content]
    /\ \A s \in Slot : slot[s] \in may[s] /\ \A p \in may[s] : Shaped(p)

Ram ==
    /\ mounted \in BOOLEAN
    /\ step \in {"erase", "header", "payload", "sync", "marker", "commit", "idle"}
    /\ active_bank \in Slot /\ bank \in Slot
    /\ generation \in 0..(Modulus - 1) /\ next_generation \in 0..(Modulus - 1)
    /\ workspace \in Image
    /\ attempted \subseteq Image

(* How far a commit has come on its bank. *)
Committing ==
    /\ mounted /\ step # "idle" => bank = 1 - active_bank
    /\ step = "header" => slot[bank] = ErasedSlot
    /\ step = "payload" => slot[bank] = [meta |-> Header(FALSE), data |-> Blank]
    /\ step \in {"sync", "marker"} => slot[bank] = [meta |-> Header(FALSE), data |-> workspace]
    /\ step = "marker" => may[bank] = {slot[bank]}
    /\ step = "commit" => slot[bank] = [meta |-> Header(TRUE), data |-> workspace]

InUse == mounted => Valid(slot[active_bank]) /\ generation_of(active_bank) = generation

(* What a reader relies on, whatever restarts. *)
WInv == Medium /\ Ram /\ Committing /\ InUse
-----------------------------------------------------------------------------
(* The contents of a bank are told apart by their fields. *)
LEMMA SameContent ==
    ASSUME NEW p \in Content, NEW q \in Content, p.meta = q.meta, p.data = q.data
    PROVE  p = q
BY DEF Content

(* Programming the header or the marker of a bank leaves its image alone.  *)
LEMMA MetaReplaced ==
    ASSUME NEW p \in Content, NEW m \in [hdr : Headers, mark : BOOLEAN]
    PROVE  /\ Put(p, "meta", m) \in Content
           /\ Put(p, "meta", m) = [meta |-> m, data |-> p.data]
<1>1. Put(p, "meta", m) \in Content /\ [meta |-> m, data |-> p.data] \in Content
  BY DEF Content, Put
<1>2. Put(p, "meta", m).meta = m /\ Put(p, "meta", m).data = p.data
  BY DEF Content, Put
<1>3. QED
  BY <1>1, <1>2, SameContent

(* Programming the image of a bank leaves its header and its marker alone. *)
LEMMA DataReplaced ==
    ASSUME NEW p \in Content, NEW d \in Image \cup {Torn}
    PROVE  /\ Put(p, "data", d) \in Content
           /\ Put(p, "data", d) = [meta |-> p.meta, data |-> d]
<1>1. Put(p, "data", d) \in Content /\ [meta |-> p.meta, data |-> d] \in Content
  BY DEF Content, Put
<1>2. Put(p, "data", d).data = d /\ Put(p, "data", d).meta = p.meta
  BY DEF Content, Put
<1>3. QED
  BY <1>1, <1>2, SameContent

(* An erased bank is one of the contents, with no header and the blank     *)
(* image.                                                                  *)
LEMMA Blanks == Blank \in Image /\ NoMeta \in [hdr : Headers, mark : BOOLEAN] /\ ErasedSlot \in Content
BY DEF Blank, Image, NoMeta, Headers, ErasedSlot, Content

(* A driver call on bank b leaves the other one alone. *)
Only(b) ==
    /\ slot' \in [Slot -> Content] /\ may' \in [Slot -> SUBSET Content]
    /\ slot'[b] \in may'[b]
    /\ \A s \in Slot : s # b => slot'[s] = slot[s] /\ may'[s] = may[s]

(* flash.erase (flash_mirror.c), done or failed: what a power loss may     *)
(* leave in the bank is what it could be before, or has no header.         *)
LEMMA EraseLeaves ==
    ASSUME Medium, NEW b \in Slot, Erase(b) \/ EraseFails(b)
    PROVE  /\ Only(b)
           /\ \A p \in may'[b] : p \in may[b] \/ p.meta = NoMeta
           /\ Erase(b) => slot'[b] = ErasedSlot
<1> DEFINE steps == UNION {EraseSteps(o) : o \in may[b]}
<1>1. ASSUME NEW o \in Content
      PROVE EraseSteps(o) \subseteq Content /\ \A p \in EraseSteps(o) : p.meta = NoMeta
  BY Blanks DEF EraseSteps, Content
<1>2. steps \subseteq Content /\ \A p \in steps : p.meta = NoMeta
  BY <1>1 DEF Medium
<1>3. may' = [may EXCEPT ![b] = @ \cup steps]
  BY DEF Erase, EraseFails, Pending
<1>4. /\ may' \in [Slot -> SUBSET Content] /\ may'[b] = may[b] \cup steps
      /\ \A s \in Slot : s # b => may'[s] = may[s]
  BY <1>2, <1>3 DEF Medium
<1>5. \E r \in {slot[b]} \cup steps : slot' = [slot EXCEPT ![b] = r] /\ (Erase(b) => r = ErasedSlot)
  <2>1. EraseSteps(slot[b]) \subseteq steps
    BY DEF Medium
  <2>2. CASE Erase(b)
    <3>1. ErasedSlot \in EraseSteps(slot[b])
      BY DEF EraseSteps, ErasedSlot
    <3>2. QED
      BY <2>1, <2>2, <3>1 DEF Erase
  <2>3. CASE EraseFails(b) /\ ~Erase(b)
    BY <2>1, <2>3 DEF EraseFails
  <2>4. QED
    BY <2>2, <2>3
<1>6. QED
  <2>1. PICK r \in {slot[b]} \cup steps : slot' = [slot EXCEPT ![b] = r] /\ (Erase(b) => r = ErasedSlot)
    BY <1>5
  <2>2. /\ r \in Content /\ slot' \in [Slot -> Content] /\ slot'[b] = r
        /\ \A s \in Slot : s # b => slot'[s] = slot[s]
    BY <1>2, <2>1 DEF Medium
  <2>3. r \in may'[b]
    BY <1>4, <2>1 DEF Medium
  <2>4. QED
    BY <1>2, <1>4, <2>1, <2>2, <2>3 DEF Only

MetaAdds(b, new, torn) ==
    \A p \in may'[b] : \/ p \in may[b]
                       \/ \E o \in may[b] : /\ o.meta = slot[b].meta
                                            /\ p.meta \in {new, torn} /\ p.data = o.data

DataAdds(b, new, torn) ==
    \A p \in may'[b] : \/ p \in may[b]
                       \/ \E o \in may[b] : /\ o.data = slot[b].data
                                            /\ p.data \in {new, torn} /\ p.meta = o.meta

(* flash.program of a header or a marker, done, failed or cut.             *)
LEMMA MetaLeaves ==
    ASSUME Medium, NEW b \in Slot,
           NEW new \in [hdr : Headers, mark : BOOLEAN], NEW torn \in [hdr : Headers, mark : BOOLEAN],
           Program(b, "meta", new, torn) \/ ProgramFails(b, "meta", new, torn)
    PROVE  /\ Only(b)
           /\ MetaAdds(b, new, torn)
           /\ Program(b, "meta", new, torn) => slot'[b] = [meta |-> new, data |-> slot[b].data]
<1> DEFINE steps == {Put(o, "meta", v) : o \in {o \in may[b] : o["meta"] = slot[b]["meta"]}, v \in {new, torn}}
<1>1. \A p \in steps : /\ p \in Content
                       /\ \E o \in may[b] : o.meta = slot[b].meta /\ p.meta \in {new, torn} /\ p.data = o.data
  <2> SUFFICES ASSUME NEW o \in may[b], o["meta"] = slot[b]["meta"], NEW v \in {new, torn}
               PROVE  LET p == Put(o, "meta", v)
                      IN  p \in Content /\ o.meta = slot[b].meta /\ p.meta \in {new, torn} /\ p.data = o.data
    OBVIOUS
  <2>1. o \in Content /\ slot[b] \in Content
    BY DEF Medium
  <2>2. o.meta = slot[b].meta
    BY <2>1 DEF Content
  <2>3. QED
    BY <2>1, <2>2, MetaReplaced
<1>2. may' = [may EXCEPT ![b] = @ \cup steps]
  BY DEF Program, ProgramFails, Programmed, Pending
<1>3. /\ may' \in [Slot -> SUBSET Content] /\ may'[b] = may[b] \cup steps
      /\ \A s \in Slot : s # b => may'[s] = may[s]
  BY <1>1, <1>2 DEF Medium
<1>4. \A v \in {new, torn} : /\ [meta |-> v, data |-> slot[b].data] \in steps
                             /\ Put(slot[b], "meta", v) = [meta |-> v, data |-> slot[b].data]
  <2> SUFFICES ASSUME NEW v \in {new, torn}
               PROVE  /\ [meta |-> v, data |-> slot[b].data] \in steps
                      /\ Put(slot[b], "meta", v) = [meta |-> v, data |-> slot[b].data]
    OBVIOUS
  <2>1. slot[b] \in Content /\ slot[b] \in may[b]
    BY DEF Medium
  <2>2. Put(slot[b], "meta", v) = [meta |-> v, data |-> slot[b].data]
    BY <2>1, MetaReplaced
  <2>3. Put(slot[b], "meta", v) \in steps
    BY <2>1
  <2>4. QED
    BY <2>2, <2>3
<1> HIDE DEF steps
<1>5. \E r \in {slot[b]} \cup steps : slot' = [slot EXCEPT ![b] = r]
  <2>0. slot \in [Slot -> Content]
    BY DEF Medium
  <2>2. Put(slot[b], "meta", slot[b]["meta"]) = slot[b]
    BY <2>0 DEF Content, Put
  <2>3. CASE Program(b, "meta", new, torn)
    <3>1. slot' = [slot EXCEPT ![b] = Put(slot[b], "meta", new)]
      BY <2>3 DEF Program
    <3>2. Put(slot[b], "meta", new) \in steps
      BY <1>4
    <3>3. QED
      BY <3>1, <3>2
  <2>4. CASE ProgramFails(b, "meta", new, torn)
    <3>1. PICK v \in {slot[b]["meta"], new, torn} : slot' = [slot EXCEPT ![b] = Put(slot[b], "meta", v)]
      BY <2>4 DEF ProgramFails
    <3>2. Put(slot[b], "meta", v) \in {slot[b]} \cup steps
      BY <1>4, <2>2
    <3>3. QED
      BY <3>1, <3>2
  <2>5. QED
    BY <2>3, <2>4
<1>6. PICK r \in {slot[b]} \cup steps : slot' = [slot EXCEPT ![b] = r]
  BY <1>5
<1>7. /\ r \in Content /\ slot' \in [Slot -> Content] /\ slot'[b] = r
      /\ \A s \in Slot : s # b => slot'[s] = slot[s]
  BY <1>1, <1>6 DEF Medium
<1>8. r \in may'[b]
  BY <1>3, <1>6 DEF Medium
<1>9. Program(b, "meta", new, torn) => slot'[b] = [meta |-> new, data |-> slot[b].data]
  BY <1>4 DEF Program, Medium
<1>10. QED
  BY <1>1, <1>3, <1>7, <1>8, <1>9 DEF Only, MetaAdds

(* flash.program of an image, done, failed or cut.                         *)
LEMMA DataLeaves ==
    ASSUME Medium, NEW b \in Slot,
           NEW new \in Image \cup {Torn}, NEW torn \in Image \cup {Torn},
           Program(b, "data", new, torn) \/ ProgramFails(b, "data", new, torn)
    PROVE  /\ Only(b)
           /\ DataAdds(b, new, torn)
           /\ Program(b, "data", new, torn) => slot'[b] = [meta |-> slot[b].meta, data |-> new]
<1> DEFINE steps == {Put(o, "data", v) : o \in {o \in may[b] : o["data"] = slot[b]["data"]}, v \in {new, torn}}
<1>1. \A p \in steps : /\ p \in Content
                       /\ \E o \in may[b] : o.data = slot[b].data /\ p.data \in {new, torn} /\ p.meta = o.meta
  <2> SUFFICES ASSUME NEW o \in may[b], o["data"] = slot[b]["data"], NEW v \in {new, torn}
               PROVE  LET p == Put(o, "data", v)
                      IN  p \in Content /\ o.data = slot[b].data /\ p.data \in {new, torn} /\ p.meta = o.meta
    OBVIOUS
  <2>1. o \in Content /\ slot[b] \in Content
    BY DEF Medium
  <2>2. o.data = slot[b].data
    BY <2>1 DEF Content
  <2>3. QED
    BY <2>1, <2>2, DataReplaced
<1>2. may' = [may EXCEPT ![b] = @ \cup steps]
  BY DEF Program, ProgramFails, Programmed, Pending
<1>3. /\ may' \in [Slot -> SUBSET Content] /\ may'[b] = may[b] \cup steps
      /\ \A s \in Slot : s # b => may'[s] = may[s]
  BY <1>1, <1>2 DEF Medium
<1>4. \A v \in {new, torn} : /\ [meta |-> slot[b].meta, data |-> v] \in steps
                             /\ Put(slot[b], "data", v) = [meta |-> slot[b].meta, data |-> v]
  <2> SUFFICES ASSUME NEW v \in {new, torn}
               PROVE  /\ [meta |-> slot[b].meta, data |-> v] \in steps
                      /\ Put(slot[b], "data", v) = [meta |-> slot[b].meta, data |-> v]
    OBVIOUS
  <2>1. slot[b] \in Content /\ slot[b] \in may[b]
    BY DEF Medium
  <2>2. Put(slot[b], "data", v) = [meta |-> slot[b].meta, data |-> v]
    BY <2>1, DataReplaced
  <2>3. Put(slot[b], "data", v) \in steps
    BY <2>1
  <2>4. QED
    BY <2>2, <2>3
<1> HIDE DEF steps
<1>5. \E r \in {slot[b]} \cup steps : slot' = [slot EXCEPT ![b] = r]
  <2>0. slot \in [Slot -> Content]
    BY DEF Medium
  <2>2. Put(slot[b], "data", slot[b]["data"]) = slot[b]
    BY <2>0 DEF Content, Put
  <2>3. CASE Program(b, "data", new, torn)
    <3>1. slot' = [slot EXCEPT ![b] = Put(slot[b], "data", new)]
      BY <2>3 DEF Program
    <3>2. Put(slot[b], "data", new) \in steps
      BY <1>4
    <3>3. QED
      BY <3>1, <3>2
  <2>4. CASE ProgramFails(b, "data", new, torn)
    <3>1. PICK v \in {slot[b]["data"], new, torn} : slot' = [slot EXCEPT ![b] = Put(slot[b], "data", v)]
      BY <2>4 DEF ProgramFails
    <3>2. Put(slot[b], "data", v) \in {slot[b]} \cup steps
      BY <1>4, <2>2
    <3>3. QED
      BY <3>1, <3>2
  <2>5. QED
    BY <2>3, <2>4
<1>6. PICK r \in {slot[b]} \cup steps : slot' = [slot EXCEPT ![b] = r]
  BY <1>5
<1>7. /\ r \in Content /\ slot' \in [Slot -> Content] /\ slot'[b] = r
      /\ \A s \in Slot : s # b => slot'[s] = slot[s]
  BY <1>1, <1>6 DEF Medium
<1>8. r \in may'[b]
  BY <1>3, <1>6 DEF Medium
<1>9. Program(b, "data", new, torn) => slot'[b] = [meta |-> slot[b].meta, data |-> new]
  BY <1>4 DEF Program, Medium
<1>10. QED
  BY <1>1, <1>3, <1>7, <1>8, <1>9 DEF Only, DataAdds
-----------------------------------------------------------------------------
(* What a driver call of commit_image may add to its bank. *)
Written(p) ==
    \/ p.meta = NoMeta
    \/ step = "header" /\ p.meta = Header(FALSE)
    \/ step = "payload" /\ \E o \in may[bank] : o.data = Blank /\ p.meta = o.meta /\ p.data \in {workspace, Torn}
    \/ step = "marker" /\ p.meta \in {Header(TRUE), Header(FALSE)} /\ p.data = workspace

Driver == EraseBank \/ ProgramHeader \/ ProgramPayload \/ write_commit_marker \/ Fails

(* A driver call that returns LS_OK leads to the next one, any other to the *)
(* end of commit_image.                                                     *)
LEMMA DriverGoes ==
    ASSUME Driver
    PROVE  /\ step # "idle"
           /\ UNCHANGED <<mounted, active_bank, generation, bank, next_generation, workspace>>
           /\ attempted' = IF Fails /\ mounted THEN attempted \cup {workspace} ELSE attempted
           /\ Fails => step' = "idle"
           /\ ~Fails => \/ step = "erase" /\ step' = "header"
                        \/ step = "header" /\ step' = "payload"
                        \/ step = "payload" /\ step' = "sync"
                        \/ step = "marker" /\ step' = "commit"
<1>1. CASE Fails
  BY <1>1 DEF Fails, Abandon
<1>2. ASSUME Goes, step \in {"erase", "header", "payload", "marker"}
      PROVE  \/ step = "erase" /\ step' = "header"
             \/ step = "header" /\ step' = "payload"
             \/ step = "payload" /\ step' = "sync"
             \/ step = "marker" /\ step' = "commit"
  BY <1>2 DEF Goes, After
<1>3. CASE ~Fails
  <2>1. Goes /\ step \in {"erase", "header", "payload", "marker"}
    BY <1>3 DEF Driver, EraseBank, ProgramHeader, ProgramPayload, write_commit_marker
  <2>2. QED
    BY <1>2, <1>3, <2>1 DEF Goes
<1>4. QED
  BY <1>1, <1>3

(* The header that commit_bank writes names the image and its generation.  *)
LEMMA Headed ==
    ASSUME MirrorAssumption, Ram, NEW m \in BOOLEAN
    PROVE  /\ Header(m) \in [hdr : Headers, mark : BOOLEAN]
           /\ Header(m).hdr # NoHeader /\ Header(m).mark = m
           /\ Header(m).hdr.crc = workspace /\ Header(m).hdr.gen = next_generation
BY DEF MirrorAssumption, Ram, Header, Headers

(* What one driver call of commit_bank leaves, done or failed: only the    *)
(* bank of the commit changes, and only to what Written lists.             *)
LEMMA DriverWrites ==
    ASSUME MirrorAssumption, WInv, Driver
    PROVE  /\ Only(bank)
           /\ \A p \in may'[bank] : p \in may[bank] \/ Written(p)
           /\ ~Fails => /\ step = "erase" => slot'[bank] = ErasedSlot
                        /\ step = "header" => slot'[bank] = [meta |-> Header(FALSE), data |-> Blank]
                        /\ step = "payload" => slot'[bank] = [meta |-> Header(FALSE), data |-> workspace]
                        /\ step = "marker" => slot'[bank] = [meta |-> Header(TRUE), data |-> workspace]
<1> USE DEF WInv
<1>0. /\ bank \in Slot /\ workspace \in Image \cup {Torn} /\ Torn \in Image \cup {Torn}
      /\ Header(FALSE) \in [hdr : Headers, mark : BOOLEAN]
      /\ Header(TRUE) \in [hdr : Headers, mark : BOOLEAN]
      /\ NoMeta \in [hdr : Headers, mark : BOOLEAN]
  BY Headed, Blanks DEF Ram
<1>1. CASE step = "erase"
  <2>1. Erase(bank) \/ EraseFails(bank)
    BY <1>1 DEF Driver, EraseBank, ProgramHeader, ProgramPayload, write_commit_marker, Fails
  <2>2. ~Fails => Erase(bank)
    BY <1>1 DEF Driver, EraseBank, ProgramHeader, ProgramPayload, write_commit_marker
  <2>3. QED
    BY <1>0, <1>1, <2>1, <2>2, EraseLeaves DEF Written
<1>2. CASE step = "header"
  <2>1. Program(bank, "meta", Header(FALSE), NoMeta) \/ ProgramFails(bank, "meta", Header(FALSE), NoMeta)
    BY <1>2 DEF Driver, EraseBank, ProgramHeader, ProgramPayload, write_commit_marker, Fails
  <2>2. ~Fails => Program(bank, "meta", Header(FALSE), NoMeta)
    BY <1>2 DEF Driver, EraseBank, ProgramHeader, ProgramPayload, write_commit_marker
  <2>3. slot[bank].data = Blank
    BY <1>2 DEF Committing, ErasedSlot
  <2>4. /\ Only(bank)
        /\ MetaAdds(bank, Header(FALSE), NoMeta)
        /\ ~Fails => slot'[bank] = [meta |-> Header(FALSE), data |-> slot[bank].data]
    BY <1>0, <2>1, <2>2, MetaLeaves
  <2>5. QED
    BY <1>2, <2>3, <2>4 DEF Written, MetaAdds
<1>3. CASE step = "payload"
  <2>1. Program(bank, "data", workspace, Torn) \/ ProgramFails(bank, "data", workspace, Torn)
    BY <1>3 DEF Driver, EraseBank, ProgramHeader, ProgramPayload, write_commit_marker, Fails
  <2>2. ~Fails => Program(bank, "data", workspace, Torn)
    BY <1>3 DEF Driver, EraseBank, ProgramHeader, ProgramPayload, write_commit_marker
  <2>3. slot[bank].data = Blank /\ slot[bank].meta = Header(FALSE)
    <3>1. slot[bank] = [meta |-> Header(FALSE), data |-> Blank]
      BY <1>3 DEF Committing
    <3>2. QED
      BY <3>1
  <2>4. /\ Only(bank)
        /\ DataAdds(bank, workspace, Torn)
        /\ ~Fails => slot'[bank] = [meta |-> slot[bank].meta, data |-> workspace]
    BY <1>0, <2>1, <2>2, DataLeaves
  <2>5. QED
    BY <1>3, <2>3, <2>4 DEF Written, DataAdds
<1>4. CASE step = "marker"
  <2>1. \/ Program(bank, "meta", Header(TRUE), Header(FALSE))
        \/ ProgramFails(bank, "meta", Header(TRUE), Header(FALSE))
    BY <1>4 DEF Driver, EraseBank, ProgramHeader, ProgramPayload, write_commit_marker, Fails
  <2>2. ~Fails => Program(bank, "meta", Header(TRUE), Header(FALSE))
    BY <1>4 DEF Driver, EraseBank, ProgramHeader, ProgramPayload, write_commit_marker
  <2>3. slot[bank].data = workspace /\ may[bank] = {slot[bank]}
    BY <1>4 DEF Committing
  <2>4. /\ Only(bank)
        /\ MetaAdds(bank, Header(TRUE), Header(FALSE))
        /\ ~Fails => slot'[bank] = [meta |-> Header(TRUE), data |-> slot[bank].data]
    BY <1>0, <2>1, <2>2, MetaLeaves
  <2>5. QED
    BY <1>4, <2>3, <2>4 DEF Written, MetaAdds
<1>5. CASE step \in {"sync", "commit"}
  BY <1>0, <1>5 DEF Driver, EraseBank, ProgramHeader, ProgramPayload, write_commit_marker, Fails,
     Only, Medium
<1>6. QED
  BY <1>1, <1>2, <1>3, <1>4, <1>5
     DEF Driver, EraseBank, ProgramHeader, ProgramPayload, write_commit_marker, Fails

(* After a power loss nothing is held back any more.                       *)
LEMMA PowerLossLeaves ==
    ASSUME Medium, PowerLoss
    PROVE  /\ slot' \in [Slot -> Content]
           /\ \A s \in Slot : slot'[s] \in may[s] /\ may'[s] = {slot'[s]}
           /\ may' = [s \in Slot |-> {slot'[s]}]
BY DEF Medium, PowerLoss
-----------------------------------------------------------------------------
(* The reader's invariant.                                                  *)

(* An erased flash and a program that has not started satisfy WInv.        *)
LEMMA InitWInv == ASSUME MirrorAssumption, Init PROVE WInv
<1>1. Shaped(ErasedSlot)
  BY DEF Shaped, ErasedSlot, NoMeta
<1>2. Medium
  BY <1>1, Blanks DEF Init, Medium
<1>3. Ram
  <2>1. 0 \in Slot /\ 0 \in 0..(Modulus - 1)
    BY DEF MirrorAssumption
  <2>2. QED
    BY <2>1, Blanks DEF Init, Ram
<1>4. Committing /\ InUse
  BY DEF Init, Committing, InUse
<1>5. QED
  BY <1>2, <1>3, <1>4 DEF WInv

(* A payload that is programmed over a bank that only looks erased makes no *)
(* committed image out of anything.                                         *)
LEMMA WrittenShaped ==
    ASSUME MirrorAssumption, WInv, NEW p \in Content, Written(p)
    PROVE  Shaped(p)
<1>1. CASE p.meta = NoMeta
  BY <1>1 DEF Shaped, NoMeta
<1>2. CASE p.meta = Header(FALSE)
  BY <1>2, Headed DEF Shaped, WInv
<1>3. CASE p.meta = Header(TRUE) /\ p.data = workspace
  BY <1>3, Headed DEF Shaped, WInv
<1>4. ASSUME NEW o \in may[bank], o.data = Blank, p.meta = o.meta, p.data \in {workspace, Torn}
      PROVE  Shaped(p)
  <2>1. Shaped(o) /\ bank \in Slot
    BY DEF WInv, Medium, Ram
  <2>2. QED
    BY <1>4, <2>1 DEF Shaped
<1>5. QED
  BY <1>1, <1>2, <1>3, <1>4 DEF Written

(* The driver calls of a commit: the bank in use is never touched.         *)
LEMMA DriverKeepsWInv ==
    ASSUME MirrorAssumption, WInv, Driver
    PROVE  WInv'
<1> USE DEF WInv
<1>0. bank \in Slot /\ Slot = {0, 1}
  BY DEF Ram, MirrorAssumption
<1>1. Medium'
  <2>1. ASSUME NEW s \in Slot PROVE slot'[s] \in may'[s] /\ \A p \in may'[s] : Shaped(p)
    <3>1. CASE s # bank
      BY <3>1, DriverWrites DEF Only, Medium
    <3>2. CASE s = bank
      <4>1. /\ slot'[bank] \in may'[bank] /\ may'[bank] \subseteq Content
            /\ \A p \in may'[bank] : p \in may[bank] \/ Written(p)
        BY <1>0, DriverWrites DEF Only
      <4>2. \A p \in may'[bank] : Shaped(p)
        BY <1>0, <4>1, WrittenShaped DEF Medium
      <4>3. QED
        BY <3>2, <4>1, <4>2
    <3>3. QED
      BY <3>1, <3>2
  <2>2. QED
    BY <2>1, DriverWrites DEF Medium, Only
<1>2. /\ UNCHANGED <<mounted, active_bank, generation, bank, next_generation, workspace>>
      /\ attempted' \in {attempted, attempted \cup {workspace}}
      /\ Fails => step' = "idle"
  BY DriverGoes
<1>3. ~Fails => \/ step = "erase" /\ step' = "header"
                \/ step = "header" /\ step' = "payload"
                \/ step = "payload" /\ step' = "sync"
                \/ step = "marker" /\ step' = "commit"
  BY DriverGoes
<1>4. Ram'
  BY <1>2, <1>3 DEF Ram
<1>5. \A m \in BOOLEAN : Header(m)' = Header(m)
  BY <1>2 DEF Header
<1>6. Committing'
  <2>1. mounted /\ step # "idle" => bank = 1 - active_bank
    BY DEF Committing
  <2>2. CASE Fails
    BY <1>2, <2>2 DEF Committing
  <2>3. CASE ~Fails /\ step = "erase"
    BY <1>2, <1>3, <2>1, <2>3, DriverWrites DEF Committing, ErasedSlot, NoMeta, Blank
  <2>4. CASE ~Fails /\ step = "header"
    BY <1>2, <1>3, <1>5, <2>1, <2>4, DriverWrites DEF Committing, Blank
  <2>5. CASE ~Fails /\ step = "payload"
    BY <1>2, <1>3, <1>5, <2>1, <2>5, DriverWrites DEF Committing
  <2>6. CASE ~Fails /\ step = "marker"
    BY <1>2, <1>3, <1>5, <2>1, <2>6, DriverWrites DEF Committing
  <2>7. QED
    BY <1>3, <2>2, <2>3, <2>4, <2>5, <2>6
<1>7. InUse'
  <2>1. mounted => slot'[active_bank] = slot[active_bank]
    <3>1. step # "idle"
      BY DEF Driver, EraseBank, ProgramHeader, ProgramPayload, write_commit_marker, Fails
    <3>2. mounted => bank # active_bank
      BY <1>0, <3>1 DEF Committing, Ram
    <3>3. QED
      BY <3>2, DriverWrites DEF Only, Ram
  <2>2. QED
    BY <1>2, <2>1 DEF InUse, Valid, generation_of
<1>8. QED
  BY <1>1, <1>4, <1>6, <1>7

(* A bank that valid_bank accepts holds a whole image.                     *)
LEMMA ValidImage ==
    ASSUME NEW p \in Content, Valid(p)
    PROVE  p.data \in Image /\ p.meta.hdr.crc \in Image /\ p.meta.hdr.gen \in 0..(Modulus - 1)
<1>1. p.meta.hdr \in [gen : 0..(Modulus - 1), crc : Image]
  BY DEF Valid, Content, Headers
<1>2. QED
  BY <1>1 DEF Valid

(* ls_flash_mirror_init picks a bank that valid_bank accepts.              *)
LEMMA NewestValid ==
    ASSUME MirrorAssumption, Medium, valid_bank(0) \/ valid_bank(1)
    PROVE  /\ Newest \in Slot /\ Valid(slot[Newest])
           /\ slot[Newest].data \in Image /\ generation_of(Newest) \in 0..(Modulus - 1)
<1>1. Newest \in Slot /\ valid_bank(Newest)
  BY DEF Newest, MirrorAssumption
<1>2. Valid(slot[Newest]) /\ slot[Newest] \in Content
  BY <1>1 DEF valid_bank, Valid, Medium
<1>3. QED
  BY <1>1, <1>2, ValidImage DEF generation_of

(* What a reader sees is a whole image; once mounted, that of active_bank. *)
LEMMA VisibleImage ==
    ASSUME MirrorAssumption, WInv
    PROVE  Visible \in Image /\ (mounted => Visible = slot[active_bank].data)
<1>1. CASE mounted
  <2>1. slot[active_bank] \in Content /\ Valid(slot[active_bank])
    BY <1>1 DEF WInv, Medium, Ram, InUse
  <2>2. QED
    BY <1>1, <2>1, ValidImage DEF Visible
<1>2. CASE ~mounted
  BY <1>2, NewestValid, Blanks DEF Visible, WInv
<1>3. QED
  BY <1>1, <1>2

(* Every step keeps WInv: commits, mounts, power losses, warm restarts.    *)
LEMMA NextKeepsWInv ==
    ASSUME MirrorAssumption, WInv, [Next]_vars
    PROVE  WInv'
<1> USE DEF WInv
<1>0. Slot = {0, 1} /\ 0 \in 0..(Modulus - 1) /\ 1 \in 0..(Modulus - 1) /\ Modulus \in Nat \ {0}
  BY DEF MirrorAssumption
<1>1. CASE Driver
  BY <1>1, DriverKeepsWInv
<1>2. ASSUME UNCHANGED <<slot, may>> PROVE Medium'
  BY <1>2 DEF Medium
<1>3. CASE ls_flash_mirror_init
  <2>1. Medium' /\ step = "idle" /\ ~mounted /\ UNCHANGED <<slot, may, attempted>>
    BY <1>2, <1>3 DEF ls_flash_mirror_init
  <2>2. CASE valid_bank(0) \/ valid_bank(1)
    <3>1. /\ active_bank' = Newest /\ generation' = generation_of(Newest) /\ mounted'
          /\ UNCHANGED <<step, bank, next_generation, workspace>>
      BY <1>3, <2>2 DEF ls_flash_mirror_init
    <3>2. Ram'
      BY <2>1, <2>2, <3>1, NewestValid DEF Ram
    <3>3. Committing'
      BY <2>1, <3>1 DEF Committing
    <3>4. InUse'
      BY <2>1, <2>2, <3>1, NewestValid DEF InUse, generation_of, Valid
    <3>5. QED
      BY <2>1, <3>2, <3>3, <3>4
  <2>3. CASE ~(valid_bank(0) \/ valid_bank(1))
    <3>1. /\ active_bank' = 0 /\ generation' = 0 /\ bank' = 0 /\ next_generation' = 1
          /\ workspace' = Blank /\ step' = "erase" /\ mounted' = mounted
      BY <1>3, <2>3 DEF ls_flash_mirror_init, Commit
    <3>2. Ram'
      BY <1>0, <2>1, <3>1, Blanks DEF Ram
    <3>3. Committing' /\ InUse'
      BY <2>1, <3>1 DEF Committing, InUse
    <3>4. QED
      BY <2>1, <3>2, <3>3
  <2>4. QED
    BY <2>2, <2>3
<1>4. ASSUME NEW c \in Cell, NEW v \in Value \cup {Erased}, update_image(c, v) PROVE WInv'
  <2>1. /\ UNCHANGED <<slot, may, mounted, active_bank, generation, attempted>>
        /\ mounted /\ step' = "erase" /\ bank' = 1 - active_bank
        /\ next_generation' = (generation + 1) % Modulus
        /\ workspace' = [slot[active_bank].data EXCEPT ![c] = v]
    BY <1>4 DEF update_image, Commit
  <2>2. slot[active_bank].data \in Image
    BY <2>1, VisibleImage
  <2>3. workspace' \in Image
    BY <2>1, <2>2 DEF Image
  <2>4. Ram'
    BY <1>0, <2>1, <2>3 DEF Ram
  <2>5. Committing' /\ InUse' /\ Medium'
    BY <1>2, <2>1 DEF Committing, InUse, Valid, generation_of
  <2>6. QED
    BY <2>4, <2>5
<1>5. CASE SyncPayload
  <2>1. /\ step = "sync" /\ step' = "marker"
        /\ UNCHANGED <<slot, mounted, active_bank, generation, bank, next_generation, workspace, attempted>>
        /\ may' = [s \in Slot |-> {slot[s]}]
    BY <1>5 DEF SyncPayload, Sync, Goes, After
  <2>2. Medium'
    BY <2>1 DEF Medium
  <2>3. Ram'
    BY <2>1 DEF Ram
  <2>4. Header(FALSE)' = Header(FALSE)
    BY <2>1 DEF Header
  <2>5. Committing'
    BY <2>1, <2>4 DEF Committing, Ram
  <2>6. InUse'
    BY <2>1 DEF InUse, Valid, generation_of
  <2>7. QED
    BY <2>2, <2>3, <2>5, <2>6
<1>6. CASE SyncCommit
  <2>1. /\ step = "commit" /\ step' = "idle" /\ active_bank' = bank /\ generation' = next_generation
        /\ mounted' /\ attempted' = {} /\ UNCHANGED <<slot, bank, next_generation, workspace>>
        /\ may' = [s \in Slot |-> {slot[s]}]
    BY <1>6 DEF SyncCommit, Sync
  <2>2. Medium'
    BY <2>1 DEF Medium
  <2>3. Ram'
    BY <2>1 DEF Ram
  <2>4. Committing'
    BY <2>1 DEF Committing
  <2>5. slot[bank] = [meta |-> Header(TRUE), data |-> workspace]
    BY <2>1 DEF Committing
  <2>6. Valid(slot[bank]) /\ generation_of(bank) = next_generation
    <3>1. slot[bank].meta = Header(TRUE) /\ slot[bank].data = workspace
      BY <2>5
    <3>2. /\ Header(TRUE).hdr # NoHeader /\ Header(TRUE).mark
          /\ Header(TRUE).hdr.crc = workspace /\ Header(TRUE).hdr.gen = next_generation
      BY Headed
    <3>3. QED
      BY <3>1, <3>2 DEF Valid, generation_of
  <2>7. InUse'
    BY <2>1, <2>6 DEF InUse, Valid, generation_of
  <2>8. QED
    BY <2>2, <2>3, <2>4, <2>7
<1>7. ASSUME RamLost, Medium', attempted' \subseteq Image PROVE WInv'
  <2>1. Ram'
    BY <1>0, <1>7, Blanks DEF Ram, RamLost
  <2>2. Committing' /\ InUse'
    BY <1>7 DEF RamLost, Committing, InUse
  <2>3. QED
    BY <1>7, <2>1, <2>2
<1>8. CASE Crash
  <2>1. Medium'
    BY <1>8, PowerLossLeaves DEF Crash, Medium
  <2>2. QED
    BY <1>7, <1>8, <2>1 DEF Crash
<1>9. CASE Restart
  <2>1. attempted' \subseteq Image
    BY <1>9, VisibleImage DEF Restart, Current, Ram
  <2>2. QED
    BY <1>2, <1>7, <1>9, <2>1 DEF Restart
<1>10. CASE UNCHANGED vars
  BY <1>2, <1>10 DEF vars, ram, Ram, Committing, InUse, Valid, generation_of, Header
<1>11. QED
  BY <1>1, <1>3, <1>4, <1>5, <1>6, <1>8, <1>9, <1>10 DEF Next, Driver

(* WInv holds of every behaviour, whatever fails or restarts.              *)
THEOREM MirrorInvariant == ASSUME MirrorAssumption PROVE Spec => []WInv
<1>1. Init => WInv
  BY InitWInv
<1>2. WInv /\ [Next]_vars => WInv'
  BY NextKeepsWInv
<1>3. QED
  BY <1>1, <1>2, PTL DEF Spec

(* The reader of the mirror never sees a partially committed image,         *)
(* whatever driver call fails, wherever power is lost, and even when the    *)
(* program starts over while the driver holds writes back.                  *)
THEOREM MirrorWholeImageVisible == ASSUME MirrorAssumption PROVE Spec => []WholeImageVisible
<1>1. WInv => WholeImageVisible
  <2> SUFFICES ASSUME WInv, mounted
               PROVE  /\ slot[active_bank].data \in Image
                      /\ slot[active_bank].meta = [hdr |-> [gen |-> generation, crc |-> Visible], mark |-> TRUE]
    BY DEF WholeImageVisible
  <2>1. /\ slot[active_bank] \in Content /\ Valid(slot[active_bank])
        /\ slot[active_bank].meta.hdr.gen = generation
    BY DEF WInv, Medium, Ram, InUse, generation_of
  <2>2. slot[active_bank].data \in Image /\ Visible = slot[active_bank].data
    BY VisibleImage
  <2>3. slot[active_bank].meta.hdr = [gen |-> generation, crc |-> Visible]
    <3>1. slot[active_bank].meta.hdr \in [gen : 0..(Modulus - 1), crc : Image]
      BY <2>1 DEF Valid, Content, Headers
    <3>2. QED
      BY <2>1, <2>2, <3>1 DEF Valid
  <2>4. slot[active_bank].meta \in [hdr : Headers, mark : BOOLEAN] /\ slot[active_bank].meta.mark = TRUE
    BY <2>1 DEF Content, Valid
  <2>5. QED
    BY <2>2, <2>3, <2>4
<1>2. QED
  BY <1>1, MirrorInvariant, PTL
-----------------------------------------------------------------------------
Up(g) == (g + 1) % Modulus

(* Bank 0 holds the blank image of a first initialization, or is on the way *)
(* there, and bank 1 has never been committed.                              *)
Formatting(p) == p.meta.hdr = NoHeader \/ (p.meta.hdr.gen = 1 /\ p.meta.hdr.crc = Blank)
Unused(p) == ~p.meta.mark /\ (p.meta.hdr = NoHeader \/ p.meta.hdr.gen = 2)
Unformatted == (\A p \in may[0] : Formatting(p)) /\ \A p \in may[1] : Unused(p)

Adjacent(p, g) == p.meta.hdr = NoHeader \/ p.meta.hdr.gen = Up(g) \/ g = Up(p.meta.hdr.gen)

Intended == attempted \cup (IF step = "idle" THEN {} ELSE {workspace})

(* What a power loss may leave in the other bank. *)
Other == mounted => \A p \in may[1 - active_bank] :
    /\ Adjacent(p, generation)
    /\ Valid(p) /\ p.meta.hdr.gen = Up(generation) => p.data \in Intended

(* The bank in use outlives a power loss, unless it is the blank image of a *)
(* first initialization whose last sync failed.                             *)
Durable == mounted =>
    /\ \/ may[active_bank] = {slot[active_bank]}
       \/ active_bank = 0 /\ generation = 1 /\ Unformatted /\ step \notin {"marker", "commit"}
    /\ step # "idle" => next_generation = Up(generation)

(* Before ls_flash_mirror_init has returned LS_OK. *)
Settled ==
    /\ step = "idle"
    /\ \A s \in Slot : may[s] = {slot[s]}
    /\ \E a \in Slot : Valid(slot[a]) /\ Adjacent(slot[1 - a], generation_of(a))

Unmounted == ~mounted =>
    /\ attempted = {}
    /\ Settled \/ Unformatted
    /\ step # "idle" => bank = 0 /\ next_generation = 1 /\ workspace = Blank

GInv == WInv /\ Other /\ Durable /\ Unmounted
-----------------------------------------------------------------------------
(* Generations count modulo Modulus.                                        *)

(* What % computes within one Modulus on either side of its range.         *)
LEMMA Remainders ==
    ASSUME MirrorAssumption, NEW x \in Int
    PROVE  /\ 0 <= x /\ x < Modulus => x % Modulus = x
           /\ x < 0 /\ 0 <= x + Modulus => x % Modulus = x + Modulus
           /\ Modulus <= x /\ x < 2 * Modulus => x % Modulus = x - Modulus
<1>1. Modulus \in Nat /\ Modulus > 0
  BY DEF MirrorAssumption
<1>2. 0 <= x /\ x < Modulus => x % Modulus = x
  BY <1>1
<1>3. x < 0 /\ 0 <= x + Modulus => x % Modulus = x + Modulus
  BY <1>1
<1>4. Modulus <= x /\ x < 2 * Modulus => x % Modulus = x - Modulus
  BY <1>1
<1>5. QED
  BY <1>2, <1>3, <1>4

(* The next generation wraps from Modulus - 1 to 0.                        *)
LEMMA UpIs ==
    ASSUME MirrorAssumption, NEW g \in 0..(Modulus - 1)
    PROVE  /\ Up(g) \in 0..(Modulus - 1)
           /\ Up(g) = IF g = Modulus - 1 THEN 0 ELSE g + 1
<1>1. Modulus \in Nat /\ Modulus > 3
  BY DEF MirrorAssumption
<1>2. CASE g = Modulus - 1
  BY <1>1, <1>2, Remainders DEF Up
<1>3. CASE g # Modulus - 1
  BY <1>1, <1>3, Remainders DEF Up
<1>4. QED
  BY <1>1, <1>2, <1>3

(* The generation after that of the first image.                           *)
LEMMA UpOne == ASSUME MirrorAssumption PROVE Up(1) = 2
<1>1. Modulus \in Nat /\ Modulus > 3
  BY DEF MirrorAssumption
<1>2. Up(1) = 2 % Modulus
  BY DEF Up
<1>3. 2 % Modulus = 2
  BY <1>1
<1>4. QED
  BY <1>2, <1>3

(* The serial comparison of ls_flash_mirror_init puts a generation after   *)
(* the one before it, across the wrap too, and never the other way round.  *)
LEMMA UpNewer ==
    ASSUME MirrorAssumption, NEW g \in 0..(Modulus - 1), NEW h \in 0..(Modulus - 1), h = Up(g)
    PROVE  /\ Newer(h, g) /\ ~Newer(g, h)
           /\ g # Up(h) /\ g # h
           /\ (h - g) % Modulus = 1 /\ (g - h) % Modulus = Modulus - 1
<1>1. Modulus \in Nat /\ Modulus > 3
  BY DEF MirrorAssumption
<1>2. h = IF g = Modulus - 1 THEN 0 ELSE g + 1
  BY UpIs
<1>3. Up(h) = IF h = Modulus - 1 THEN 0 ELSE h + 1
  BY UpIs
<1>4. g # Up(h) /\ g # h
  BY <1>1, <1>2, <1>3
<1>5. (h - g) % Modulus = 1 /\ (g - h) % Modulus = Modulus - 1
  <2>1. CASE g = Modulus - 1
    <3>1. h - g = 1 - Modulus /\ g - h = Modulus - 1
      BY <1>1, <1>2, <2>1
    <3>2. (1 - Modulus) % Modulus = 1 /\ (Modulus - 1) % Modulus = Modulus - 1
      BY <1>1, Remainders
    <3>3. QED
      BY <3>1, <3>2
  <2>2. CASE g # Modulus - 1
    <3>1. h - g = 1 /\ g - h = -1
      BY <1>1, <1>2, <2>2
    <3>2. 1 % Modulus = 1 /\ (-1) % Modulus = Modulus - 1
      BY <1>1, Remainders
    <3>3. QED
      BY <3>1, <3>2
  <2>3. QED
    BY <2>1, <2>2
<1>6. 1 \in 1..(Modulus \div 2 - 1) /\ Modulus - 1 \notin 1..(Modulus \div 2 - 1)
  BY <1>1
<1>7. QED
  BY <1>4, <1>5, <1>6 DEF Newer
-----------------------------------------------------------------------------
(* What ls_flash_mirror_init finds.                                         *)

(* Between two committed banks, the one whose generation follows the other's *)
(* is taken.                                                                 *)
NewestFollows ==
    \A a \in Slot : Valid(slot[a]) /\ Adjacent(slot[1 - a], generation_of(a)) =>
        Newest = IF Valid(slot[1 - a]) /\ generation_of(1 - a) = Up(generation_of(a)) THEN 1 - a ELSE a

(* Between adjacent generations the serial comparison finds the later one. *)
LEMMA NewestOf == MirrorAssumption /\ Medium => NewestFollows
<1> SUFFICES ASSUME MirrorAssumption, Medium, NEW a \in Slot, Valid(slot[a]),
                    Adjacent(slot[1 - a], generation_of(a))
             PROVE  Newest = IF Valid(slot[1 - a]) /\ generation_of(1 - a) = Up(generation_of(a))
                             THEN 1 - a ELSE a
  BY DEF NewestFollows
<1>0. Slot = {0, 1} /\ 1 - a \in Slot /\ (a = 0 \/ a = 1)
  BY DEF MirrorAssumption
<1>1. generation_of(a) \in 0..(Modulus - 1)
  BY ValidImage DEF Medium, generation_of
<1>2. CASE ~Valid(slot[1 - a])
  BY <1>0, <1>2 DEF Newest, valid_bank, Valid
<1>3. CASE Valid(slot[1 - a])
  <2>1. generation_of(1 - a) \in 0..(Modulus - 1) /\ slot[1 - a].meta.hdr # NoHeader
    BY <1>0, <1>3, ValidImage DEF Medium, generation_of, Valid
  <2>2. valid_bank(0) /\ valid_bank(1)
    BY <1>0, <1>3 DEF valid_bank, Valid
  <2>3. CASE generation_of(1 - a) = Up(generation_of(a))
    <3>1. Newer(generation_of(1 - a), generation_of(a)) /\ ~Newer(generation_of(a), generation_of(1 - a))
      BY <1>1, <2>1, <2>3, UpNewer
    <3>2. QED
      BY <1>0, <1>3, <2>2, <2>3, <3>1 DEF Newest
  <2>4. CASE generation_of(a) = Up(generation_of(1 - a))
    <3>1. /\ Newer(generation_of(a), generation_of(1 - a)) /\ ~Newer(generation_of(1 - a), generation_of(a))
          /\ generation_of(1 - a) # Up(generation_of(a))
      BY <1>1, <2>1, <2>4, UpNewer
    <3>2. QED
      BY <1>0, <2>2, <3>1 DEF Newest
  <2>5. QED
    BY <2>1, <2>3, <2>4 DEF Adjacent, generation_of
<1>4. QED
  BY <1>2, <1>3

(* Nothing but the blank image can be found before the first commit that    *)
(* was acknowledged.                                                        *)
LEMMA NothingCommitted ==
    MirrorAssumption /\ Medium /\ Unformatted =>
        /\ ~Valid(slot[1]) /\ ~valid_bank(1)
        /\ Valid(slot[0]) => slot[0].data = Blank /\ generation_of(0) = 1
        /\ valid_bank(0) => Newest = 0 /\ Valid(slot[0])
        /\ ~mounted => Visible = Blank
<1> SUFFICES ASSUME MirrorAssumption, Medium, Unformatted
             PROVE  /\ ~Valid(slot[1]) /\ ~valid_bank(1)
                    /\ Valid(slot[0]) => slot[0].data = Blank /\ generation_of(0) = 1
                    /\ valid_bank(0) => Newest = 0 /\ Valid(slot[0])
                    /\ ~mounted => Visible = Blank
  OBVIOUS
<1>1. Formatting(slot[0]) /\ Unused(slot[1])
  BY DEF Medium, MirrorAssumption, Unformatted
<1>2. ~Valid(slot[1]) /\ ~valid_bank(1)
  BY <1>1 DEF Unused, Valid, valid_bank
<1>3. Valid(slot[0]) => slot[0].data = Blank /\ generation_of(0) = 1
  BY <1>1 DEF Formatting, Valid, generation_of
<1>4. valid_bank(0) => Newest = 0 /\ Valid(slot[0])
  BY <1>2 DEF Newest, valid_bank, Valid
<1>5. ~mounted => Visible = Blank
  BY <1>2, <1>3, <1>4 DEF Visible
<1>6. QED
  BY <1>2, <1>3, <1>4, <1>5
-----------------------------------------------------------------------------
(* The invariant of the two banks.                                          *)

(* An erased flash and a program that has not started satisfy GInv.        *)
LEMMA InitGInv == ASSUME MirrorAssumption, Init PROVE GInv
<1>1. Formatting(ErasedSlot) /\ Unused(ErasedSlot)
  BY DEF Formatting, Unused, ErasedSlot, NoMeta
<1>2. Unformatted
  BY <1>1 DEF Init, Unformatted, MirrorAssumption
<1>3. QED
  BY <1>2, InitWInv DEF Init, GInv, Other, Durable, Unmounted

(* A commit on a mounted mirror only adds banks of the next generation, and *)
(* a committed one among them holds the image being written.                *)
LEMMA WrittenNext ==
    ASSUME MirrorAssumption, GInv, mounted, step # "idle", NEW p \in Content, Written(p)
    PROVE  /\ Adjacent(p, generation)
           /\ Valid(p) /\ p.meta.hdr.gen = Up(generation) => p.data = workspace
           /\ Unformatted /\ step # "marker" /\ generation = 1 /\ bank = 1 => Unused(p)
<1>0. WInv /\ Ram /\ next_generation = Up(generation) /\ Up(1) = 2
  BY UpOne DEF GInv, WInv, Durable
<1>1. CASE p.meta = NoMeta
  BY <1>1 DEF Adjacent, Valid, Unused, NoMeta
<1>2. CASE p.meta = Header(FALSE)
  <2>1. ~p.meta.mark /\ p.meta.hdr.gen = next_generation
    BY <1>0, <1>2, Headed
  <2>2. QED
    BY <1>0, <2>1 DEF Adjacent, Valid, Unused
<1>3. CASE step = "marker" /\ p.meta = Header(TRUE) /\ p.data = workspace
  <2>1. p.meta.hdr.gen = next_generation
    BY <1>0, <1>3, Headed
  <2>2. QED
    BY <1>0, <1>3, <2>1 DEF Adjacent
<1>4. ASSUME NEW o \in may[bank], p.meta = o.meta, p.data \in {workspace, Torn}
      PROVE  /\ Adjacent(p, generation)
             /\ Valid(p) => p.data = workspace
             /\ Unformatted /\ bank = 1 => Unused(p)
  <2>1. bank = 1 - active_bank
    BY DEF GInv, WInv, Committing
  <2>2. Adjacent(o, generation)
    BY <2>1 DEF GInv, Other
  <2>3. Valid(p) => p.data # Torn
    BY ValidImage DEF MirrorAssumption
  <2>4. QED
    BY <1>4, <2>2, <2>3 DEF Adjacent, Unformatted, Unused
<1>5. QED
  BY <1>1, <1>2, <1>3, <1>4 DEF Written

(* The commit of a first initialization only adds its header. *)
LEMMA WrittenFirst ==
    ASSUME MirrorAssumption, GInv, ~mounted, step # "idle", NEW p \in Content, Written(p)
    PROVE  Formatting(p)
<1>0. Ram /\ next_generation = 1 /\ workspace = Blank /\ bank = 0 /\ Unformatted
  BY DEF GInv, WInv, Unmounted, Settled
<1>1. CASE p.meta = NoMeta
  BY <1>1 DEF Formatting, NoMeta
<1>2. ASSUME NEW m \in BOOLEAN, p.meta = Header(m) PROVE Formatting(p)
  BY <1>0, <1>2, Headed DEF Formatting
<1>3. ASSUME NEW o \in may[bank], p.meta = o.meta PROVE Formatting(p)
  BY <1>0, <1>3 DEF Unformatted, Formatting
<1>4. QED
  BY <1>1, <1>2, <1>3 DEF Written

(* The driver calls of a commit keep GInv; those of the first              *)
(* initialization leave nothing that a later mount could take for a        *)
(* commit.                                                                 *)
LEMMA DriverKeepsGInv ==
    ASSUME MirrorAssumption, GInv, Driver
    PROVE  GInv' /\ (~mounted => Unformatted')
<1> USE DEF GInv
<1>0. Slot = {0, 1} /\ bank \in Slot /\ active_bank \in Slot /\ WInv'
  BY DriverKeepsWInv DEF WInv, Ram, MirrorAssumption
<1>1. /\ step # "idle"
      /\ UNCHANGED <<mounted, active_bank, generation, bank, next_generation, workspace>>
      /\ attempted' = IF Fails /\ mounted THEN attempted \cup {workspace} ELSE attempted
      /\ Fails => step' = "idle"
      /\ ~Fails => step' # "idle"
      /\ step \notin {"marker", "commit"} => step' \notin {"marker", "commit"}
  BY DriverGoes
<1>2. /\ Only(bank) /\ may'[bank] \subseteq Content
      /\ \A p \in may'[bank] : p \in may[bank] \/ Written(p)
  BY <1>0, DriverWrites DEF Only
<1>3. CASE mounted
  <2>0. bank = 1 - active_bank /\ bank # active_bank
    BY <1>0, <1>1, <1>3 DEF WInv, Committing
  <2>1. slot'[active_bank] = slot[active_bank] /\ may'[active_bank] = may[active_bank]
    BY <1>0, <1>2, <2>0 DEF Only
  <2>2. workspace \in Intended' /\ Intended \subseteq Intended'
    BY <1>1, <1>3 DEF Intended
  <2>3. ASSUME NEW p \in may'[bank]
        PROVE  /\ Adjacent(p, generation)
               /\ Valid(p) /\ p.meta.hdr.gen = Up(generation) => p.data \in Intended'
    <3>1. CASE p \in may[bank]
      BY <1>3, <2>0, <2>2, <3>1 DEF Other
    <3>2. CASE Written(p)
      BY <1>1, <1>2, <1>3, <2>2, <3>2, WrittenNext
    <3>3. QED
      BY <1>2, <3>1, <3>2
  <2>4. Other'
    BY <1>1, <2>0, <2>3 DEF Other, Adjacent, Valid, Up
  <2>5. Durable'
    <3>1. step' # "idle" => next_generation' = Up(generation)'
      BY <1>1, <1>3 DEF Durable, Up
    <3>2. CASE may[active_bank] = {slot[active_bank]}
      BY <1>1, <2>1, <3>1, <3>2 DEF Durable
    <3>3. CASE active_bank = 0 /\ generation = 1 /\ Unformatted /\ step \notin {"marker", "commit"}
      <4>1. bank = 1
        BY <2>0, <3>3
      <4>2. \A p \in may'[1] : Unused(p)
        BY <1>1, <1>2, <1>3, <3>3, <4>1, WrittenNext DEF Unformatted
      <4>3. Unformatted'
        BY <2>1, <3>3, <4>2 DEF Unformatted, Formatting, Unused
      <4>4. step' \notin {"marker", "commit"}
        BY <1>1, <3>3
      <4>5. QED
        BY <1>1, <3>1, <3>3, <4>3, <4>4 DEF Durable
    <3>4. QED
      BY <1>3, <3>2, <3>3 DEF Durable
  <2>6. QED
    BY <1>0, <1>1, <1>3, <2>4, <2>5 DEF Unmounted
<1>4. CASE ~mounted
  <2>1. Unformatted /\ bank = 0 /\ attempted = {} /\ next_generation = 1 /\ workspace = Blank
    BY <1>1, <1>4 DEF Unmounted, Settled
  <2>2. \A p \in may'[0] : Formatting(p)
    BY <1>1, <1>2, <1>4, <2>1, WrittenFirst DEF Unformatted
  <2>3. may'[1] = may[1]
    BY <1>0, <1>2, <2>1 DEF Only
  <2>4. Unformatted'
    BY <2>1, <2>2, <2>3 DEF Unformatted, Formatting, Unused
  <2>5. QED
    BY <1>0, <1>1, <1>4, <2>1, <2>4 DEF Other, Durable, Unmounted, Blank
<1>5. QED
  BY <1>3, <1>4

(* ls_flash_mirror_init mounts the bank that GInv is about.                *)
LEMMA InitKeepsGInv ==
    ASSUME MirrorAssumption, GInv, ls_flash_mirror_init, WInv'
    PROVE  GInv'
<1> USE DEF GInv
<1>0. /\ Slot = {0, 1} /\ Medium /\ ~mounted /\ step = "idle" /\ attempted = {}
      /\ UNCHANGED <<slot, may, attempted>>
  BY DEF WInv, ls_flash_mirror_init, MirrorAssumption, Unmounted
<1>1. CASE valid_bank(0) \/ valid_bank(1)
  <2>1. active_bank' = Newest /\ generation' = generation_of(Newest) /\ mounted' /\ step' = "idle"
    BY <1>0, <1>1 DEF ls_flash_mirror_init
  <2>2. CASE Settled
    <3>1. PICK a \in Slot : Valid(slot[a]) /\ Adjacent(slot[1 - a], generation_of(a))
      BY <2>2 DEF Settled
    <3>2. Newest = IF Valid(slot[1 - a]) /\ generation_of(1 - a) = Up(generation_of(a)) THEN 1 - a ELSE a
      BY <1>0, <3>1, NewestOf DEF NewestFollows
    <3>3. /\ Newest \in Slot /\ 1 - Newest \in Slot
          /\ Adjacent(slot[1 - Newest], generation_of(Newest))
          /\ ~(Valid(slot[1 - Newest]) /\ generation_of(1 - Newest) = Up(generation_of(Newest)))
      <4>1. CASE Newest = a
        BY <1>0, <3>1, <3>2, <4>1
      <4>2. CASE Newest # a
        <5>1. /\ Newest = 1 - a /\ 1 - Newest = a /\ Valid(slot[1 - a])
              /\ generation_of(1 - a) = Up(generation_of(a))
          BY <1>0, <3>2, <4>2
        <5>2. generation_of(a) \in 0..(Modulus - 1) /\ generation_of(1 - a) \in 0..(Modulus - 1)
          BY <1>0, <3>1, <5>1, ValidImage DEF Medium, generation_of
        <5>3. generation_of(a) # Up(generation_of(1 - a))
          BY <5>1, <5>2, UpNewer
        <5>4. QED
          BY <1>0, <5>1, <5>3 DEF Adjacent, generation_of
      <4>3. QED
        BY <4>1, <4>2
    <3>4. Other'
      <4>1. may'[1 - Newest] = {slot[1 - Newest]}
        BY <1>0, <2>2, <3>3 DEF Settled
      <4>2. QED
        BY <2>1, <3>3, <4>1 DEF Other, Adjacent, Valid, Up, generation_of
    <3>5. Durable'
      BY <1>0, <2>1, <2>2, <3>3 DEF Durable, Settled
    <3>6. QED
      BY <2>1, <3>4, <3>5 DEF Unmounted
  <2>3. CASE Unformatted
    <3>1. Newest = 0 /\ generation' = 1 /\ active_bank' = 0
      BY <1>0, <1>1, <2>1, <2>3, NothingCommitted
    <3>2. \A p \in may[1] : Adjacent(p, 1) /\ ~Valid(p)
      BY <2>3, UpOne DEF Unformatted, Unused, Adjacent, Valid
    <3>3. Unformatted'
      BY <1>0, <2>3 DEF Unformatted, Formatting, Unused
    <3>4. Other'
      BY <1>0, <3>1, <3>2 DEF Other, Adjacent, Valid, Up
    <3>5. Durable'
      BY <2>1, <3>1, <3>3 DEF Durable
    <3>6. QED
      BY <2>1, <3>4, <3>5 DEF Unmounted
  <2>4. QED
    BY <1>0, <2>2, <2>3 DEF Unmounted
<1>2. CASE ~(valid_bank(0) \/ valid_bank(1))
  <2>1. bank' = 0 /\ next_generation' = 1 /\ workspace' = Blank /\ mounted' = mounted
    BY <1>2 DEF ls_flash_mirror_init, Commit
  <2>2. ~Settled
    BY <1>0, <1>2 DEF Settled, valid_bank, Valid
  <2>3. Unformatted'
    BY <1>0, <2>2 DEF Unmounted, Unformatted, Formatting, Unused
  <2>4. QED
    BY <1>0, <2>1, <2>3 DEF Other, Durable, Unmounted, Blank
<1>3. QED
  BY <1>1, <1>2

(* The two syncs of commit_bank: the payload is durable before the marker, *)
(* and the marker before the bank is used.                                 *)
LEMMA SyncsKeepGInv ==
    ASSUME MirrorAssumption, GInv, SyncPayload \/ SyncCommit, WInv'
    PROVE  GInv'
<1> USE DEF GInv
<1>0. /\ Slot = {0, 1} /\ active_bank \in Slot /\ bank \in Slot /\ Medium
      /\ slot' = slot /\ \A s \in Slot : may'[s] = {slot[s]} /\ slot[s] \in may[s]
  BY DEF WInv, Medium, Ram, SyncPayload, SyncCommit, Sync, MirrorAssumption
<1>1. Unformatted => Unformatted'
  BY <1>0 DEF Unformatted, Formatting, Unused
<1>2. CASE SyncPayload
  <2>1. /\ step = "sync" /\ step' = "marker"
        /\ UNCHANGED <<mounted, active_bank, generation, bank, next_generation, workspace, attempted>>
    BY <1>2 DEF SyncPayload, Goes, After
  <2>2. Other'
    BY <1>0, <2>1 DEF Other, Adjacent, Valid, Up, Intended
  <2>3. Durable'
    BY <1>0, <2>1 DEF Durable, Up
  <2>4. Unmounted'
    BY <1>1, <2>1 DEF Unmounted, Settled, Blank
  <2>5. QED
    BY <2>2, <2>3, <2>4
<1>3. CASE SyncCommit
  <2>1. /\ step = "commit" /\ step' = "idle" /\ active_bank' = bank
        /\ generation' = next_generation /\ mounted'
    BY <1>3 DEF SyncCommit
  <2>2. Durable' /\ Unmounted'
    BY <1>0, <2>1 DEF Durable, Unmounted
  <2>3. /\ Adjacent(slot[1 - bank], next_generation)
        /\ ~(Valid(slot[1 - bank]) /\ slot[1 - bank].meta.hdr.gen = Up(next_generation))
    <3>1. CASE mounted
      <4>1. /\ 1 - bank = active_bank /\ next_generation = Up(generation)
            /\ slot[active_bank].meta.hdr.gen = generation
        BY <1>0, <2>1, <3>1 DEF WInv, Committing, InUse, generation_of, Durable
      <4>2. generation # Up(next_generation)
        BY <4>1, UpNewer DEF WInv, Ram
      <4>3. QED
        BY <4>1, <4>2 DEF Adjacent
    <3>2. CASE ~mounted
      <4>1. bank = 0 /\ next_generation = 1 /\ Unused(slot[1])
        BY <1>0, <2>1, <3>2 DEF Unmounted, Settled, Unformatted
      <4>2. QED
        BY <4>1, UpOne DEF Unused, Adjacent, Valid
    <3>3. QED
      BY <3>1, <3>2
  <2>4. Other'
    BY <1>0, <2>1, <2>3 DEF Other, Adjacent, Valid, Up
  <2>5. QED
    BY <2>2, <2>4
<1>4. QED
  BY <1>2, <1>3

(* A power loss keeps the bank in use, or there has been nothing but the    *)
(* blank image.                                                             *)
LEMMA CrashLeaves ==
    ASSUME MirrorAssumption, GInv, PowerLoss
    PROVE  /\ \A s \in Slot : slot'[s] \in may[s] /\ may'[s] = {slot'[s]}
           /\ \/ Unformatted /\ Unformatted'
              \/ \E a \in Slot :
                    /\ slot'[a] = slot[a] /\ Valid(slot[a]) /\ Adjacent(slot'[1 - a], generation_of(a))
                    /\ mounted => a = active_bank
                    /\ ~mounted => slot'[1 - a] = slot[1 - a]
<1> USE DEF GInv
<1>0. Slot = {0, 1} /\ Medium /\ \A s \in Slot : slot'[s] \in may[s] /\ may'[s] = {slot'[s]}
  BY PowerLossLeaves DEF WInv, MirrorAssumption
<1>1. CASE Unformatted
  BY <1>0, <1>1 DEF Unformatted, Formatting, Unused
<1>2. CASE mounted /\ ~Unformatted
  <2>1. /\ active_bank \in Slot /\ Valid(slot[active_bank]) /\ generation_of(active_bank) = generation
        /\ may[active_bank] = {slot[active_bank]}
    BY <1>2 DEF WInv, Ram, InUse, Durable
  <2>2. slot'[active_bank] = slot[active_bank] /\ Adjacent(slot'[1 - active_bank], generation)
    BY <1>0, <1>2, <2>1 DEF Other
  <2>3. QED
    BY <1>0, <1>2, <2>1, <2>2
<1>3. CASE ~mounted /\ ~Unformatted
  <2>1. PICK a \in Slot : Valid(slot[a]) /\ Adjacent(slot[1 - a], generation_of(a))
    BY <1>3 DEF Unmounted, Settled
  <2>2. slot'[a] = slot[a] /\ slot'[1 - a] = slot[1 - a]
    BY <1>0, <1>3 DEF Unmounted, Settled
  <2>3. QED
    BY <1>0, <1>3, <2>1, <2>2
<1>4. QED
  BY <1>1, <1>2, <1>3

(* Every step keeps GInv, unless the program restarts while the driver     *)
(* holds writes back.                                                      *)
LEMMA NextKeepsGInv ==
    ASSUME MirrorAssumption, ~WarmRestart, GInv, [Next]_vars
    PROVE  GInv'
<1> USE DEF GInv
<1>0. WInv'
  BY NextKeepsWInv
<1>1. CASE Driver
  BY <1>1, DriverKeepsGInv
<1>2. CASE ls_flash_mirror_init
  BY <1>0, <1>2, InitKeepsGInv
<1>3. CASE SyncPayload \/ SyncCommit
  BY <1>0, <1>3, SyncsKeepGInv
<1>4. ASSUME NEW c \in Cell, NEW v \in Value \cup {Erased}, update_image(c, v) PROVE GInv'
  <2>1. /\ UNCHANGED <<slot, may, mounted, active_bank, generation, attempted>>
        /\ mounted /\ step = "idle" /\ step' = "erase"
        /\ next_generation' = (generation + 1) % Modulus
    BY <1>4 DEF update_image, Commit
  <2>2. Other'
    BY <2>1 DEF Other, Adjacent, Valid, Up, Intended
  <2>3. Unformatted => Unformatted'
    BY <2>1 DEF Unformatted, Formatting, Unused
  <2>4. Durable'
    BY <2>1, <2>3 DEF Durable, Up
  <2>5. QED
    BY <1>0, <2>1, <2>2, <2>4 DEF Unmounted
<1>5. CASE Crash
  <2>1. ~mounted' /\ attempted' = {} /\ step' = "idle"
    BY <1>5 DEF Crash, RamLost
  <2>2. Unformatted' \/ Settled'
    <3>1. /\ \A s \in Slot : may'[s] = {slot'[s]}
          /\ \/ Unformatted'
             \/ \E a \in Slot : slot'[a] = slot[a] /\ Valid(slot[a]) /\ Adjacent(slot'[1 - a], generation_of(a))
      BY <1>5, CrashLeaves DEF Crash
    <3>2. QED
      BY <2>1, <3>1 DEF Settled, Valid, Adjacent, Up, generation_of
  <2>3. QED
    BY <1>0, <2>1, <2>2 DEF Other, Durable, Unmounted
<1>6. CASE UNCHANGED vars
  <2>1. UNCHANGED <<slot, may, mounted, step, active_bank, generation, bank, next_generation, workspace, attempted>>
    BY <1>6 DEF vars, ram
  <2>2. Unformatted' = Unformatted /\ Settled' = Settled
    BY <2>1 DEF Unformatted, Formatting, Unused, Settled, Valid, Adjacent, Up, generation_of
  <2>3. Other' /\ Durable'
    BY <2>1, <2>2 DEF Other, Durable, Adjacent, Valid, Up, Intended
  <2>4. Unmounted'
    BY <2>1, <2>2 DEF Unmounted, Blank
  <2>5. QED
    BY <1>0, <2>3, <2>4
<1>7. ~Restart
  BY DEF Restart
<1>8. QED
  BY <1>1, <1>2, <1>3, <1>4, <1>5, <1>6, <1>7 DEF Next, Driver

(* GInv holds of every behaviour in which the RAM is only lost with power.  *)
THEOREM MirrorBanks == ASSUME MirrorAssumption, ~WarmRestart PROVE Spec => []GInv
<1>1. Init => GInv
  BY InitGInv
<1>2. GInv /\ [Next]_vars => GInv'
  BY NextKeepsGInv
<1>3. QED
  BY <1>1, <1>2, PTL DEF Spec

(* Whatever failed before, a header that a power loss may leave in the      *)
(* other bank is one generation away from the one in use, so that the       *)
(* serial comparison of ls_flash_mirror_init is never ambiguous, for any    *)
(* even width of the counter.                                               *)
THEOREM MirrorGenerationsAdjacent ==
    ASSUME MirrorAssumption, ~WarmRestart PROVE Spec => []GenerationsAdjacent
<1>1. GInv => GenerationsAdjacent
  <2> SUFFICES ASSUME GInv, mounted, NEW o \in may[1 - active_bank], o.meta # NoMeta
               PROVE  (o.meta.hdr.gen - generation) % Modulus \in {1, Modulus - 1}
    BY DEF GInv, WInv, InUse, GenerationsAdjacent
  <2>1. 1 - active_bank \in Slot /\ generation \in 0..(Modulus - 1)
    BY DEF GInv, WInv, Ram, MirrorAssumption
  <2>2. o \in Content /\ Shaped(o) /\ Adjacent(o, generation)
    BY <2>1 DEF GInv, WInv, Medium, Other
  <2>3. o.meta.hdr # NoHeader
    BY <2>2 DEF Shaped, Content, NoMeta
  <2>4. o.meta.hdr.gen \in 0..(Modulus - 1)
    BY <2>2, <2>3 DEF Content, Headers
  <2>5. CASE o.meta.hdr.gen = Up(generation)
    BY <2>1, <2>4, <2>5, UpNewer
  <2>6. CASE generation = Up(o.meta.hdr.gen)
    BY <2>1, <2>4, <2>6, UpNewer
  <2>7. QED
    BY <2>2, <2>3, <2>5, <2>6 DEF Adjacent
<1>2. QED
  BY <1>1, MirrorBanks, PTL
-----------------------------------------------------------------------------
Store == INSTANCE ImageStore WITH image <- Visible, current <- Current

(* The image that a read returns after a power loss. *)
LEMMA CrashVisible ==
    ASSUME MirrorAssumption, GInv, GInv', Crash
    PROVE  Visible' \in {Visible} \cup attempted \cup ({Current} \ {NoImage})
<1> USE DEF GInv
<1>0. /\ Slot = {0, 1} /\ Medium /\ Medium' /\ ~mounted' /\ PowerLoss
      /\ (MirrorAssumption => MirrorAssumption')
  BY DEF WInv, Crash, RamLost, MirrorAssumption
<1>1. CASE Unformatted /\ Unformatted'
  <2>1. Visible' = Blank
    <3>1. (MirrorAssumption /\ Medium /\ Unformatted => (~mounted => Visible = Blank))'
      BY NothingCommitted, PTL
    <3>2. QED
      BY <1>0, <1>1, <3>1 DEF Blank
  <2>2. mounted => Visible = Blank
    <3>1. mounted => active_bank \in Slot /\ Valid(slot[active_bank]) /\ Visible = slot[active_bank].data
      BY DEF WInv, Ram, InUse, Visible
    <3>2. QED
      BY <1>0, <1>1, <3>1, NothingCommitted
  <2>3. ~mounted => Visible = Blank
    BY <1>0, <1>1, NothingCommitted
  <2>4. QED
    BY <2>1, <2>2, <2>3
<1>2. ASSUME NEW a \in Slot, slot'[a] = slot[a], Valid(slot[a]), Adjacent(slot'[1 - a], generation_of(a)),
             mounted => a = active_bank, ~mounted => slot'[1 - a] = slot[1 - a]
      PROVE  Visible' \in {Visible} \cup attempted \cup ({Current} \ {NoImage})
  <2>1. CASE ~mounted
    <3>1. slot' = slot
      BY <1>0, <1>2, <2>1 DEF Medium
    <3>2. QED
      BY <1>0, <2>1, <3>1 DEF Visible, valid_bank, Newest, generation_of, Newer, Blank
  <2>2. CASE mounted
    <3>1. /\ valid_bank(a)'
          /\ Newest' = IF Valid(slot'[1 - a]) /\ slot'[1 - a].meta.hdr.gen = Up(generation_of(a))
                        THEN 1 - a ELSE a
      <4>1. (MirrorAssumption /\ Medium => NewestFollows)'
        BY NewestOf, PTL
      <4>2. Valid(slot[a])' /\ Adjacent(slot[1 - a], generation_of(a))' /\ valid_bank(a)'
        BY <1>2 DEF Valid, Adjacent, generation_of, Up, valid_bank
      <4>3. QED
        BY <1>0, <1>2, <4>1, <4>2 DEF NewestFollows, Valid, Up, generation_of
    <3>2. Visible' = slot'[Newest'].data
      BY <1>0, <3>1 DEF Visible
    <3>3. a = active_bank /\ generation_of(a) = generation /\ Visible = slot[a].data
      BY <1>2, <2>2 DEF WInv, InUse, Visible
    <3>4. CASE Newest' = a
      BY <1>2, <3>2, <3>3, <3>4
    <3>5. CASE Newest' # a
      <4>1. Newest' = 1 - a /\ Valid(slot'[1 - a]) /\ slot'[1 - a].meta.hdr.gen = Up(generation)
        BY <3>1, <3>3, <3>5
      <4>2. slot'[1 - a] \in may[1 - a]
        BY <1>0, CrashLeaves
      <4>3. slot'[1 - a].data \in Intended
        BY <2>2, <3>3, <4>1, <4>2 DEF Other
      <4>4. workspace # NoImage
        BY DEF WInv, Ram, MirrorAssumption
      <4>5. QED
        BY <2>2, <3>2, <4>1, <4>3, <4>4 DEF Intended, Current
    <3>6. QED
      BY <3>4, <3>5
  <2>3. QED
    BY <2>1, <2>2
<1>3. QED
  BY <1>0, <1>1, <1>2, CrashLeaves

(* Every step of the mirror is a step of the image store, or none. *)
LEMMA StoreStep ==
    ASSUME MirrorAssumption, ~WarmRestart, GInv, GInv', [Next]_vars
    PROVE  [Store!Next]_Store!vars
<1> USE DEF GInv
<1> DEFINE Same == Visible' = Visible /\ Current' = Current /\ attempted' = attempted
<1>0. Slot = {0, 1} /\ Medium /\ Medium' /\ workspace \in Image /\ workspace # NoImage
  BY DEF WInv, Ram, MirrorAssumption
<1>1. ASSUME Same PROVE [Store!Next]_Store!vars
  BY <1>1 DEF Store!vars
<1>2. ASSUME slot' = slot, mounted' = mounted, active_bank' = active_bank PROVE Visible' = Visible
  BY <1>2 DEF Visible, valid_bank, Newest, generation_of, Newer, Blank
<1>3. (Unformatted /\ ~mounted => Visible = Blank) /\ (Unformatted' /\ ~mounted' => Visible' = Blank)
  <2>1. (MirrorAssumption /\ Medium /\ Unformatted => (~mounted => Visible = Blank))'
    BY NothingCommitted, PTL
  <2>2. MirrorAssumption'
    BY DEF MirrorAssumption
  <2>3. QED
    BY <1>0, <2>1, <2>2, NothingCommitted DEF Blank
<1>4. CASE Driver
  <2>0. /\ step # "idle"
        /\ UNCHANGED <<mounted, active_bank, workspace>>
        /\ attempted' = IF Fails /\ mounted THEN attempted \cup {workspace} ELSE attempted
        /\ Fails => step' = "idle"
        /\ ~Fails => step' # "idle"
    BY <1>4, DriverGoes
  <2>1. CASE mounted
    <3>1. bank # active_bank /\ active_bank \in Slot
      BY <1>0, <2>0, <2>1 DEF WInv, Committing, Ram
    <3>2. Visible' = Visible
      <4>1. slot'[active_bank] = slot[active_bank]
        BY <1>4, <3>1, DriverWrites DEF Only
      <4>2. QED
        BY <2>0, <2>1, <4>1 DEF Visible
    <3>3. CASE Fails
      BY <1>0, <2>0, <2>1, <3>2, <3>3 DEF Current, Store!Next, Store!Fail
    <3>4. CASE ~Fails
      BY <1>1, <2>0, <2>1, <3>2, <3>4 DEF Current
    <3>5. QED
      BY <3>3, <3>4
  <2>2. CASE ~mounted
    <3>1. Unformatted /\ ~mounted'
      BY <2>0, <2>2 DEF Unmounted, Settled
    <3>2. Unformatted'
      BY <1>4, <2>2, DriverKeepsGInv
    <3>3. QED
      BY <1>1, <1>3, <2>0, <2>2, <3>1, <3>2 DEF Current
  <2>3. QED
    BY <2>1, <2>2
<1>5. CASE ls_flash_mirror_init
  <2>0. ~mounted /\ step = "idle" /\ UNCHANGED <<slot, attempted>>
    BY <1>5 DEF ls_flash_mirror_init
  <2>1. CASE valid_bank(0) \/ valid_bank(1)
    <3>1. active_bank' = Newest /\ mounted' /\ step' = step
      BY <1>5, <2>1 DEF ls_flash_mirror_init
    <3>2. QED
      BY <1>1, <2>0, <2>1, <3>1 DEF Visible, Current
  <2>2. CASE ~(valid_bank(0) \/ valid_bank(1))
    <3>1. mounted' = mounted
      BY <1>5, <2>2 DEF ls_flash_mirror_init
    <3>2. QED
      BY <1>1, <2>0, <2>2, <3>1 DEF Visible, Current, valid_bank, Blank
  <2>3. QED
    BY <2>1, <2>2
<1>6. ASSUME NEW c \in Cell, NEW v \in Value \cup {Erased}, update_image(c, v)
      PROVE  [Store!Next]_Store!vars
  <2>1. /\ UNCHANGED <<slot, mounted, active_bank, attempted>> /\ mounted /\ step = "idle"
        /\ step' = "erase"
        /\ workspace' = [slot[active_bank].data EXCEPT ![c] = v]
    BY <1>6 DEF update_image, Commit
  <2>2. Visible' = Visible /\ Visible = slot[active_bank].data
    BY <1>2, <2>1 DEF Visible
  <2>3. Current = NoImage /\ Current' = [Visible EXCEPT ![c] = v]
    BY <2>1, <2>2 DEF Current
  <2>4. Store!Begin
    BY <2>1, <2>2, <2>3 DEF Store!Begin
  <2>5. QED
    BY <2>4 DEF Store!Next
<1>7. CASE SyncPayload
  <2>1. step = "sync" /\ step' = "marker" /\ UNCHANGED <<slot, mounted, active_bank, workspace, attempted>>
    BY <1>7 DEF SyncPayload, Sync, Goes, After
  <2>2. QED
    BY <1>1, <1>2, <2>1 DEF Current
<1>8. CASE SyncCommit
  <2>1. /\ step = "commit" /\ step' = "idle" /\ active_bank' = bank /\ mounted'
        /\ attempted' = {} /\ slot' = slot
    BY <1>8 DEF SyncCommit, Sync
  <2>2. Visible' = workspace /\ Current' = NoImage
    <3>1. slot[bank].data = workspace
      BY <2>1 DEF WInv, Committing
    <3>2. slot'[active_bank'].data = workspace
      BY <2>1, <3>1
    <3>3. QED
      BY <2>1, <3>2 DEF Visible, Current
  <2>3. CASE mounted
    <3>1. Current = workspace
      BY <2>1, <2>3 DEF Current
    <3>2. QED
      BY <1>0, <2>1, <2>2, <3>1 DEF Store!Next, Store!Acknowledge
  <2>4. CASE ~mounted
    <3>1. Unformatted /\ workspace = Blank /\ attempted = {}
      BY <2>1, <2>4 DEF Unmounted, Settled
    <3>2. QED
      BY <1>1, <1>3, <2>1, <2>2, <2>4, <3>1 DEF Current
  <2>5. QED
    BY <2>3, <2>4
<1>9. CASE Crash
  <2>1. Current' = NoImage /\ attempted' = {}
    BY <1>9 DEF Crash, RamLost, Current
  <2>2. QED
    BY <1>9, <2>1, CrashVisible DEF Store!Next, Store!Crash, Store!Possible
<1>10. CASE UNCHANGED vars
  BY <1>1, <1>2, <1>10 DEF vars, ram, Current
<1>11. ~Restart
  BY DEF Restart
<1>12. QED
  BY <1>4, <1>5, <1>6, <1>7, <1>8, <1>9, <1>10, <1>11 DEF Next, Driver

(* The mirror is an atomic image store, for any image, any generation       *)
(* counter and whatever driver calls fail: what was acknowledged is read    *)
(* from then on, across power losses, and a failed write leaves the old     *)
(* image or, after a power loss, the whole new one.                         *)
THEOREM MirrorImplementsImageStore == ASSUME MirrorAssumption, ~WarmRestart PROVE Spec => Store!Spec
<1>1. Init => Store!Init
  <2> SUFFICES ASSUME Init PROVE Store!Init
    OBVIOUS
  <2>1. Visible = Blank
    BY InitGInv, NothingCommitted
       DEF Init, GInv, WInv, Unmounted, Settled, Valid, ErasedSlot, NoMeta
  <2>2. QED
    BY <2>1 DEF Init, Current, Store!Init, Store!Blank, Blank
<1>2. GInv /\ GInv' /\ [Next]_vars => [Store!Next]_Store!vars
  BY StoreStep
<1>3. QED
  BY <1>1, <1>2, MirrorBanks, PTL DEF Spec, Store!Spec
=============================================================================
