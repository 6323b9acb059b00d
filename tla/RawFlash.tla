------------------------------ MODULE RawFlash ------------------------------
(***************************************************************************)
(* The raw erase/program driver under the flash adapters, as they use it.  *)
(* A slot starts with its header and commit marker, which share an erase   *)
(* block, and goes on with the payload.  What has been written since the   *)
(* last completed sync may or may not have reached the medium, and what is *)
(* interrupted is torn; an erase starts at the header, and a block is only *)
(* programmed once the erase before it has been carried out.               *)
(***************************************************************************)
EXTENDS Integers, FiniteSets

CONSTANTS
    Slot,               \* erase regions, numbered from 0
    Cell,               \* the byte ranges of an image that a call may replace
    Value,              \* what can be written into a cell
    Erased,             \* a cell full of 0xff
    NoHeader,           \* header bytes whose header_crc does not match
    Torn,               \* payload bytes that no write has intended
    Modulus,            \* 2^32, the range of a generation
    MayFail             \* the steps of a commit whose driver call may fail

VARIABLES
    slot,               \* slot[s], what a read returns
    may                 \* may[s], the contents a power loss may leave

Image == [Cell -> Value \cup {Erased}]

Blank == [c \in Cell |-> Erased]

NoMeta == [hdr |-> NoHeader, mark |-> FALSE]

ErasedSlot == [meta |-> NoMeta, data |-> Blank]

(* The driver calls on slot s have left the medium as it was or in one of   *)
(* the contents in after.                                                   *)
Pending(s, after) == may' = [may EXCEPT ![s] = @ \cup after]

EraseSteps(o) == {[meta |-> NoMeta, data |-> d] : d \in {o.data, Torn, Blank}}

Erase(s) == /\ slot' = [slot EXCEPT ![s] = ErasedSlot]
            /\ Pending(s, UNION {EraseSteps(o) : o \in may[s]})

EraseFails(s) == /\ \E r \in {slot[s]} \cup EraseSteps(slot[s]) : slot' = [slot EXCEPT ![s] = r]
                 /\ Pending(s, UNION {EraseSteps(o) : o \in may[s]})

Put(o, f, v) == [o EXCEPT ![f] = v]

(* ls_storage_program of field f, to new, or torn when it is interrupted. *)
Programmed(s, f, new, torn) ==
    LET started == {o \in may[s] : o[f] = slot[s][f]}
    IN  Pending(s, {Put(o, f, v) : o \in started, v \in {new, torn}})

Program(s, f, new, torn) == /\ slot' = [slot EXCEPT ![s] = Put(@, f, new)]
                            /\ Programmed(s, f, new, torn)

ProgramFails(s, f, new, torn) ==
    /\ \E v \in {slot[s][f], new, torn} : slot' = [slot EXCEPT ![s] = Put(@, f, v)]
    /\ Programmed(s, f, new, torn)

(* sync has returned LS_OK: the medium holds what is read. *)
Sync == /\ may' = [s \in Slot |-> {slot[s]}]
        /\ UNCHANGED slot

(* Every slot keeps one of its possible contents; the others are as read. *)
PowerLoss ==
    LET open == {s \in Slot : may[s] # {slot[s]}}
    IN  /\ \E left \in [open -> UNION {may[s] : s \in open}] :
              /\ \A s \in open : left[s] \in may[s]
              /\ slot' = [s \in Slot |-> IF s \in open THEN left[s] ELSE slot[s]]
        /\ may' = [s \in Slot |-> {slot'[s]}]

(* Serial numbers: (int32_t)(candidate - reference) > 0. *)
Newer(candidate, reference) == (candidate - reference) % Modulus \in 1..(Modulus \div 2 - 1)
=============================================================================
