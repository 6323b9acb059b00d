--------------------------- MODULE StorageProgram ---------------------------
(***************************************************************************)
(* ls_storage_program (src/storage/memory_storage.c) over the simulated    *)
(* NOR flash of src/storage/storage_sim.c, with the simulator's fault      *)
(* plan and the fault points of the program helper.  A byte is the set of  *)
(* its 1 bits: programming can only take bits away, erasing gives all of   *)
(* them back.                                                              *)
(***************************************************************************)
EXTENDS Integers, FiniteSetsExt

CONSTANTS
    Bit,                \* the bits of a byte
    Capacity,           \* bytes of the device
    WriteSize,          \* write_size, the unit of programming
    MaxLength,          \* bound on the length of a call
    MaxFail,            \* bound on fail_operation and on operation_count
    NoCall

ProgramAssumption == Capacity \in Nat /\ WriteSize \in Nat \ {0} /\ MaxFail \in Nat

VARIABLES
    data,               \* simulator->data
    operation_count, fail_operation, partial_bytes,
    call,               \* the arguments of ls_storage_program, or NoCall
    unit_offset,
    erased,             \* what ls_storage_is_erased said of the range before the call
    before,             \* history: data when the call began
    result              \* what the last call returned

simulator == <<operation_count, fail_operation, partial_bytes>>
vars == <<data, simulator, call, unit_offset, erased, before, result>>

Address == 0..(Capacity - 1)
Byte == SUBSET Bit

Init == /\ data = [a \in Address |-> Bit]
        /\ operation_count = 0
        /\ fail_operation = 0
        /\ partial_bytes = 0
        /\ call = NoCall
        /\ unit_offset = 0
        /\ erased = FALSE
        /\ before = data
        /\ result = "none"

-----------------------------------------------------------------------------
(* The simulator.  operation_count is counted as far as it matters. *)
Counted(n) == operation_count' = Min({operation_count + n, MaxFail + 1})

Fails(n) == fail_operation # 0 /\ operation_count + n = fail_operation

ls_storage_sim_fail_at(operation, partial) ==
    /\ call = NoCall
    /\ operation_count' = 0
    /\ fail_operation' = operation
    /\ partial_bytes' = partial
    /\ UNCHANGED <<data, call, unit_offset, erased, before, result>>

(* An interrupted write or erase reaches the first partial_bytes bytes. *)
Reached(o, len, interrupted) ==
    o..(o + (IF interrupted THEN Min({partial_bytes, len}) ELSE len) - 1)

ls_storage_sim_erase(o, len) ==
    /\ call = NoCall
    /\ data' = [a \in Address |-> IF a \in Reached(o, len, Fails(1)) THEN Bit ELSE data[a]]
    /\ Counted(1)
    /\ UNCHANGED <<fail_operation, partial_bytes, call, unit_offset, erased, before, result>>

(* ls_storage_sim_write with enforce_nor, of the bytes new at o onwards:    *)
(* refused as a whole when a bit it reaches is 0 already.                   *)
Refused(new, reached) == \E a \in reached : ~(new[a] \subseteq data[a])

Written(new, reached) == [a \in Address |-> IF a \in reached THEN data[a] \cap new[a] ELSE data[a]]

-----------------------------------------------------------------------------
(* ls_storage_is_erased. *)
is_erased(o, len) == \A a \in o..(o + len - 1) : data[a] = Bit

(* The range in whole units. *)
Last(c) == ((c.offset + c.length + WriteSize - 1) \div WriteSize) * WriteSize

First(c) == (c.offset \div WriteSize) * WriteSize

Return(r) == call' = NoCall /\ result' = r /\ unit_offset' = 0

(* The call up to its loop; a unit beyond the capacity is LS_ENOSPACE.      *)
ls_storage_program(o, len, src) ==
    LET c == [offset |-> o, length |-> len, src |-> src]
    IN  /\ call = NoCall
        /\ erased' = is_erased(o, len)
        /\ before' = data
        /\ IF Last(c) > Capacity
           THEN Return("nospace")
           ELSE call' = c /\ unit_offset' = First(c) /\ result' = "none"
        /\ UNCHANGED <<data, simulator>>

(* A fault point, before the first unit or before the write of a unit. *)
Injected == /\ call # NoCall
            /\ Return("error")
            /\ UNCHANGED <<data, simulator, erased, before>>

Target == {a \in Address : call.offset <= a /\ a < call.offset + call.length}

Unit == {a \in Address : unit_offset <= a /\ a < unit_offset + WriteSize}

(* Fault: the bits are not looked at. *)
Clear_Skipped(bytes) == TRUE

(* No bit of the bytes is 0 already and 1 in the source. *)
Clear(bytes) == \A a \in bytes : call.src[a - call.offset] \subseteq data[a]

(* The unit as read, with the bytes of the call programmed into it. *)
Merged(bytes) ==
    [a \in Unit |-> IF a \in bytes THEN data[a] \cap call.src[a - call.offset] ELSE data[a]]

(* One pass of the loop: read the unit, check and merge the bytes of the    *)
(* call, write it when it changed.                                          *)
ProgramUnit ==
    LET bytes == Unit \cap Target
        new == Merged(bytes)
        changed == \E a \in bytes : new[a] # data[a]
        reached == Reached(unit_offset, WriteSize, Fails(2))
    IN  /\ call # NoCall
        /\ WriteSize > 1
        /\ unit_offset < Last(call)
        /\ IF Fails(1) \/ ~Clear(bytes)
           THEN Return(IF Fails(1) THEN "error" ELSE "eio") /\ Counted(1) /\ UNCHANGED data
           ELSE IF ~changed
           THEN unit_offset' = unit_offset + WriteSize /\ Counted(1) /\ UNCHANGED <<data, call, result>>
           ELSE /\ Counted(2)
                /\ data' = IF Refused(new, reached) THEN data ELSE Written(new, reached)
                /\ IF Fails(2) \/ Refused(new, reached)
                   THEN Return("error")
                   ELSE unit_offset' = unit_offset + WriteSize /\ UNCHANGED <<call, result>>
        /\ UNCHANGED <<fail_operation, partial_bytes, erased, before>>

(* With a write_size of 1 the source goes to the backend in one write. *)
ProgramDirect ==
    LET new == [a \in Target |-> call.src[a - call.offset]]
        reached == Reached(call.offset, call.length, Fails(1))
    IN  /\ call # NoCall
        /\ WriteSize = 1
        /\ unit_offset < Last(call)
        /\ Counted(1)
        /\ data' = IF Refused(new, reached) THEN data ELSE Written(new, reached)
        /\ IF Fails(1) \/ Refused(new, reached)
           THEN Return("error")
           ELSE unit_offset' = Last(call) /\ UNCHANGED <<call, result>>
        /\ UNCHANGED <<fail_operation, partial_bytes, erased, before>>

Done == /\ call # NoCall
        /\ unit_offset >= Last(call)
        /\ Return("ok")
        /\ UNCHANGED <<data, simulator, erased, before>>

Lengths(o) == 1..Min({MaxLength, Capacity - o})

Next == \/ \E operation \in 0..MaxFail, partial \in 0..1 : ls_storage_sim_fail_at(operation, partial)
        \/ \E o \in Address : \E len \in Lengths(o) :
              \/ ls_storage_sim_erase(o, len)
              \/ \E src \in [0..(len - 1) -> Byte] : ls_storage_program(o, len, src)
        \/ Injected \/ ProgramUnit \/ ProgramDirect \/ Done

Spec == Init /\ [][Next]_vars

-----------------------------------------------------------------------------
(* Types; a call in progress fits the device in whole units. *)
TypeOK ==
    /\ data \in [Address -> Byte]
    /\ operation_count \in 0..(MaxFail + 1)
    /\ call # NoCall => /\ Last(call) \in 1..Capacity
                        /\ unit_offset \in First(call)..Last(call)
    /\ result \in {"none", "ok", "error", "eio", "nospace"}

(* LS_OK means that every byte of the range holds the source and no byte    *)
(* outside it was touched, although whole units are rewritten around an     *)
(* unaligned range.                                                         *)
OkMeansProgrammed ==
    call # NoCall /\ call' = NoCall /\ result' = "ok" =>
        data' = [a \in Address |-> IF a \in Target THEN call.src[a - call.offset] ELSE before[a]]

(* Programming never sets a bit ("bits can only transition from 1 to 0"),   *)
(* and wherever a call fails, a byte is as it was or as it should be, with  *)
(* nothing changed beyond the unit reached.                                 *)
OnlyClears ==
    call # NoCall => \A a \in Address :
        \/ data'[a] = before[a]
        \/ /\ a \in Target
           /\ data'[a] = call.src[a - call.offset] /\ data'[a] \subseteq before[a]
           /\ WriteSize > 1 => a < unit_offset + WriteSize

(* A range that ls_storage_is_erased found erased is programmed without the *)
(* LS_EIO of the check, whatever its neighbours in the same unit hold.      *)
ErasedIsProgrammable == result = "eio" => ~erased
=============================================================================
