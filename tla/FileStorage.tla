----------------------------- MODULE FileStorage -----------------------------
(***************************************************************************)
(* Storage in a file (ports/embedded-linux/file_backend.c): a file of the  *)
(* configured size whose bytes, in cells, stand for an erasable medium.    *)
(* The system keeps writes in memory until they are synchronized; a power  *)
(* failure keeps, of every cell and of the size, either the synchronized   *)
(* or the later state.  A process that dies loses only its descriptor.     *)
(* The name of the file is taken to survive; calls retried after EINTR are *)
(* one step.                                                               *)
(***************************************************************************)
EXTENDS Integers, FiniteSets

CONSTANTS
    Size,               \* file->size, in cells
    Value,              \* what is written
    FirstSize,          \* sizes the file may have at first, 0 for none
    MaxFailures,        \* bound: calls of the system that fail
    MaxStops,           \* bound: processes that die and power failures
    MaxWrites           \* bound: writes and erasures

FileAssumption ==
    /\ Size \in Nat \ {0} /\ FirstSize \subseteq Nat
    /\ {"zero", "erased"} \cap Value = {}

VARIABLES
    pc,                 \* closed, or the step of init, or open
    next,               \* the next cell of erase_range
    cached,             \* the file as the system shows it: size and cells
    durable,            \* the file after a power failure, without later writes
    expected,           \* history: what each cell may hold after a failure
    used,               \* history: the media has been written since it was new
    failures, stops, writes

vars == <<pc, next, cached, durable, expected, used, failures, stops, writes>>
bounds == <<failures, stops, writes>>

Cell == 1..Size
Byte == {"zero", "erased"} \cup Value

File(n, cells) == [size |-> n, cell |-> cells]

(* A file from before: shorter, of this size, or larger; a new one is empty. *)
Init == /\ pc = "closed"
        /\ next = 1
        /\ \E n \in FirstSize, v \in Value :
              LET old == File(n, [i \in Cell |-> IF i <= n THEN v ELSE "zero"])
              IN  cached = old /\ durable = old
                  /\ expected = [i \in Cell |-> IF n >= Size THEN {v} ELSE {"zero", "erased", v}]
                  /\ used = (n >= Size)
        /\ failures = 0 /\ stops = 0 /\ writes = 0

Step(to) == pc' = to /\ UNCHANGED bounds

(* Any call of the system may fail: init closes the descriptor. *)
InitFails ==
    /\ pc \in {"grow", "erase", "sync"}
    /\ failures < MaxFailures
    /\ failures' = failures + 1
    /\ pc' = "closed"
    /\ UNCHANGED <<next, cached, durable, expected, used, stops, writes>>

(* ls_file_storage_init on the size found: a larger file is refused, a      *)
(* shorter one starts over, one of the size is taken as it is.              *)
Accepts == IF cached.size > Size THEN "closed" ELSE IF cached.size = Size THEN "open" ELSE "grow"

ls_file_storage_init ==
    /\ pc = "closed"
    /\ Step(Accepts)
    /\ UNCHANGED <<next, cached, durable, expected, used>>

(* preallocate_erased: posix_fallocate and ftruncate, then erase_range over *)
(* the whole file, then sync_data.                                          *)
Grow ==
    /\ pc = "grow"
    /\ cached' = [cached EXCEPT !.size = Size]
    /\ next' = 1
    /\ Step("erase")
    /\ UNCHANGED <<durable, expected, used>>

EraseNext ==
    /\ pc = "erase"
    /\ cached' = [cached EXCEPT !.cell[next] = "erased"]
    /\ next' = IF next = Size THEN 1 ELSE next + 1
    /\ Step(IF next = Size THEN "sync" ELSE "erase")
    /\ UNCHANGED <<durable, expected, used>>

(* sync_data, by fdatasync or fsync. *)
Synced == cached

Preallocated ==
    /\ pc = "sync"
    /\ durable' = Synced
    /\ expected' = [i \in Cell |-> {"erased"}]
    /\ Step("open")
    /\ UNCHANGED <<next, cached, used>>

-----------------------------------------------------------------------------
(* ls_file_storage_write and ls_file_storage_erase of a range; a failure    *)
(* leaves a part of it.                                                     *)
Store(range, byte, whole) ==
    LET done == {i \in range : whole \/ \A j \in range : i <= j}
    IN  /\ pc = "open"
        /\ writes < MaxWrites
        /\ writes' = writes + 1
        /\ failures' = IF whole THEN failures ELSE failures + 1
        /\ failures' <= MaxFailures
        /\ cached' = [cached EXCEPT !.cell = [i \in Cell |-> IF i \in done THEN byte ELSE @[i]]]
        /\ expected' = [i \in Cell |-> expected[i] \cup (IF i \in done THEN {byte} ELSE {})]
        /\ used' = TRUE
        /\ UNCHANGED <<pc, next, durable, stops>>

Range == {a..b : a \in Cell, b \in Cell} \ {{}}

ls_file_storage_write == \E range \in Range, v \in Value, whole \in BOOLEAN : Store(range, v, whole)
ls_file_storage_erase == \E range \in Range, whole \in BOOLEAN : Store(range, "erased", whole)

(* From here on each cell holds what it held when sync returned LS_OK. *)
ls_file_storage_sync ==
    /\ pc = "open"
    /\ durable' = Synced
    /\ expected' = [i \in Cell |-> {cached.cell[i]}]
    /\ Step("open")
    /\ UNCHANGED <<next, cached, used>>

(* A sync that fails promises nothing; the pages stay in memory. *)
SyncFails ==
    /\ pc = "open"
    /\ failures < MaxFailures
    /\ failures' = failures + 1
    /\ UNCHANGED <<pc, next, cached, durable, expected, used, stops, writes>>

ls_file_storage_close ==
    /\ pc = "open"
    /\ pc' = "closed"
    /\ \/ durable' = Synced /\ expected' = [i \in Cell |-> {cached.cell[i]}] /\ UNCHANGED failures
       \/ failures < MaxFailures /\ failures' = failures + 1 /\ UNCHANGED <<durable, expected>>
    /\ UNCHANGED <<next, cached, used, stops, writes>>

-----------------------------------------------------------------------------
ProcessDies ==
    /\ pc # "closed"
    /\ stops < MaxStops
    /\ stops' = stops + 1
    /\ pc' = "closed"
    /\ UNCHANGED <<next, cached, durable, expected, used, failures, writes>>

(* What the medium has by then, of the size and of every cell. *)
PowerFails ==
    /\ stops < MaxStops
    /\ stops' = stops + 1
    /\ pc' = "closed"
    /\ \E n \in {durable.size, cached.size}, kept \in SUBSET Cell :
          LET left == File(n, [i \in Cell |-> IF i > n THEN "zero"
                                  ELSE IF i \in kept THEN cached.cell[i] ELSE durable.cell[i]])
          IN  cached' = left /\ durable' = left
    /\ UNCHANGED <<next, expected, used, failures, writes>>

Next == \/ ls_file_storage_init \/ InitFails \/ Grow \/ EraseNext \/ Preallocated
        \/ ls_file_storage_write \/ ls_file_storage_erase
        \/ ls_file_storage_sync \/ SyncFails \/ ls_file_storage_close
        \/ ProcessDies \/ PowerFails

Spec == Init /\ [][Next]_vars

-----------------------------------------------------------------------------
TypeOK ==
    /\ pc \in {"closed", "grow", "erase", "sync", "open"}
    /\ next \in Cell
    /\ cached.size \in Nat /\ cached.cell \in [Cell -> Byte]
    /\ durable.size \in Nat /\ durable.cell \in [Cell -> Byte]
    /\ pc = "open" => cached.size = Size
    /\ used \in BOOLEAN

(* What was synchronized is what the next process reads, after any number   *)
(* of failures: a cell holds what it held when sync last returned LS_OK, or *)
(* a later write.  A store of another size is never touched.                *)
SyncedSurvives == \A i \in Cell : used => cached.cell[i] \in expected[i]
=============================================================================
