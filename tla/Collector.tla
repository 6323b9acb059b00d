------------------------------ MODULE Collector ------------------------------
(***************************************************************************)
(* The reference collector (tools/latch_collector.py): DurableStore        *)
(* persists each envelope that comes in under the name of its device and   *)
(* event ID, FleetIndex records it in a database, and only then the device *)
(* gets an acknowledgement and drops its copy.  The process may die, and   *)
(* power may fail, between any two steps; it is started again, and the     *)
(* device sends again what is not acknowledged.  The directory of a        *)
(* namespace is taken to survive a power failure.                          *)
(***************************************************************************)
EXTENDS Integers, FiniteSetsExt

CONSTANTS
    Event,              \* envelopes the devices hold
    NoEvent,
    Device,             \* Device[e], the device ID in the metadata of e
    SafeDevice,         \* device IDs that can be part of a file name
    EventId,            \* EventId[e]
    Sequence,           \* Sequence[e]
    StrictReplay,       \* of the index
    ReplayWindow,       \* 64
    MayDie,             \* the process can die, or an operation fail, without a power failure
    MaxStops            \* bound: deaths and power failures

CollectorAssumption ==
    /\ NoEvent \notin Event
    /\ Sequence \in [Event -> Nat] /\ ReplayWindow \in Nat /\ MaxStops \in Nat
    /\ {StrictReplay, MayDie} \subseteq BOOLEAN

VARIABLES
    pending,            \* events the devices still hold
    envelope,           \* the one being persisted
    pc,                 \* the next step of persist; stopped after an error
    bytes,              \* events whose bytes are on the medium
    named,              \* name -> the event whose file has it
    namedDurably,       \* the same, on the medium
    rows,               \* table events of the index
    counted,            \* table devices: event_count and highest_sequence
    stops

vars == <<pending, envelope, pc, bytes, named, namedDurably, rows, counted, stops>>
disk == <<bytes, named, namedDurably>>
index == <<rows, counted>>

(* _safe_namespace, and the name of the file. *)
Namespace(e) == IF Device[e] \in SafeDevice THEN Device[e] ELSE "unknown"
Name(e) == <<Namespace(e), EventId[e]>>
Key(e) == <<Device[e], EventId[e]>>
Names == {Name(e) : e \in Event}
Devices == {Device[e] : e \in Event}

Init == /\ pending = Event
        /\ envelope = NoEvent
        /\ pc = "idle"
        /\ bytes = {}
        /\ named = [n \in Names |-> NoEvent]
        /\ namedDurably = named
        /\ rows = {}
        /\ counted = [d \in Devices |-> [events |-> 0, highest |-> 0]]
        /\ stops = 0

Goto(step) == pc' = step /\ UNCHANGED <<pending, envelope, stops>>

-----------------------------------------------------------------------------
(* A frame of the stream has passed StreamParser; persist looks for a file  *)
(* of its name.                                                             *)
Looked(e) ==
    CASE named[Name(e)] = NoEvent -> "write"
      [] named[Name(e)] = e -> "index"
      [] OTHER -> "stopped"

Receive(e) ==
    /\ pc = "idle"
    /\ e \in pending
    /\ envelope' = e
    /\ pc' = Looked(e)
    /\ UNCHANGED <<pending, disk, index, stops>>

(* mkstemp, write, flush, fsync: the bytes are safe, under no name yet. *)
WriteTemporary ==
    /\ pc = "write"
    /\ bytes' = bytes \cup {envelope}
    /\ Goto("replace")
    /\ UNCHANGED <<named, namedDurably, index>>

(* os.replace. *)
Replace ==
    /\ pc = "replace"
    /\ named' = [named EXCEPT ![Name(envelope)] = envelope]
    /\ Goto("directory")
    /\ UNCHANGED <<bytes, namedDurably, index>>


SyncDirectory ==
    /\ pc = "directory"
    /\ namedDurably' = named
    /\ Goto("index")
    /\ UNCHANGED <<bytes, named, index>>

NewEvents == IF \E e \in rows : Key(e) = Key(envelope) THEN 0 ELSE 1

Stale == /\ StrictReplay
         /\ counted[Device[envelope]].highest # 0
         /\ Sequence[envelope] + ReplayWindow < counted[Device[envelope]].highest

(* FleetIndex.record, one transaction: a stale number, or other bytes under *)
(* the same ID, is an error.                                                *)
Record ==
    /\ pc = "index"
    /\ IF Stale \/ \E e \in rows : Key(e) = Key(envelope) /\ e # envelope
       THEN Goto("stopped") /\ UNCHANGED index
       ELSE /\ rows' = rows \cup {envelope}
            /\ counted' = [counted EXCEPT ![Device[envelope]] =
                   [events |-> @.events + NewEvents,
                    highest |-> IF @.highest > Sequence[envelope] THEN @.highest ELSE Sequence[envelope]]]
            /\ Goto("ack")
    /\ UNCHANGED disk

(* make_ack, stored or duplicate: the device drops its copy.  The answer    *)
(* may also be lost.                                                        *)
Acknowledge ==
    /\ pc = "ack"
    /\ pc' = "idle"
    /\ \/ pending' = pending \ {envelope}
       \/ stops < MaxStops /\ UNCHANGED pending
    /\ envelope' = NoEvent
    /\ stops' = IF pending' = pending THEN stops + 1 ELSE stops
    /\ UNCHANGED <<disk, index>>

-----------------------------------------------------------------------------
(* The process ends by an error and is started again. *)
Restart ==
    /\ pc = "stopped"
    /\ pc' = "idle"
    /\ envelope' = NoEvent
    /\ UNCHANGED <<pending, disk, index, stops>>

Dies ==
    /\ MayDie
    /\ pc \notin {"idle", "stopped"}
    /\ stops < MaxStops
    /\ stops' = stops + 1
    /\ pc' = "stopped"
    /\ UNCHANGED <<pending, envelope, disk, index>>

(* Every name is as it was synchronized, or later. *)
PowerFails ==
    /\ stops < MaxStops
    /\ stops' = stops + 1
    /\ \E later \in SUBSET Names :
          LET left == [n \in Names |-> IF n \in later THEN named[n] ELSE namedDurably[n]]
          IN  named' = left /\ namedDurably' = left
    /\ pc' = "stopped"
    /\ UNCHANGED <<pending, envelope, bytes, index>>

PersistStep == WriteTemporary \/ Replace \/ SyncDirectory \/ Record \/ Acknowledge \/ Restart

Next == (\E e \in Event : Receive(e)) \/ PersistStep \/ Dies \/ PowerFails

Spec == Init /\ [][Next]_vars

-----------------------------------------------------------------------------
TypeOK ==
    /\ pending \subseteq Event /\ bytes \subseteq Event /\ rows \subseteq Event
    /\ envelope \in Event \cup {NoEvent}
    /\ pc \in {"idle", "write", "replace", "directory", "index", "ack", "stopped"}
    /\ pc \notin {"idle", "stopped"} => envelope \in pending
    /\ \A n \in Names : named[n] # NoEvent => Name(named[n]) = n

Lost(e) == e \notin bytes \/ namedDurably[Name(e)] # e

(* An event its device has dropped is on the medium, whole and under its    *)
(* name: the acknowledgement comes only after fsync and rename, whether it  *)
(* says stored or duplicate (docs/reference-collector.md).                  *)
AckedIsDurable == \A e \in Event \ pending : ~Lost(e)

(* A name never shows a part of an envelope, not even after a power         *)
(* failure, and an envelope never takes the place of another one.           *)
NamedIsWhole ==
    /\ \A n \in Names : named[n] # NoEvent => named[n] \in bytes
    /\ \A n \in Names : namedDurably[n] # NoEvent => named[n] = namedDurably[n]

(* The fleet index has every acknowledged event, no event twice, and counts *)
(* them per device, after any stop between file and index.                  *)
IndexExact ==
    /\ Event \ pending \subseteq rows
    /\ \A d \in Devices : LET mine == {e \in rows : Device[e] = d} IN
          /\ counted[d].events = Cardinality(mine)
          /\ mine # {} => counted[d].highest = Max({Sequence[e] : e \in mine})

(* Event IDs are namespaced by device: an envelope is only refused because  *)
(* of another envelope of its own device.                                   *)
NamespacedByDevice ==
    \A e \in Event : pc = "idle" /\ pc' = "stopped" /\ envelope' = e
        => Device[named[Name(e)]] = Device[e]
=============================================================================
