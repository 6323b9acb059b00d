---------------------------- MODULE FileTransport ----------------------------
(***************************************************************************)
(* ls_file_transport_send (ports/embedded-linux/file_backend.c): an        *)
(* envelope is exported to a file named after its event ID.  A spool sends *)
(* each of its records until a send returns LS_OK and consumes it then; it *)
(* sends again what it had sent and not consumed before a failure.  Bytes  *)
(* of a file and names in the directory become durable separately.         *)
(***************************************************************************)
EXTENDS Integers

CONSTANTS
    Event,              \* events, each with an ID of its own
    NoEvent,
    MaxFailures         \* bound: calls that fail and power failures

TransportFileAssumption == NoEvent \notin Event /\ MaxFailures \in Nat

VARIABLES
    pending,            \* events the spool has not consumed, durable
    sending,            \* the event being sent, whose file is open
    pc,                 \* the next step of the send
    written,            \* how much of each file the system shows
    durable,            \* how much of it is on the medium
    named,              \* names in the directory, and those on the medium
    namedDurably,
    failures

vars == <<pending, sending, pc, written, durable, named, namedDurably, failures>>
files == <<written, durable, named, namedDurably>>

Extent == {"empty", "part", "whole"}

Init == /\ pending = Event
        /\ sending = NoEvent
        /\ pc = "idle"
        /\ written = [e \in Event |-> "empty"]
        /\ durable = [e \in Event |-> "empty"]
        /\ named = {} /\ namedDurably = {}
        /\ failures = 0

Goto(step) == pc' = step /\ UNCHANGED <<pending, sending, failures>>

Start(e) ==
    /\ pc = "idle"
    /\ e \in pending
    /\ sending' = e
    /\ pc' = "open"
    /\ UNCHANGED <<pending, files, failures>>

(* openat with O_CREAT and O_TRUNC: what was there is cut, in memory. *)
Open ==
    /\ pc = "open"
    /\ named' = named \cup {sending}
    /\ written' = [written EXCEPT ![sending] = "empty"]
    /\ Goto("write")
    /\ UNCHANGED <<durable, namedDurably>>

(* write_stream_all, in two writes. *)
Write ==
    /\ pc = "write"
    /\ written' = [written EXCEPT ![sending] = IF @ = "empty" THEN "part" ELSE "whole"]
    /\ Goto(IF written[sending] = "empty" THEN "write" ELSE "sync")
    /\ UNCHANGED <<durable, named, namedDurably>>

SyncFile ==
    /\ pc = "sync"
    /\ durable' = [durable EXCEPT ![sending] = written[sending]]
    /\ Goto("directory")
    /\ UNCHANGED <<written, named, namedDurably>>

SyncDirectory ==
    /\ pc = "directory"
    /\ namedDurably' = named
    /\ Goto("ok")
    /\ UNCHANGED <<written, durable, named>>

(* Any step fails: the descriptors are closed, the send returns an error, the record stays. *)
SendFails ==
    /\ pc \in {"open", "write", "sync", "directory"}
    /\ failures < MaxFailures
    /\ failures' = failures + 1
    /\ pc' = "idle"
    /\ sending' = NoEvent
    /\ UNCHANGED <<pending, files>>

(* The caller has LS_OK and consumes the record. *)
Consume ==
    /\ pc = "ok"
    /\ pending' = pending \ {sending}
    /\ sending' = NoEvent
    /\ pc' = "idle"
    /\ UNCHANGED <<files, failures>>

(* Of each file and each name the medium has the durable or the later state. *)
PowerFails ==
    /\ failures < MaxFailures
    /\ failures' = failures + 1
    /\ \E later \in SUBSET Event, names \in SUBSET Event :
          LET left == [e \in Event |-> IF e \in later THEN written[e] ELSE durable[e]]
              kept == namedDurably \cup (named \cap names)
          IN  written' = left /\ durable' = left /\ named' = kept /\ namedDurably' = kept
    /\ sending' = NoEvent
    /\ pc' = "idle"
    /\ UNCHANGED pending

SendStep == Open \/ Write \/ SyncFile \/ SyncDirectory \/ Consume

Next == (\E e \in Event : Start(e)) \/ SendStep \/ SendFails \/ PowerFails

Spec == Init /\ [][Next]_vars

-----------------------------------------------------------------------------
TypeOK ==
    /\ pending \subseteq Event
    /\ sending \in Event \cup {NoEvent}
    /\ pc \in {"idle", "open", "write", "sync", "directory", "ok"}
    /\ written \in [Event -> Extent] /\ durable \in [Event -> Extent]
    /\ namedDurably \subseteq named /\ named \subseteq Event
    /\ IF pc = "idle" THEN sending = NoEvent ELSE sending \in pending

(* At every moment an event is still in the spool, or its file is whole and *)
(* on the medium under its name: LS_OK is returned for nothing less, and a  *)
(* second send, which cuts the file before it writes it, only happens while *)
(* the spool still has the record.                                          *)
NoEvidenceLost == \A e \in Event \ pending : durable[e] = "whole" /\ e \in namedDurably
=============================================================================
