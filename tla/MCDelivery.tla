----------------------------- MODULE MCDelivery -----------------------------
(***************************************************************************)
(* The way of an event from the spool to the collector, for TLC, one       *)
(* component at a time: part names the component that a behaviour runs,    *)
(* and the variables that it does not have keep the value Absent.          *)
(***************************************************************************)
EXTENDS Integers, Sequences, TLC

CONSTANTS t1, t2, t3, e1, e2, e3, b1, NoBackend, NoEvent, Absent

VARIABLES part,
    spool, chosen, offset, awaiting_ack, wire, rx, acks, stored, captured, restarts, broken,
    data, frame, received, received_count, active, complete, taken, pushes,
    written, durable,
    buffer, frames, running, stream,
    envelope, bytes, rows, counted, stops,
    sent, replay, shown, visited,
    transports, busy, target, index, attempt, result,
    accepted, pc, pending, sending, failures, named, namedDurably            \* of several

link == <<spool, chosen, offset, awaiting_ack, wire, rx, acks, stored, captured, restarts, broken>>
fragments == <<data, frame, received, received_count, active, complete, taken, pushes>>
export == <<written, durable>>
parser == <<buffer, frames, running, stream>>
collector == <<envelope, bytes, rows, counted, stops>>
reader == <<sent, replay, shown, visited>>
transport == <<transports, busy, target, index, attempt, result>>
names == <<named, namedDurably>>
vars == <<part, link, fragments, export, parser, collector, reader, transport, names,
          accepted, pc, pending, sending, failures>>

Events == {e1, e2}
Equal == [e \in Events |-> 1]
Rising == [e \in Events |-> IF e = e2 THEN 0 ELSE 1]

Stream == INSTANCE StreamLink WITH Thread <- {t1, t2}, Event <- Events, None <- NoEvent,
              Priority <- Rising, Link <- "stream", MaxFailures <- 1, MaxRestarts <- 1
Steady == INSTANCE StreamLink WITH Thread <- {t1}, Event <- Events, None <- NoEvent,
              Priority <- Equal, Link <- "stream", MaxFailures <- 1, MaxRestarts <- 1
Http == INSTANCE StreamLink WITH Thread <- {t1, t2}, Event <- Events, None <- NoEvent,
              Priority <- Rising, Link <- "http", MaxFailures <- 2, MaxRestarts <- 1
Mqtt == INSTANCE StreamLink WITH Thread <- {t1, t2}, Event <- Events, None <- NoEvent,
              Priority <- Rising, Link <- "mqtt", MaxFailures <- 2, MaxRestarts <- 1

(* Two envelopes that begin alike. *)
Fragments == INSTANCE Reassembly WITH Envelope <- <<<<1, 2, 3, 4, 5>>, <<1, 2, 4, 3>>>>,
              Mtu <- {2, 3}, Noise <- 0, Capacity <- 5, MaxFragments <- 3, MaxPushes <- 6

Export == INSTANCE FileTransport WITH Event <- Events, MaxFailures <- 3

(* "1" gives a length of one, and the magic bytes are lengths as well; the  *)
(* trailer of an envelope is its last byte.                                 *)
Bytes == {"L", "S", "1", "0"}
Length == [b \in Bytes |-> CASE b = "1" -> 1 [] b = "0" -> 0 [] b = "S" -> 2 [] b = "L" -> 9]
Trailer(bytesOf) == IF bytesOf = <<>> THEN "1" ELSE bytesOf[Len(bytesOf)]
Accepts(bytesOf) == bytesOf # <<"0">>

Chunks == INSTANCE StreamParser WITH Byte <- Bytes, LengthOf <- Length, MaxEnvelope <- 2,
              Crc <- Trailer, Valid <- Accepts, MaxChunk <- 3, MaxStream <- 7

(* Two events of one device and one of another, with an ID in common. *)
Devices == (e1 :> "a") @@ (e2 :> "a") @@ (e3 :> "b")
Numbers == (e1 :> 9) @@ (e2 :> 3) @@ (e3 :> 4)

Power == INSTANCE Collector WITH Event <- {e1, e2, e3}, Device <- Devices, SafeDevice <- {"a", "b"},
              EventId <- (e1 :> 1) @@ (e2 :> 2) @@ (e3 :> 1), Sequence <- Numbers,
              StrictReplay <- FALSE, ReplayWindow <- 4, MayDie <- FALSE, MaxStops <- 3
Stops == INSTANCE Collector WITH Event <- {e1, e2, e3}, Device <- Devices, SafeDevice <- {"a", "b"},
              EventId <- (e1 :> 1) @@ (e2 :> 1) @@ (e3 :> 1), Sequence <- Numbers,
              StrictReplay <- TRUE, ReplayWindow <- 4, MayDie <- TRUE, MaxStops <- 3

Window == INSTANCE LepReader WITH SequenceSize <- 16, WindowSize <- 4, First <- 12, MaxSent <- 7,
              MaxLate <- 8, MaxGap <- 7, Kinds <- {"aead"}, HasKey <- TRUE,
              RejectPlaintext <- TRUE, AllowLegacyHmac <- FALSE
Mixed == INSTANCE LepReader WITH SequenceSize <- 16, WindowSize <- 4, First <- 14, MaxSent <- 4,
              MaxLate <- 8, MaxGap <- 7, Kinds <- {"plain", "hmac", "aead"}, HasKey <- TRUE,
              RejectPlaintext <- TRUE, AllowLegacyHmac <- TRUE

(* One backend that takes an event in two fragments with one retry each. *)
Single == INSTANCE Transport WITH Thread <- {t1, t2, t3}, Backend <- {b1}, Score <- b1 :> 1,
              FragmentCount <- b1 :> 2, RetryLimit <- b1 :> 1, MaxTransports <- 2

ASSUME Stream!LinkAssumption /\ Steady!LinkAssumption /\ Http!LinkAssumption /\ Mqtt!LinkAssumption
ASSUME Fragments!ReassemblyAssumption /\ Export!TransportFileAssumption
ASSUME Chunks!StreamParserAssumption
ASSUME Power!CollectorAssumption /\ Stops!CollectorAssumption
ASSUME Window!ReaderAssumption /\ Mixed!ReaderAssumption

NoLink == /\ spool = Absent /\ chosen = Absent /\ offset = Absent /\ awaiting_ack = Absent
          /\ wire = Absent /\ rx = Absent /\ acks = Absent /\ stored = Absent /\ captured = Absent
          /\ restarts = Absent /\ broken = Absent
NoFragments == /\ data = Absent /\ frame = Absent /\ received = Absent /\ received_count = Absent
               /\ active = Absent /\ complete = Absent /\ taken = Absent /\ pushes = Absent
NoExport == written = Absent /\ durable = Absent
NoParser == buffer = Absent /\ frames = Absent /\ running = Absent /\ stream = Absent
NoCollector == /\ envelope = Absent /\ bytes = Absent /\ rows = Absent /\ counted = Absent
               /\ stops = Absent
NoReader == sent = Absent /\ replay = Absent /\ shown = Absent /\ visited = Absent
NoTransport == /\ transports = Absent /\ busy = Absent /\ target = Absent /\ index = Absent
               /\ attempt = Absent /\ result = Absent
NoNames == named = Absent /\ namedDurably = Absent
NoSend == pending = Absent /\ sending = Absent /\ failures = Absent

Init ==
    \/ part \in {"stream", "http", "mqtt"} /\ Stream!Init /\ NoFragments /\ NoExport /\ NoParser
       /\ NoCollector /\ NoReader /\ NoTransport /\ NoNames /\ accepted = Absent
    \/ part = "steady" /\ Steady!Init /\ NoFragments /\ NoExport /\ NoParser /\ NoCollector
       /\ NoReader /\ NoTransport /\ NoNames /\ accepted = Absent
    \/ part = "fragments" /\ Fragments!Init /\ NoLink /\ NoExport /\ NoParser /\ NoCollector
       /\ NoReader /\ NoTransport /\ NoNames /\ accepted = Absent /\ pc = Absent /\ NoSend
    \/ part = "export" /\ Export!Init /\ NoLink /\ NoFragments /\ NoParser /\ NoCollector /\ NoReader
       /\ NoTransport /\ accepted = Absent
    \/ part = "chunks" /\ Chunks!Init /\ NoLink /\ NoFragments /\ NoExport /\ NoCollector /\ NoReader
       /\ NoTransport /\ NoNames /\ accepted = Absent /\ pc = Absent /\ NoSend
    \/ part = "power" /\ Power!Init /\ NoLink /\ NoFragments /\ NoExport /\ NoParser /\ NoReader
       /\ NoTransport /\ accepted = Absent /\ sending = Absent /\ failures = Absent
    \/ part = "stops" /\ Stops!Init /\ NoLink /\ NoFragments /\ NoExport /\ NoParser /\ NoReader
       /\ NoTransport /\ accepted = Absent /\ sending = Absent /\ failures = Absent
    \/ part \in {"window", "mixed"} /\ Window!Init /\ NoLink /\ NoFragments /\ NoExport /\ NoParser
       /\ NoCollector /\ NoTransport /\ NoNames /\ pc = Absent /\ NoSend
    \/ part = "single" /\ Single!Init /\ NoLink /\ NoFragments /\ NoExport /\ NoParser
       /\ NoCollector /\ NoReader /\ NoNames /\ NoSend

send == <<pending, sending, failures>>
LinkFrame == UNCHANGED <<part, fragments, export, parser, collector, reader, transport, names, accepted>>
ExportFrame == UNCHANGED <<part, link, fragments, parser, collector, reader, transport, accepted>>
CollectorFrame == UNCHANGED <<part, link, fragments, export, parser, reader, transport, accepted,
                              sending, failures>>
ReaderFrame == UNCHANGED <<part, link, fragments, export, parser, collector, transport, names, pc, send>>
TransportFrame == UNCHANGED <<part, link, fragments, export, parser, collector, reader, names, send>>

Next ==
    \/ part = "stream" /\ Stream!Next /\ LinkFrame
    \/ part = "steady" /\ Steady!Next /\ LinkFrame
    \/ part = "http" /\ Http!Next /\ LinkFrame
    \/ part = "mqtt" /\ Mqtt!Next /\ LinkFrame
    \/ part = "fragments" /\ Fragments!Next
       /\ UNCHANGED <<part, link, export, parser, collector, reader, transport, names, accepted, pc, send>>
    \/ part = "export" /\ Export!Next /\ ExportFrame
    \/ part = "chunks" /\ Chunks!Next
       /\ UNCHANGED <<part, link, fragments, export, collector, reader, transport, names, accepted, pc,
                      send>>
    \/ part = "power" /\ Power!Next /\ CollectorFrame
    \/ part = "stops" /\ Stops!Next /\ CollectorFrame
    \/ part = "window" /\ Window!Next /\ ReaderFrame
    \/ part = "mixed" /\ Mixed!Next /\ ReaderFrame
    \/ part = "single" /\ Single!Next /\ TransportFrame

(* A flush that has begun runs on and is repeated while there is a record,  *)
(* and the collector reads what arrives; an export goes on and the spool    *)
(* keeps sending; the collector runs and is started again, and every device *)
(* sends again what is not acknowledged, over a stream that is fair to it.  *)
Spec == /\ Init /\ [][Next]_vars
        /\ WF_vars(part = "steady" /\ Steady!Collect /\ LinkFrame)
        /\ WF_vars(part = "steady" /\ Steady!SendStep(t1) /\ LinkFrame)
        /\ WF_vars(part = "export" /\ Export!SendStep /\ ExportFrame)
        /\ \A e \in Events : WF_vars(part = "export" /\ Export!Start(e) /\ ExportFrame)
        /\ WF_vars(part = "power" /\ Power!PersistStep /\ CollectorFrame)
        /\ \A e \in {e1, e2, e3} : SF_vars(part = "power" /\ Power!Receive(e) /\ CollectorFrame)

-----------------------------------------------------------------------------
(* Every component keeps to its types: among them, one thread at a time     *)
(* writes a frame, the buffer and the bitmap of a reassembly are never      *)
(* overrun, and the parser returns only valid envelopes.                    *)
TypeOK == /\ part = "stream" => Stream!TypeOK
          /\ part = "steady" => Steady!TypeOK
          /\ part \in {"http", "mqtt"} => Http!TypeOK
          /\ part = "fragments" => Fragments!TypeOK
          /\ part = "export" => Export!TypeOK
          /\ part = "chunks" => Chunks!TypeOK
          /\ part = "power" => Power!TypeOK
          /\ part = "stops" => Stops!TypeOK
          /\ part = "window" => Window!TypeOK
          /\ part = "mixed" => Mixed!TypeOK
          /\ part = "single" => Single!TypeOK


(* Sends do not mix.  acquire_stream resumes a pending frame only with the  *)
(* same event: as long as nothing was lost and no frame given up after an   *)
(* error or a restart, what arrives is whole frames, of which the last may  *)
(* be incomplete; and with one backend in use, two threads are never inside *)
(* ls_transport_send of it.                                                 *)
SendsDoNotMix == /\ part \in {"stream", "steady"} => Stream!FramesAreWhole
                 /\ part = "single" => Single!OneSenderPerBackend

(* A receiver puts together what was sent.  An envelope is complete in      *)
(* ls_transport_reassembly_push once all its fragments were taken, in any   *)
(* order and however often each came, and is then, byte for byte, one that  *)
(* was sent; the frames that StreamParser.feed returns do not depend on     *)
(* where the stream is cut into chunks, and its buffer never holds more     *)
(* than an incomplete frame.                                                *)
ReceivedIsExact ==
    /\ part = "fragments" => Fragments!CompleteIsExact /\ Fragments!CompleteWhenAllThere
    /\ part = "chunks" => Chunks!ChunksDoNotMatter /\ Chunks!BufferBounded

(* The replay window of ls_envelope_replay_accept is exact, across the wrap *)
(* and in any order of arrival, and nothing that fails authentication moves *)
(* it; visitors only get what is authenticated (docs/lep-v1.md: "must       *)
(* authenticate before exposing decrypted TLVs"); and ls_replay_accept,     *)
(* which keeps its window without a flag, answers alike.                    *)
ReplayWindowExact ==
    /\ part = "window" => /\ Window!WindowExact /\ Window!VisitedIsTrusted
                          /\ Window!RuntimeWindowAgrees
    /\ part = "mixed" => Mixed!WindowExact /\ Mixed!VisitedIsTrusted


Undelivered(e) == part = "steady" /\ e \in captured /\ e \notin stored

(* Every event is delivered by ls_spool_flush over the stream, once the     *)
(* link stops failing, if no more important one overtakes a pending frame;  *)
(* every event is exported to its file; and every event is acknowledged by  *)
(* the collector, whatever is lost on the way, if no two share a name.      *)
EverythingArrives == /\ \A e \in Events : Undelivered(e) ~> ~Undelivered(e)
                     /\ <>(part = "export" => pending = {})
                     /\ <>(part = "power" => pending = {})
=============================================================================
