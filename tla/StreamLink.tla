----------------------------- MODULE StreamLink -----------------------------
(***************************************************************************)
(* Delivery over a byte stream or a network (src/transport/stream.c,       *)
(* network.c) from ls_spool_flush to the collector and back.  A frame is   *)
(* its header, its envelope and its trailer, each a write of its own; the  *)
(* collector stores an envelope and answers with an LSAK message; then the *)
(* record is acknowledged in the spool.  Flushes run in several threads.   *)
(* An event stands for its record and its envelope; the two CRCs of a      *)
(* frame tell it from any mixture.                                         *)
(***************************************************************************)
EXTENDS Integers, Sequences, SequencesExt, FiniteSets

CONSTANTS
    Thread,             \* callers of ls_spool_flush
    Event,              \* events to deliver
    None,
    Priority,           \* Priority[e]: the lower, the more important
    Link,               \* "stream", "http" or "mqtt"
    MaxFailures,        \* bound on failures of the link and of the collector
    MaxRestarts         \* bound on restarts of the device

LinkAssumption ==
    /\ None \notin Event
    /\ Priority \in [Event -> Nat]
    /\ Link \in {"stream", "http", "mqtt"}
    /\ MaxFailures \in Nat /\ MaxRestarts \in Nat

Frame(e) == <<[part |-> "header", of |-> e], [part |-> "payload", of |-> e],
              [part |-> "trailer", of |-> e]>>

VARIABLES
    spool,              \* the committed records, in order of their sequence
    pc, chosen,         \* what a thread does next, and its record
    pending,            \* the event of the pending frame
    offset,             \* how many parts of it are written
    awaiting_ack, sending,
    wire,               \* parts on their way to the collector
    rx,                 \* parts the collector has of a frame
    acks,               \* LSAK messages on their way back
    stored,             \* events the collector has
    captured,           \* events captured so far
    failures, restarts,
    broken              \* history: whether a frame was given up part way, or a part lost

stream == <<pending, offset, awaiting_ack, sending>>
collector == <<wire, rx, acks, stored>>
bounds == <<failures, restarts>>
vars == <<spool, pc, chosen, stream, collector, captured, bounds, broken>>

Init == /\ spool = <<>>
        /\ pc = [t \in Thread |-> "idle"] /\ chosen = [t \in Thread |-> None]
        /\ pending = None /\ offset = 0 /\ awaiting_ack = FALSE /\ sending = FALSE
        /\ wire = <<>> /\ rx = <<>> /\ acks = {} /\ stored = {}
        /\ captured = {}
        /\ failures = 0 /\ restarts = 0
        /\ broken = FALSE

Fails == failures < MaxFailures /\ failures' = failures + 1

-----------------------------------------------------------------------------
(* An event is captured and committed to the spool. *)
Capture(e) ==
    /\ e \notin captured
    /\ captured' = captured \cup {e}
    /\ spool' = Append(spool, e)
    /\ UNCHANGED <<pc, chosen, stream, collector, bounds, broken>>

(* ls_spool_flush takes the most important record, the oldest among equals. *)
ls_spool_flush(t) ==
    /\ pc[t] = "idle" /\ spool # <<>>
    /\ LET best == CHOOSE i \in DOMAIN spool : \A j \in DOMAIN spool :
                       \/ Priority[spool[i]] < Priority[spool[j]]
                       \/ Priority[spool[i]] = Priority[spool[j]] /\ i <= j
       IN  chosen' = [chosen EXCEPT ![t] = spool[best]]
    /\ pc' = [pc EXCEPT ![t] = IF Link = "stream" THEN "acquire" ELSE "post"]
    /\ UNCHANGED <<spool, stream, collector, captured, bounds, broken>>

(* The flush ends with an error; the record stays. *)
Return(t) == /\ pc' = [pc EXCEPT ![t] = "idle"]
             /\ chosen' = [chosen EXCEPT ![t] = None]

(* acknowledge_record: the record is consumed. *)
Acknowledge(t) ==
    /\ pc[t] = "sent"
    /\ spool' = SelectSeq(spool, LAMBDA e : e # chosen[t])
    /\ Return(t)
    /\ UNCHANGED <<stream, collector, captured, bounds, broken>>

-----------------------------------------------------------------------------
(* Fault: a pending frame of another event is not looked at. *)
MayAcquire_Other(e) == ~sending

MayAcquire(e) == ~sending /\ pending \in {None, e}

acquire_stream(t) ==
    /\ pc[t] = "acquire"
    /\ IF MayAcquire(chosen[t])
       THEN /\ sending' = TRUE
            /\ pending' = chosen[t]
            /\ offset' = IF pending = None THEN 0 ELSE offset
            /\ awaiting_ack' = (pending # None /\ awaiting_ack)
            /\ pc' = [pc EXCEPT ![t] = "write"]
            /\ UNCHANGED chosen
       ELSE Return(t) /\ UNCHANGED stream
    /\ UNCHANGED <<spool, collector, captured, bounds, broken>>

clear_pending == pending' = None /\ offset' = 0 /\ awaiting_ack' = FALSE

(* Fault: after a timeout only the acknowledgement is waited for again. *)
release_stream_NoResend(result) ==
    /\ IF result = "again" THEN UNCHANGED <<pending, offset, awaiting_ack>> ELSE clear_pending
    /\ sending' = FALSE

(* release_stream: after LS_EAGAIN the frame goes on where it stopped, or,  *)
(* when it was complete, from its start.                                    *)
release_stream(result) ==
    /\ CASE result = "again" /\ awaiting_ack ->
              offset' = 0 /\ awaiting_ack' = FALSE /\ UNCHANGED pending
         [] result = "again" /\ ~awaiting_ack -> UNCHANGED <<pending, offset, awaiting_ack>>
         [] OTHER -> clear_pending
    /\ sending' = FALSE

(* A write of the next part of the frame: taken whole, or not at all. *)
Write(t) ==
    /\ pc[t] = "write" /\ ~awaiting_ack /\ offset < 3
    /\ \/ /\ wire' = Append(wire, Frame(chosen[t])[offset + 1])
          /\ offset' = offset + 1
          /\ UNCHANGED <<pc, chosen, pending, awaiting_ack, sending, failures, broken>>
       \/ \E result \in {"again", "error"} :
          /\ Fails
          /\ release_stream(result)
          /\ broken' = (broken \/ (result = "error" /\ offset > 0))
          /\ Return(t)
          /\ UNCHANGED wire
    /\ UNCHANGED <<spool, rx, acks, stored, captured, restarts>>

(* An LSAK message: a damaged one is not accepted, one of another event is  *)
(* not the answer.                                                          *)
ls_lsak_parse(m) == m.intact

ls_lsak_is_success(status) == status \in {"stored", "duplicate"}

Answers(e) == {m \in acks : ls_lsak_parse(m) /\ m.of = e /\ ls_lsak_is_success(m.status)}

(* wait_ack; without an answer it times out. *)
WaitAck(t) ==
    /\ pc[t] = "write" /\ (awaiting_ack \/ offset = 3)
    /\ \/ ~awaiting_ack /\ awaiting_ack' = TRUE
          /\ UNCHANGED <<pc, chosen, pending, offset, sending, acks, failures>>
       \/ \E m \in Answers(chosen[t]) :
          /\ awaiting_ack
          /\ acks' = acks \ {m}
          /\ release_stream("ok")
          /\ pc' = [pc EXCEPT ![t] = "sent"]
          /\ UNCHANGED <<chosen, failures>>
       \/ /\ awaiting_ack
          /\ \/ Fails
             \/ wire = <<>> /\ Answers(chosen[t]) = {} /\ UNCHANGED failures
          /\ release_stream("again")
          /\ Return(t)
          /\ UNCHANGED acks
    /\ UNCHANGED <<spool, wire, rx, stored, captured, restarts, broken>>

(* ls_stream_transport_reset, by the application. *)
ls_stream_transport_reset ==
    /\ ~sending /\ pending # None
    /\ Fails
    /\ clear_pending
    /\ broken' = (broken \/ offset > 0)
    /\ UNCHANGED <<spool, pc, chosen, sending, collector, captured, restarts>>

-----------------------------------------------------------------------------
(* The result of a request by its status. *)
Accepted(status) == status = "2xx"

(* ls_http_transport_send: the request or its response may be lost.  The    *)
(* server answers 2xx only when it has stored the envelope.                 *)
ls_http_transport_send(t) ==
    /\ pc[t] = "post" /\ Link = "http"
    /\ \E status \in {"2xx", "3xx", "5xx", "lost"}, arrives \in BOOLEAN :
          /\ status = "2xx" => arrives
          /\ status # "2xx" => failures < MaxFailures
          /\ failures' = IF status = "2xx" THEN failures ELSE failures + 1
          /\ stored' = IF arrives THEN stored \cup {chosen[t]} ELSE stored
          /\ IF Accepted(status) THEN pc' = [pc EXCEPT ![t] = "sent"] /\ UNCHANGED chosen
             ELSE Return(t)
    /\ UNCHANGED <<spool, stream, wire, rx, acks, captured, restarts, broken>>

(* ls_mqtt_transport_send, with a publish that waits for the broker. *)
ls_mqtt_transport_send(t) ==
    /\ pc[t] = "post" /\ Link = "mqtt"
    /\ \E ok \in BOOLEAN, arrives \in BOOLEAN :
          /\ ok => arrives
          /\ ~ok => failures < MaxFailures
          /\ failures' = IF ok THEN failures ELSE failures + 1
          /\ stored' = IF arrives THEN stored \cup {chosen[t]} ELSE stored
          /\ IF ok THEN pc' = [pc EXCEPT ![t] = "sent"] /\ UNCHANGED chosen ELSE Return(t)
    /\ UNCHANGED <<spool, stream, wire, rx, acks, captured, restarts, broken>>

-----------------------------------------------------------------------------
Answer(e, status) == [of |-> e, status |-> status, intact |-> TRUE]

(* ls_stream_frame_parse: what a frame of three parts is. *)
ls_stream_frame_parse(parts) == \E e \in Event : parts = Frame(e)

(* The collector takes the next part.  It looks for a header, and then the  *)
(* length in it says where the frame ends.                                  *)
Collect ==
    /\ wire # <<>>
    /\ wire' = Tail(wire)
    /\ LET parts == Append(rx, Head(wire))
           e == parts[1].of
       IN  CASE Len(parts) = 1 /\ Head(wire).part # "header" -> UNCHANGED <<rx, acks, stored>>
             [] Len(parts) < 3 /\ parts[1].part = "header" -> rx' = parts /\ UNCHANGED <<acks, stored>>
             [] OTHER ->
                  /\ rx' = <<>>
                  /\ IF ls_stream_frame_parse(parts)
                     THEN /\ stored' = stored \cup {e}
                          /\ acks' = acks \cup {Answer(e, IF e \in stored THEN "duplicate" ELSE "stored")}
                     ELSE acks' = acks \cup {Answer(e, "nack")} /\ UNCHANGED stored
    /\ UNCHANGED <<spool, pc, chosen, stream, captured, bounds, broken>>

(* The collector cannot store the envelope, and says so. *)
CollectBusy ==
    /\ wire # <<>> /\ ls_stream_frame_parse(Append(rx, Head(wire)))
    /\ Fails
    /\ wire' = Tail(wire) /\ rx' = <<>>
    /\ acks' = acks \cup {Answer(rx[1].of, "nack")}
    /\ UNCHANGED <<spool, pc, chosen, stream, stored, captured, restarts, broken>>

(* The link loses a part, or damages or loses an answer. *)
Lose ==
    /\ Fails
    /\ \/ wire # <<>> /\ wire' = Tail(wire) /\ broken' = TRUE /\ UNCHANGED acks
       \/ \E m \in acks : /\ m.intact
                          /\ acks' = (acks \ {m}) \cup {[m EXCEPT !.intact = FALSE]}
                          /\ UNCHANGED <<wire, broken>>
    /\ UNCHANGED <<spool, pc, chosen, stream, rx, stored, captured, restarts>>

(* The device restarts: the spool is kept, the state of the stream is not   *)
(* (ls_stream_transport_init).                                              *)
Restart ==
    /\ restarts < MaxRestarts /\ restarts' = restarts + 1
    /\ pc' = [t \in Thread |-> "idle"] /\ chosen' = [t \in Thread |-> None]
    /\ clear_pending /\ sending' = FALSE
    /\ broken' = (broken \/ offset > 0)
    /\ UNCHANGED <<spool, collector, captured, failures>>

-----------------------------------------------------------------------------
SendStep(t) == \/ ls_spool_flush(t) \/ acquire_stream(t) \/ Write(t) \/ WaitAck(t)
               \/ ls_http_transport_send(t) \/ ls_mqtt_transport_send(t) \/ Acknowledge(t)

Next == \/ \E e \in Event : Capture(e)
        \/ \E t \in Thread : SendStep(t)
        \/ ls_stream_transport_reset
        \/ Collect \/ CollectBusy \/ Lose \/ Restart

Spec == Init /\ [][Next]_vars

-----------------------------------------------------------------------------
(* Types; only one thread writes a frame. *)
TypeOK ==
    /\ ToSet(spool) \subseteq captured /\ captured \subseteq Event
    /\ chosen \in [Thread -> Event \cup {None}]
    /\ pc \in [Thread -> {"idle", "acquire", "write", "post", "sent"}]
    /\ pending \in Event \cup {None} /\ offset \in 0..3
    /\ Cardinality({t \in Thread : pc[t] = "write"}) <= 1

(* A record leaves the spool only when the collector has stored its event,  *)
(* whatever is lost, damaged, repeated or refused on the way.               *)
DeliveredBeforeConsumed == \A e \in captured : e \in ToSet(spool) \/ e \in stored

(* A pending frame is resumed only with the same event: as long as nothing  *)
(* was lost and no frame given up after an error or a restart, what arrives *)
(* is whole frames, of which the last may be incomplete, retries or not.    *)
FramesAreWhole ==
    LET line == rx \o wire
        start(i) == 3 * ((i - 1) \div 3)
    IN  ~broken => \A i \in DOMAIN line :
                       line[i] = Frame(line[start(i) + 1].of)[i - start(i)]
=============================================================================
