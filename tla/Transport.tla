------------------------------ MODULE Transport ------------------------------
(***************************************************************************)
(* The transport facade of Latch (src/transport/transport.c): the          *)
(* registry, the choice of a backend, the table of busy backends, and a    *)
(* send with its fragments and retries, called from several threads.       *)
(* Registry and busy table are only touched between ls_enter_critical and  *)
(* ls_leave_critical, so each of those blocks is one step; a backend's own *)
(* callbacks run outside.                                                  *)
(***************************************************************************)
EXTENDS Integers, Sequences, FiniteSets, SequencesExt

CONSTANTS
    Thread,             \* callers of ls_transport_send
    Backend,            \* transport backends, known to the application
    NoBackend,          \* a null pointer
    Score,              \* Score[b], the selection score of ls_transport_select
    FragmentCount,      \* FragmentCount[b], pieces of an event for b; 1 is a whole send
    RetryLimit,         \* RetryLimit[b], the retry_limit of b
    MaxTransports       \* LS_MAX_TRANSPORTS

ASSUME TransportAssumption ==
    /\ NoBackend \notin Backend
    /\ Score \in [Backend -> Int]
    /\ FragmentCount \in [Backend -> Nat \ {0}]
    /\ RetryLimit \in [Backend -> Nat]
    /\ MaxTransports \in Nat \ {0}

VARIABLES
    transports,         \* ls_runtime.transports, in order of registration
    busy,               \* busy_transports
    pc,                 \* where a thread is
    target,             \* the backend a thread uses
    index,              \* the fragment a thread is sending
    attempt,            \* retries of that fragment so far
    accepted,           \* history: fragments the backend took in this send
    result              \* what ls_transport_send returned, until the next call

vars == <<transports, busy, pc, target, index, attempt, accepted, result>>
call == <<target, index, attempt, accepted>>

Index == 1..MaxTransports

Init == /\ transports = <<>>
        /\ busy = [i \in Index |-> NoBackend]
        /\ pc = [t \in Thread |-> "idle"]
        /\ target = [t \in Thread |-> NoBackend]
        /\ index = [t \in Thread |-> 0]
        /\ attempt = [t \in Thread |-> 0]
        /\ accepted = [t \in Thread |-> {}]
        /\ result = [t \in Thread |-> "none"]

-----------------------------------------------------------------------------
(* ls_transport_register: once each, up to the capacity. *)
Register(b) ==
    /\ b \notin ToSet(transports)
    /\ Len(transports) < MaxTransports
    /\ transports' = Append(transports, b)
    /\ UNCHANGED <<busy, pc, call, result>>

(* ls_transport_clear: the busy table is left alone. *)
Clear ==
    /\ transports # <<>>
    /\ transports' = <<>>
    /\ UNCHANGED <<busy, pc, call, result>>

(* ls_transport_select over the registered backends that can send now: the  *)
(* highest score, the first registered among equals.                        *)
Best(i, usable) ==
    /\ transports[i] \in usable
    /\ \A j \in DOMAIN transports : transports[j] \in usable =>
          \/ Score[transports[i]] > Score[transports[j]]
          \/ Score[transports[i]] = Score[transports[j]] /\ i <= j

Select(t) ==
    /\ pc[t] = "idle"
    /\ \E usable \in SUBSET Backend, i \in DOMAIN transports :
          /\ Best(i, usable)
          /\ target' = [target EXCEPT ![t] = transports[i]]
    /\ pc' = [pc EXCEPT ![t] = "selected"]
    /\ result' = [result EXCEPT ![t] = "none"]
    /\ UNCHANGED <<transports, busy, index, attempt, accepted>>

-----------------------------------------------------------------------------
(* The end of a call: its local variables go out of scope. *)
Return(t, r) ==
    /\ pc' = [pc EXCEPT ![t] = "idle"]
    /\ result' = [result EXCEPT ![t] = r]
    /\ target' = [target EXCEPT ![t] = NoBackend]
    /\ index' = [index EXCEPT ![t] = 0]
    /\ attempt' = [attempt EXCEPT ![t] = 0]
    /\ accepted' = [accepted EXCEPT ![t] = {}]

(* available() says no by now, or the event does not fit the backend. *)
SendRejected(t) ==
    /\ pc[t] = "selected"
    /\ Return(t, "error")
    /\ UNCHANGED <<transports, busy>>

(* acquire_transport stops at the first entry that is free or is the        *)
(* backend itself.                                                          *)
StopsAt(b, i) ==
    /\ busy[i] \in {b, NoBackend}
    /\ \A j \in 1..(i - 1) : busy[j] \notin {b, NoBackend}

Acquirable(b, i) == StopsAt(b, i) /\ busy[i] = NoBackend

Acquire(t) ==
    /\ pc[t] = "selected"
    /\ \E i \in Index : /\ Acquirable(target[t], i)
                        /\ busy' = [busy EXCEPT ![i] = target[t]]
    /\ pc' = [pc EXCEPT ![t] = "sending"]
    /\ UNCHANGED <<transports, call, result>>

(* LS_EBUSY. *)
Refuse(t) ==
    /\ pc[t] = "selected"
    /\ \A i \in Index : ~Acquirable(target[t], i)
    /\ Return(t, "busy")
    /\ UNCHANGED <<transports, busy>>

(* The backend takes the fragment; the next one starts with no retries. *)
SendOk(t) ==
    LET last == index[t] + 1 = FragmentCount[target[t]]
    IN  /\ pc[t] = "sending"
        /\ accepted' = [accepted EXCEPT ![t] = @ \cup {index[t]}]
        /\ index' = [index EXCEPT ![t] = IF last THEN @ ELSE @ + 1]
        /\ attempt' = [attempt EXCEPT ![t] = 0]
        /\ pc' = [pc EXCEPT ![t] = IF last THEN "sent" ELSE "sending"]
        /\ UNCHANGED <<transports, busy, target, result>>

MayRetry(t) == attempt[t] < RetryLimit[target[t]]

(* Fault: the retry counter starts over at the limit. *)
SendRetried_StartsOver(t) ==
    /\ pc[t] = "sending"
    /\ attempt' = [attempt EXCEPT ![t] = IF MayRetry(t) THEN @ + 1 ELSE 0]
    /\ UNCHANGED <<transports, busy, pc, target, index, accepted, result>>

(* should_retry: LS_EAGAIN or LS_EBUSY, and the limit is not reached. *)
SendRetried(t) ==
    /\ pc[t] = "sending"
    /\ MayRetry(t)
    /\ attempt' = [attempt EXCEPT ![t] = @ + 1]
    /\ UNCHANGED <<transports, busy, pc, target, index, accepted, result>>

(* Fault: the loop over the fragments goes on after an error. *)
SendFailed_GoesOn(t) ==
    /\ pc[t] = "sending"
    /\ IF index[t] + 1 < FragmentCount[target[t]]
       THEN index' = [index EXCEPT ![t] = @ + 1] /\ UNCHANGED pc
       ELSE pc' = [pc EXCEPT ![t] = "failed"] /\ UNCHANGED index
    /\ UNCHANGED <<transports, busy, target, attempt, accepted, result>>

(* An error that is not retried ends the loop over the fragments. *)
SendFailed(t) ==
    /\ pc[t] = "sending"
    /\ pc' = [pc EXCEPT ![t] = "failed"]
    /\ UNCHANGED <<transports, busy, call, result>>

(* Fault: every entry of the backend is cleared. *)
Released_All(b, i) == busy[i] = b

(* release_transport clears the first entry of the backend. *)
Released(b, i) == busy[i] = b /\ \A j \in 1..(i - 1) : busy[j] # b

Release(t) ==
    /\ pc[t] \in {"sent", "failed"}
    /\ busy' = [i \in Index |-> IF Released(target[t], i) THEN NoBackend ELSE busy[i]]
    /\ Return(t, IF pc[t] = "sent" THEN "ok" ELSE "error")
    /\ UNCHANGED transports

-----------------------------------------------------------------------------
SendStep(t) == \/ SendRejected(t) \/ Acquire(t) \/ Refuse(t) \/ SendOk(t)
               \/ SendRetried(t) \/ SendFailed(t) \/ Release(t)

Next == \/ Clear
        \/ \E b \in Backend : Register(b)
        \/ \E t \in Thread : Select(t) \/ SendStep(t)

Spec == Init /\ [][Next]_vars

(* A thread inside a call keeps running. *)
FairSpec == Spec /\ \A t \in Thread : WF_vars(SendStep(t))

-----------------------------------------------------------------------------
(* Types, with the bounds on the registry and on the retries. *)
TypeOK ==
    /\ transports \in SeqOf(Backend, MaxTransports)
    /\ busy \in [Index -> Backend \cup {NoBackend}]
    /\ pc \in [Thread -> {"idle", "selected", "sending", "sent", "failed"}]
    /\ target \in [Thread -> Backend \cup {NoBackend}]
    /\ \A t \in Thread : pc[t] # "idle" =>
          /\ target[t] \in Backend
          /\ index[t] \in 0..(FragmentCount[target[t]] - 1)
          /\ attempt[t] \in 0..RetryLimit[target[t]]
    /\ result \in [Thread -> {"none", "ok", "busy", "error"}]

Senders(b) == {t \in Thread : target[t] = b /\ pc[t] \in {"sending", "sent", "failed"}}

(* The busy table has exactly one entry for each send in progress, so no    *)
(* entry is leaked by an error path and no send loses its entry to the      *)
(* release of another one.                                                  *)
TableMatchesSenders ==
    \A b \in Backend : Cardinality({i \in Index : busy[i] = b}) = Cardinality(Senders(b))

(* A backend is acquired for the duration of ls_transport_send: two threads *)
(* are never inside the same backend.                                       *)
OneSenderPerBackend == \A b \in Backend : Cardinality(Senders(b)) <= 1

(* What ls_transport_send returns is true: LS_OK when every fragment of the *)
(* event was accepted in this call, whatever errors and retries came in     *)
(* between, and LS_EBUSY only while another thread is inside the same       *)
(* backend or every entry of the table is taken.                            *)
ResultIsTrue ==
    [][\A t \in Thread :
          /\ pc[t] = "sent" /\ pc'[t] = "idle"
                => accepted[t] = 0..(FragmentCount[target[t]] - 1)
          /\ pc[t] = "selected" /\ pc'[t] = "idle" /\ result'[t] = "busy"
                => Senders(target[t]) # {} \/ \A i \in Index : busy[i] # NoBackend]_vars

(* Every ls_transport_send returns: retries and fragments are bounded. *)
EverySendReturns == \A t \in Thread : pc[t] # "idle" ~> pc[t] = "idle"
=============================================================================
