-------------------------- MODULE Transport_proofs --------------------------
(***************************************************************************)
(* Proofs about Transport: the table of busy backends, and what            *)
(* ls_transport_send returns.                                              *)
(***************************************************************************)
EXTENDS Transport, FiniteSetTheorems, WellFoundedInduction, TLAPS

Pcs == {"idle", "selected", "sending", "sent", "failed"}
InBackend == {"sending", "sent", "failed"}

(* The local variables of a call are reset between calls, and the fragments *)
(* before the current one have been accepted.                               *)
Call(t) ==
    /\ pc[t] \in {"idle", "selected"} => index[t] = 0 /\ attempt[t] = 0 /\ accepted[t] = {}
    /\ pc[t] # "idle" => /\ target[t] \in Backend
                         /\ index[t] < FragmentCount[target[t]]
                         /\ attempt[t] <= RetryLimit[target[t]]
    /\ pc[t] = "sending" => accepted[t] = 0..(index[t] - 1)
    /\ pc[t] = "sent" => accepted[t] = 0..(FragmentCount[target[t]] - 1)

Calls ==
    /\ pc \in [Thread -> Pcs]
    /\ target \in [Thread -> Backend \cup {NoBackend}]
    /\ index \in [Thread -> Nat] /\ attempt \in [Thread -> Nat]
    /\ accepted \in [Thread -> SUBSET Nat]
    /\ result \in [Thread -> {"none", "ok", "busy", "error"}]
    /\ \A t \in Thread : Call(t)

(* The registry holds backends, and no more than it has room for. *)
Registry == /\ transports \in Seq(Backend)
            /\ Len(transports) <= MaxTransports

Entries(b) == {i \in Index : busy[i] = b}

(* The table has as many entries of a backend as threads are inside it. *)
Table ==
    /\ busy \in [Index -> Backend \cup {NoBackend}]
    /\ \A b \in Backend : /\ IsFiniteSet(Senders(b))
                          /\ Cardinality(Entries(b)) = Cardinality(Senders(b))

TInv == Calls /\ Registry /\ Table
-----------------------------------------------------------------------------
(* A set of natural numbers has a least one. *)
LEMMA LeastNumber ==
    ASSUME NEW T \in SUBSET Nat, T # {}
    PROVE  \E x \in T : \A y \in T : x <= y
<1>1. \E x \in T : \A y \in T : ~(<<y, x>> \in OpToRel(<, Nat))
  BY NatLessThanWellFounded, WFMin, Zenon
<1>2. ASSUME NEW x \in T, NEW y \in T, y < x PROVE <<y, x>> \in OpToRel(<, Nat)
  BY <1>2 DEF OpToRel
<1>3. \E x \in T : \A y \in T : ~(y < x)
  BY <1>1, <1>2, Zenon
<1>4. QED
  BY <1>3

(* The entries of a backend are finitely many. *)
LEMMA EntriesFinite ==
    \A b : IsFiniteSet(Entries(b)) /\ Entries(b) \subseteq Nat /\ Cardinality(Entries(b)) \in Nat
<1> TAKE b
<1>1. IsFiniteSet(Index) /\ Index \subseteq Nat
  BY TransportAssumption, FS_Interval DEF Index
<1>2. Entries(b) \subseteq Index
  BY DEF Entries
<1>3. QED
  BY <1>1, <1>2, FS_Subset, FS_CardinalityType

(* acquire_transport takes the first free entry unless the backend comes    *)
(* before it: a backend that is nowhere in a table with a free entry can be *)
(* acquired.                                                                *)
LEMMA FreeEntryFound ==
    ASSUME NEW b \in Backend, Entries(b) = {}, NEW k \in Index, busy[k] = NoBackend
    PROVE  \E i \in Index : Acquirable(b, i)
<1>1. Index \subseteq Nat
  BY TransportAssumption DEF Index
<1>2. PICK i \in {j \in Index : busy[j] = NoBackend} : \A j \in {l \in Index : busy[l] = NoBackend} : i <= j
  BY <1>1, LeastNumber
<1>3. \A j \in 1..(i - 1) : j \in Index /\ j < i
  BY <1>2, TransportAssumption DEF Index
<1>4. \A j \in 1..(i - 1) : busy[j] # NoBackend /\ busy[j] # b
  BY <1>1, <1>2, <1>3 DEF Entries
<1>5. QED
  BY <1>2, <1>4 DEF Acquirable, StopsAt

(* release_transport finds an entry when the backend has one. *)
LEMMA FirstEntryFound ==
    ASSUME NEW b \in Backend, Entries(b) # {}
    PROVE  \E i \in Index : Released(b, i) /\ \A j \in Index : Released(b, j) => j = i
<1>1. Index \subseteq Nat
  BY TransportAssumption DEF Index
<1>2. PICK i \in Entries(b) : \A j \in Entries(b) : i <= j
  BY LeastNumber, EntriesFinite
<1>3. i \in Index /\ busy[i] = b
  BY <1>2 DEF Entries
<1>4. \A j \in 1..(i - 1) : j \in Index /\ j < i
  BY <1>3, TransportAssumption DEF Index
<1>5. Released(b, i)
  BY <1>1, <1>2, <1>3, <1>4 DEF Released, Entries
<1>6. ASSUME NEW j \in Index, Released(b, j) PROVE j = i
  <2>1. j \in Entries(b) /\ j \in Nat /\ i \in Nat
    BY <1>1, <1>3, <1>6 DEF Released, Entries
  <2>2. i <= j
    BY <1>2, <2>1
  <2>3. i < j => i \in 1..(j - 1)
    BY <1>3, <2>1, TransportAssumption DEF Index
  <2>4. QED
    BY <1>3, <1>6, <2>1, <2>2, <2>3 DEF Released
<1>7. QED
  BY <1>3, <1>5, <1>6
-----------------------------------------------------------------------------
(* The steps.                                                              *)

(* Before the first send the busy table is empty and so is every call.     *)
LEMMA InitTInv == Init => TInv
<1> SUFFICES ASSUME Init PROVE TInv
  OBVIOUS
<1>1. Calls
  BY DEF Init, Calls, Call, Pcs
<1>2. Registry
  BY TransportAssumption DEF Init, Registry
<1>3. Table
  <2>1. busy \in [Index -> Backend \cup {NoBackend}]
    BY DEF Init
  <2>2. \A b \in Backend : Senders(b) = {} /\ Entries(b) = {}
    BY TransportAssumption DEF Init, Senders, Entries
  <2>3. QED
    BY <2>1, <2>2, FS_EmptySet DEF Table
<1>4. QED
  BY <1>1, <1>2, <1>3 DEF TInv

(* ls_transport_select finds a registered backend. *)
LEMMA SelectTarget ==
    ASSUME Calls, Registry, NEW t \in Thread, Select(t)
    PROVE  target' \in [Thread -> Backend \cup {NoBackend}] /\ target'[t] \in Backend
<1>1. PICK i \in DOMAIN transports : target' = [target EXCEPT ![t] = transports[i]]
  BY DEF Select
<1>2. transports[i] \in Backend
  BY <1>1 DEF Registry
<1>3. QED
  BY <1>1, <1>2 DEF Calls

(* Each step of a thread keeps its local variables in order. *)
LEMMA StepCalls ==
    ASSUME Calls, Registry, NEW t \in Thread, Select(t) \/ SendStep(t)
    PROVE  Calls'
<1> USE TransportAssumption
<1>0. \A b \in Backend : FragmentCount[b] \in Nat /\ FragmentCount[b] >= 1 /\ RetryLimit[b] \in Nat
  OBVIOUS
<1>a. \A u \in Thread : Call(u)
  BY DEF Calls
<1> DEFINE Types == /\ pc \in [Thread -> Pcs] /\ target \in [Thread -> Backend \cup {NoBackend}]
                    /\ index \in [Thread -> Nat] /\ attempt \in [Thread -> Nat]
                    /\ accepted \in [Thread -> SUBSET Nat]
                    /\ result \in [Thread -> {"none", "ok", "busy", "error"}]
           Others == \A u \in Thread : u # t =>
                        /\ pc'[u] = pc[u] /\ target'[u] = target[u] /\ index'[u] = index[u]
                        /\ attempt'[u] = attempt[u] /\ accepted'[u] = accepted[u]
<1>b. Types
  BY DEF Calls
<1>c. ASSUME Types', Others, Call(t)' PROVE Calls'
  <2>1. ASSUME NEW u \in Thread, u # t PROVE Call(u)'
    BY <1>a, <1>c, <2>1 DEF Call
  <2>2. QED
    BY <1>c, <2>1 DEF Calls
<1>1. CASE Select(t)
  <2>1. target' \in [Thread -> Backend \cup {NoBackend}] /\ target'[t] \in Backend
    BY <1>1, SelectTarget
  <2>2. /\ pc'[t] = "selected" /\ pc[t] = "idle" /\ UNCHANGED <<index, attempt, accepted>>
        /\ pc' \in [Thread -> Pcs] /\ result' \in [Thread -> {"none", "ok", "busy", "error"}]
    BY <1>1, <1>b DEF Select, Pcs
  <2>3. Others
    BY <1>1, <1>b DEF Select
  <2>4. Call(t)'
    BY <1>0, <1>a, <2>1, <2>2 DEF Call
  <2>5. QED
    BY <1>b, <1>c, <2>1, <2>2, <2>3, <2>4
<1>2. CASE SendRejected(t) \/ Refuse(t) \/ Release(t)
  <2>1. PICK r \in {"none", "ok", "busy", "error"} : Return(t, r)
    BY <1>2 DEF SendRejected, Refuse, Release
  <2>2. Types' /\ Others
    BY <1>b, <2>1 DEF Return, Pcs
  <2>3. Call(t)'
    BY <1>b, <2>1 DEF Return, Call
  <2>4. QED
    BY <1>c, <2>2, <2>3
<1>3. CASE Acquire(t)
  <2>1. Types' /\ Others /\ pc[t] = "selected" /\ pc'[t] = "sending" /\ UNCHANGED call
    BY <1>3, <1>b DEF Acquire, call, Pcs
  <2>2. index[t] = 0 /\ accepted[t] = {} /\ Call(t) /\ 0..(index[t] - 1) = {}
    BY <1>a, <2>1 DEF Call
  <2>3. Call(t)'
    BY <2>1, <2>2 DEF Call, call
  <2>4. QED
    BY <1>c, <2>1, <2>3
<1>4. CASE SendOk(t)
  <2> DEFINE n == FragmentCount[target[t]]
             last == index[t] + 1 = n
  <2>1. /\ target[t] \in Backend /\ n \in Nat /\ index[t] \in Nat /\ index[t] < n
        /\ accepted[t] = 0..(index[t] - 1)
    BY <1>0, <1>4, <1>a, <1>b DEF SendOk, Call
  <2>2. (0..(index[t] - 1)) \cup {index[t]} = 0..index[t]
    BY <2>1
  <2>3. /\ pc' = [pc EXCEPT ![t] = IF last THEN "sent" ELSE "sending"]
        /\ index' = [index EXCEPT ![t] = IF last THEN index[t] ELSE index[t] + 1]
        /\ attempt' = [attempt EXCEPT ![t] = 0]
        /\ accepted' = [accepted EXCEPT ![t] = 0..index[t]]
        /\ UNCHANGED <<target, result>>
    BY <1>4, <2>1, <2>2 DEF SendOk
  <2>4. 0..index[t] \in SUBSET Nat /\ (last => 0..index[t] = 0..(n - 1)) /\ (index[t] + 1) - 1 = index[t]
    BY <2>1
  <2>5. index[t] + 1 \in Nat /\ (~last => index[t] + 1 < n)
    BY <2>1
  <2>6. Types' /\ Others
    BY <1>b, <2>3, <2>4, <2>5 DEF Pcs
  <2>7. /\ pc'[t] = IF last THEN "sent" ELSE "sending"
        /\ index'[t] = IF last THEN index[t] ELSE index[t] + 1
        /\ attempt'[t] = 0 /\ accepted'[t] = 0..index[t] /\ target'[t] = target[t]
    BY <1>b, <2>3
  <2>8. Call(t)'
    BY <1>0, <2>1, <2>4, <2>5, <2>7 DEF Call
  <2>9. QED
    BY <1>c, <2>6, <2>8
<1>5. CASE SendRetried(t)
  <2>1. attempt[t] + 1 \in Nat /\ attempt[t] + 1 <= RetryLimit[target[t]]
    BY <1>0, <1>5, <1>a, <1>b DEF SendRetried, MayRetry, Call
  <2>2. Types' /\ Others
    BY <1>5, <1>b, <2>1 DEF SendRetried
  <2>3. attempt'[t] = attempt[t] + 1 /\ UNCHANGED <<pc, target, index, accepted>> /\ pc[t] = "sending"
    BY <1>5, <1>b DEF SendRetried
  <2>4. Call(t)'
    BY <1>a, <2>1, <2>3 DEF Call
  <2>5. QED
    BY <1>c, <2>2, <2>4
<1>6. CASE SendFailed(t)
  <2>1. Types' /\ Others /\ pc[t] = "sending" /\ pc'[t] = "failed" /\ UNCHANGED call
    BY <1>6, <1>b DEF SendFailed, call, Pcs
  <2>2. Call(t)'
    BY <1>a, <2>1 DEF Call, call
  <2>3. QED
    BY <1>c, <2>1, <2>2
<1>7. QED
  BY <1>1, <1>2, <1>3, <1>4, <1>5, <1>6 DEF SendStep

(* Only acquire_transport and release_transport change who is inside which  *)
(* backend, and the table follows.                                          *)
LEMMA StepTable ==
    ASSUME Calls, Table, NEW t \in Thread, Select(t) \/ SendStep(t)
    PROVE  Table'
<1> USE TransportAssumption
<1>1. CASE Select(t) \/ SendRejected(t) \/ Refuse(t) \/ SendOk(t) \/ SendRetried(t) \/ SendFailed(t)
  <2>1. busy' = busy
    BY <1>1 DEF Select, SendRejected, Refuse, SendOk, SendRetried, SendFailed
  <2>2. \A u \in Thread : u # t => pc'[u] = pc[u] /\ target'[u] = target[u]
    BY <1>1 DEF Select, SendRejected, Refuse, SendOk, SendRetried, SendFailed, Return, call, Calls, Call
  <2>3. \/ pc[t] \notin InBackend /\ pc'[t] \notin InBackend
        \/ pc[t] \in InBackend /\ pc'[t] \in InBackend /\ target'[t] = target[t]
    BY <1>1 DEF Select, SendRejected, Refuse, SendOk, SendRetried, SendFailed, Return, call, Calls, InBackend
  <2>4. \A b \in Backend : Senders(b)' = Senders(b) /\ Entries(b)' = Entries(b)
    BY <2>1, <2>2, <2>3 DEF Senders, Entries, InBackend
  <2>5. QED
    BY <2>1, <2>4 DEF Table
<1>2. CASE Acquire(t)
  <2>1. PICK i \in Index : Acquirable(target[t], i) /\ busy' = [busy EXCEPT ![i] = target[t]]
    BY <1>2 DEF Acquire
  <2>2. /\ target[t] \in Backend /\ busy[i] = NoBackend /\ pc[t] = "selected" /\ pc'[t] = "sending"
        /\ target' = target /\ \A u \in Thread : u # t => pc'[u] = pc[u]
    BY <1>2, <2>1 DEF Acquire, Acquirable, call, Calls, Call
  <2>3. \A j \in Index : busy'[j] = IF j = i THEN target[t] ELSE busy[j]
    BY <2>1 DEF Table
  <2>4. ASSUME NEW b \in Backend
        PROVE  IsFiniteSet(Senders(b)') /\ Cardinality(Entries(b)') = Cardinality(Senders(b)')
    <3>1. CASE b # target[t]
      <4>1. Senders(b)' = Senders(b) /\ Entries(b)' = Entries(b)
        BY <2>2, <2>3, <3>1 DEF Senders, Entries
      <4>2. QED
        BY <4>1 DEF Table
    <3>2. CASE b = target[t]
      <4>1. Senders(b)' = Senders(b) \cup {t} /\ t \notin Senders(b)
        BY <2>2, <3>2 DEF Senders
      <4>2. Entries(b)' = Entries(b) \cup {i} /\ i \notin Entries(b)
        BY <2>2, <2>3, <3>2 DEF Entries
      <4>3. IsFiniteSet(Senders(b)') /\ Cardinality(Senders(b)') = Cardinality(Senders(b)) + 1
        BY <4>1, FS_AddElement DEF Table
      <4>4. Cardinality(Entries(b)') = Cardinality(Entries(b)) + 1
        BY <4>2, EntriesFinite, FS_AddElement
      <4>5. QED
        BY <4>3, <4>4 DEF Table
    <3>3. QED
      BY <3>1, <3>2
  <2>5. QED
    BY <2>1, <2>2, <2>4 DEF Table
<1>3. CASE Release(t)
  <2> DEFINE c == target[t]
  <2>1. c \in Backend /\ t \in Senders(c)
    BY <1>3 DEF Release, Calls, Call, Senders
  <2>2. Entries(c) # {}
    BY <2>1, FS_EmptySet, EntriesFinite DEF Table
  <2>3. PICK i \in Index : Released(c, i) /\ \A j \in Index : Released(c, j) => j = i
    BY <2>1, <2>2, FirstEntryFound
  <2>4. /\ \A j \in Index : busy'[j] = IF j = i THEN NoBackend ELSE busy[j]
        /\ busy' \in [Index -> Backend \cup {NoBackend}]
    BY <1>3, <2>3 DEF Release, Table
  <2>5. /\ pc'[t] = "idle"
        /\ \A u \in Thread : u # t => pc'[u] = pc[u] /\ target'[u] = target[u]
    BY <1>3 DEF Release, Return, Calls
  <2>6. busy[i] = c
    BY <2>3 DEF Released
  <2>7. ASSUME NEW b \in Backend
        PROVE  IsFiniteSet(Senders(b)') /\ Cardinality(Entries(b)') = Cardinality(Senders(b)')
    <3>1. CASE b # c
      <4>1. Senders(b)' = Senders(b)
        BY <2>1, <2>5, <3>1 DEF Senders
      <4>2. Entries(b)' = Entries(b)
        BY <2>4, <2>6, <3>1 DEF Entries
      <4>3. QED
        BY <4>1, <4>2 DEF Table
    <3>2. CASE b = c
      <4>1. Senders(b)' = Senders(b) \ {t} /\ t \in Senders(b)
        BY <2>1, <2>5, <3>2 DEF Senders
      <4>2. Entries(b)' = Entries(b) \ {i} /\ i \in Entries(b)
        BY <2>4, <2>6, <3>2 DEF Entries
      <4>3. IsFiniteSet(Senders(b)') /\ Cardinality(Senders(b)') = Cardinality(Senders(b)) - 1
        BY <4>1, FS_RemoveElement DEF Table
      <4>4. Cardinality(Entries(b)') = Cardinality(Entries(b)) - 1
        <5>1. IsFiniteSet(Entries(b))
          BY EntriesFinite
        <5>2. Cardinality(Entries(b) \ {i}) = Cardinality(Entries(b)) - 1
          BY <4>2, <5>1, FS_RemoveElement
        <5>3. QED
          BY <4>2, <5>2
      <4>5. QED
        BY <4>3, <4>4 DEF Table
    <3>3. QED
      BY <3>1, <3>2
  <2>8. QED
    BY <2>4, <2>7 DEF Table
<1>4. QED
  BY <1>1, <1>2, <1>3 DEF SendStep

(* Every step keeps the invariant. *)
LEMMA NextKeepsTInv == TInv /\ [Next]_vars => TInv'
<1> SUFFICES ASSUME TInv, [Next]_vars PROVE TInv'
  OBVIOUS
<1> USE DEF TInv
<1>1. ASSUME NEW t \in Thread, Select(t) \/ SendStep(t) PROVE TInv'
  <2>1. UNCHANGED transports
    BY <1>1 DEF Select, SendStep, SendRejected, Acquire, Refuse, SendOk, SendRetried, SendFailed, Release
  <2>2. Registry'
    BY <2>1 DEF Registry
  <2>3. QED
    BY <1>1, <2>2, StepCalls, StepTable
<1>2. ASSUME UNCHANGED <<busy, pc, call, result>>, Registry' PROVE TInv'
  <2>1. Calls'
    BY <1>2 DEF Calls, Call, call
  <2>2. \A b \in Backend : Senders(b)' = Senders(b) /\ Entries(b)' = Entries(b)
    BY <1>2 DEF Senders, Entries, call
  <2>3. Table'
    BY <1>2, <2>2 DEF Table
  <2>4. QED
    BY <1>2, <2>1, <2>3
<1>3. ASSUME NEW b \in Backend, Register(b) PROVE TInv'
  <2>1. Registry'
    BY <1>3, TransportAssumption DEF Registry, Register
  <2>2. QED
    BY <1>2, <1>3, <2>1 DEF Register
<1>4. CASE Clear
  <2>1. Registry'
    BY <1>4, TransportAssumption DEF Registry, Clear
  <2>2. QED
    BY <1>2, <1>4, <2>1 DEF Clear
<1>5. CASE UNCHANGED vars
  <2>1. Registry' /\ UNCHANGED <<busy, pc, call, result>>
    BY <1>5 DEF Registry, vars, call
  <2>2. QED
    BY <1>2, <2>1
<1>6. QED
  BY <1>1, <1>3, <1>4, <1>5 DEF Next

(* TInv holds of every behaviour: the busy table and the calls of          *)
(* ls_transport_send (transport/transport.c) agree, whatever a backend     *)
(* answers.                                                                *)
THEOREM TransportInvariant == Spec => []TInv
<1>1. Init => TInv
  BY InitTInv
<1>2. TInv /\ [Next]_vars => TInv'
  BY NextKeepsTInv
<1>3. QED
  BY <1>1, <1>2, PTL DEF Spec

(* For any number of threads, backends and table entries: the busy table    *)
(* has one entry for each send in progress.  No error path of               *)
(* ls_transport_send leaks one, and release_transport never takes the entry *)
(* of a send that goes on.                                                  *)
THEOREM TransportTableMatchesSenders == Spec => []TableMatchesSenders
<1>1. TInv => TableMatchesSenders
  BY DEF TInv, Table, Entries, TableMatchesSenders
<1>2. QED
  BY <1>1, TransportInvariant, PTL

(* For any number of fragments and retries: LS_OK means that every fragment *)
(* was accepted in the call, and LS_EBUSY that the backend is in use or     *)
(* that the table is full.                                                  *)
THEOREM TransportResultIsTrue == Spec => ResultIsTrue
<1> DEFINE A == \A t \in Thread :
                    /\ pc[t] = "sent" /\ pc'[t] = "idle"
                          => accepted[t] = 0..(FragmentCount[target[t]] - 1)
                    /\ pc[t] = "selected" /\ pc'[t] = "idle" /\ result'[t] = "busy"
                          => Senders(target[t]) # {} \/ \A i \in Index : busy[i] # NoBackend
<1>1. TInv /\ [Next]_vars => [A]_vars
  <2> SUFFICES ASSUME TInv, Next, NEW t \in Thread
               PROVE  /\ pc[t] = "sent" /\ pc'[t] = "idle"
                            => accepted[t] = 0..(FragmentCount[target[t]] - 1)
                      /\ pc[t] = "selected" /\ pc'[t] = "idle" /\ result'[t] = "busy"
                            => Senders(target[t]) # {} \/ \A i \in Index : busy[i] # NoBackend
    OBVIOUS
  <2>1. pc[t] = "sent" => accepted[t] = 0..(FragmentCount[target[t]] - 1)
    BY DEF TInv, Calls, Call
  <2>2. ASSUME pc[t] = "selected", pc'[t] = "idle", result'[t] = "busy",
               Senders(target[t]) = {}, NEW k \in Index, busy[k] = NoBackend
        PROVE  FALSE
    <3>1. Refuse(t)
      <4>1. ASSUME NEW u \in Thread, Select(u) \/ SendStep(u) PROVE Refuse(t)
        <5>1. CASE u # t
          BY <2>2, <4>1, <5>1 DEF Select, SendStep, SendRejected, Acquire, Refuse, SendOk, SendRetried,
                                  SendFailed, Release, Return, TInv, Calls
        <5>2. CASE u = t
          BY <2>2, <4>1, <5>2 DEF Select, SendStep, SendRejected, Acquire, SendOk, SendRetried,
                                  SendFailed, Release, Return, TInv, Calls
        <5>3. QED
          BY <5>1, <5>2
      <4>2. ~Clear /\ \A b \in Backend : ~Register(b)
        BY <2>2 DEF Clear, Register
      <4>3. QED
        BY <4>1, <4>2 DEF Next
    <3>2. target[t] \in Backend /\ Entries(target[t]) = {}
      <4>1. target[t] \in Backend
        BY <2>2 DEF TInv, Calls, Call
      <4>2. Cardinality(Entries(target[t])) = 0
        BY <2>2, <4>1, FS_EmptySet DEF TInv, Table
      <4>3. QED
        BY <4>1, <4>2, EntriesFinite, FS_EmptySet
    <3>3. QED
      BY <2>2, <3>1, <3>2, FreeEntryFound DEF Refuse
  <2>3. QED
    BY <2>1, <2>2
<1>2. QED
  BY <1>1, TransportInvariant, PTL DEF Spec, ResultIsTrue

(* With a single backend, or a table of a single entry, only the first      *)
(* entry of the busy table is ever taken.                                   *)
OneSlotUsed == \A i \in Index : i # 1 => busy[i] = NoBackend

(* In both cases acquire_transport takes the first entry or none.          *)
LEMMA NextOneSlotUsed ==
    ASSUME MaxTransports = 1 \/ \A b, c \in Backend : b = c, TInv, OneSlotUsed, [Next]_vars
    PROVE  OneSlotUsed'
<1>1. ASSUME UNCHANGED busy PROVE OneSlotUsed'
  BY <1>1 DEF OneSlotUsed
<1>2. ASSUME NEW t \in Thread, Acquire(t) PROVE OneSlotUsed'
  <2>1. PICK i \in Index : Acquirable(target[t], i) /\ busy' = [busy EXCEPT ![i] = target[t]]
    BY <1>2 DEF Acquire
  <2>2. target[t] \in Backend /\ busy \in [Index -> Backend \cup {NoBackend}]
    BY <1>2 DEF Acquire, TInv, Calls, Call, Table
  <2>3. i = 1
    BY <2>1, <2>2, TransportAssumption DEF Acquirable, StopsAt, Index
  <2>4. QED
    BY <2>1, <2>2, <2>3 DEF OneSlotUsed
<1>3. ASSUME NEW t \in Thread, Release(t) PROVE OneSlotUsed'
  BY <1>3 DEF Release, OneSlotUsed
<1>4. ASSUME NEW t \in Thread, Select(t) \/ SendStep(t) PROVE OneSlotUsed'
  BY <1>1, <1>2, <1>3, <1>4 DEF Select, SendStep, SendRejected, Refuse, SendOk, SendRetried, SendFailed
<1>5. QED
  BY <1>1, <1>4 DEF Next, Clear, Register, vars

(* The exclusion that ls_transport_send is there for does hold when only    *)
(* one backend exists, or when LS_MAX_TRANSPORTS is 1.  acquire_transport   *)
(* gives a backend a second entry only when the entry of another backend,   *)
(* below its first one, has been released in the meantime.                  *)
THEOREM TransportOneSender ==
    ASSUME MaxTransports = 1 \/ \A b, c \in Backend : b = c
    PROVE  Spec => []OneSenderPerBackend
<1>1. Init => OneSlotUsed
  BY DEF Init, OneSlotUsed
<1>2. TInv /\ OneSlotUsed /\ [Next]_vars => OneSlotUsed'
  BY NextOneSlotUsed
<1>3. TInv /\ OneSlotUsed => OneSenderPerBackend
  <2> SUFFICES ASSUME TInv, OneSlotUsed, NEW b \in Backend PROVE Cardinality(Senders(b)) <= 1
    BY DEF OneSenderPerBackend
  <2>1. Entries(b) \subseteq {1}
    BY TransportAssumption DEF OneSlotUsed, Entries
  <2>2. IsFiniteSet({1}) /\ Cardinality({1}) = 1
    BY FS_Singleton
  <2>3. Cardinality(Entries(b)) <= 1
    BY <2>1, <2>2, FS_Subset
  <2>4. QED
    BY <2>3 DEF TInv, Table
<1>4. QED
  BY <1>1, <1>2, <1>3, TransportInvariant, PTL DEF Spec
=============================================================================
