----------------------------- MODULE Reassembly -----------------------------
(***************************************************************************)
(* Fragments (src/transport/transport.c): how ls_transport_send cuts an    *)
(* envelope, and how the other end puts it together from fragments that    *)
(* come late, twice, in any order, damaged, or from several envelopes.     *)
(* An envelope is a sequence of bytes; a CRC is the bytes it is taken of.  *)
(***************************************************************************)
EXTENDS Integers, Sequences, SequencesExt, FiniteSets

CONSTANTS
    Envelope,           \* Envelope[id], the bytes of the envelope of an event
    Mtu,                \* payload sizes of the backends they are sent over
    Noise,              \* a byte that damage leaves behind
    Capacity,           \* reassembly->capacity
    MaxFragments,       \* reassembly->received_capacity in bits
    MaxPushes           \* bound on the fragments that arrive

ReassemblyAssumption ==
    /\ \A id \in DOMAIN Envelope : Envelope[id] # <<>>
    /\ Mtu \subseteq Nat \ {0}
    /\ {Capacity, MaxFragments, MaxPushes} \subseteq Nat \ {0}

VARIABLES
    data,               \* reassembly->data
    frame,              \* what the first fragment said of the envelope
    received,           \* the indices in reassembly->received
    received_count,
    active, complete,
    taken,              \* history: the fragments taken since the last reset
    pushes

vars == <<data, frame, received, received_count, active, complete, taken, pushes>>

NoFrame == [event_id |-> 0, crc |-> <<>>, total |-> 0, capacity |-> 0, count |-> 0]

Min2(a, b) == IF a < b THEN a ELSE b

-----------------------------------------------------------------------------
FragmentCount(total, mtu) == (total \div mtu) + IF total % mtu = 0 THEN 0 ELSE 1

(* The fragment of an envelope with an index, for a payload size. *)
Fragment(id, mtu, index) ==
    LET bytes == Envelope[id]
        offset == index * mtu
        length == Min2(Len(bytes) - offset, mtu)
        part == SubSeq(bytes, offset + 1, offset + length)
    IN  [event_id |-> id, crc |-> bytes, total |-> Len(bytes), offset |-> offset,
         capacity |-> mtu, count |-> FragmentCount(Len(bytes), mtu), index |-> index,
         part |-> part, part_crc |-> part]

Sent == {Fragment(id, mtu, index) : id \in DOMAIN Envelope, mtu \in Mtu, index \in 0..3}
Genuine == {f \in Sent : f.index < f.count}

(* What may arrive of a fragment: itself, or with one field wrong. Damage   *)
(* done before its own CRC was taken is not visible in the fragment.        *)
Arrives(f) ==
    {f} \cup {[f EXCEPT !.part[i] = Noise] : i \in DOMAIN f.part}
        \cup {[f EXCEPT !.part[i] = Noise, !.part_crc[i] = Noise] : i \in DOMAIN f.part}
        \cup {[f EXCEPT !.total = n] : n \in 1..(Capacity + 1)}
        \cup {[f EXCEPT !.count = n] : n \in 1..MaxFragments}
        \cup {[f EXCEPT !.index = n] : n \in 0..MaxFragments}
        \cup {[f EXCEPT !.offset = n] : n \in 0..Capacity}
        \cup {[f EXCEPT !.capacity = n] : n \in 1..Capacity}
        \cup {[f EXCEPT !.event_id = id] : id \in DOMAIN Envelope}
        \cup {[f EXCEPT !.crc = <<Noise>>]}

-----------------------------------------------------------------------------
Reset == /\ frame' = NoFrame
         /\ received' = {} /\ received_count' = 0
         /\ active' = FALSE /\ complete' = FALSE
         /\ taken' = {}

Init == /\ data = [i \in 1..Capacity |-> Noise]
        /\ frame = NoFrame
        /\ received = {} /\ received_count = 0
        /\ active = FALSE /\ complete = FALSE
        /\ taken = {} /\ pushes = 0

(* Fault: the position of a fragment is not checked. *)
validate_fragment_Anywhere(f) ==
    /\ f.index < f.count
    /\ f.total <= Capacity /\ f.count <= MaxFragments
    /\ f.count = FragmentCount(f.total, f.capacity)
    /\ f.part_crc = f.part

validate_fragment(f) ==
    LET offset == f.index * f.capacity
    IN  /\ f.index < f.count
        /\ f.total <= Capacity /\ f.count <= MaxFragments
        /\ f.count = FragmentCount(f.total, f.capacity)
        /\ offset < f.total /\ f.offset = offset
        /\ Len(f.part) = Min2(f.total - offset, f.capacity)
        /\ f.part_crc = f.part

FrameOf(f) == [event_id |-> f.event_id, crc |-> f.crc, total |-> f.total,
               capacity |-> f.capacity, count |-> f.count]

(* The buffer with the bytes of a fragment in place. *)
Written(f) ==
    LET place == (f.offset + 1)..(f.offset + Len(f.part))
    IN  [i \in DOMAIN data \cup place |-> IF i \in place THEN f.part[i - f.offset] ELSE data[i]]

Matches(bytes, f) == SubSeq(bytes, 1, f.total) = f.crc

AlreadyReceived(f) == active /\ f.index \in received

(* A fragment that is valid and belongs to the envelope being put together. *)
Take(f) ==
    /\ data' = Written(f)
    /\ IF received_count + 1 = f.count /\ ~Matches(data', f) THEN Reset
       ELSE /\ received' = received \cup {f.index}
            /\ received_count' = received_count + 1
            /\ frame' = FrameOf(f)
            /\ active' = TRUE
            /\ complete' = (received_count' = f.count)
            /\ taken' = taken \cup {f}

(* One that came before must be the same. *)
Again(f) ==
    /\ IF SubSeq(data, f.offset + 1, f.offset + Len(f.part)) = f.part
       THEN UNCHANGED <<frame, received, received_count, active, complete, taken>>
       ELSE Reset
    /\ UNCHANGED data

ls_transport_reassembly_push(f) ==
    /\ pushes < MaxPushes /\ pushes' = pushes + 1
    /\ IF validate_fragment(f) /\ ~complete /\ (active => frame = FrameOf(f))
       THEN IF AlreadyReceived(f) THEN Again(f) ELSE Take(f)
       ELSE UNCHANGED <<data, frame, received, received_count, active, complete, taken>>

(* The envelope is taken out, or given up. *)
ls_transport_reassembly_reset == active /\ Reset /\ UNCHANGED <<data, pushes>>

Next == \/ \E g \in Genuine : \E f \in Arrives(g) : ls_transport_reassembly_push(f)
        \/ ls_transport_reassembly_reset

Spec == Init /\ [][Next]_vars

-----------------------------------------------------------------------------
(* Types; the buffer and the bitmap are never overrun. *)
TypeOK ==
    /\ DOMAIN data = 1..Capacity
    /\ received \subseteq 0..(MaxFragments - 1)
    /\ received_count \in 0..MaxFragments
    /\ frame.total \in 0..Capacity /\ frame.count \in 0..MaxFragments

(* A complete envelope is, byte for byte, one that was sent. *)
CompleteIsExact ==
    complete => \E id \in DOMAIN Envelope : SubSeq(data, 1, frame.total) = Envelope[id]

(* Once all fragments of an envelope have been taken, in whatever order and *)
(* however often each came, it is complete, and not before.                 *)
CompleteWhenAllThere ==
    \A id \in DOMAIN Envelope, mtu \in Mtu :
        LET all == {g \in Genuine : g.crc = Envelope[id] /\ g.capacity = mtu}
        IN  active /\ taken \subseteq all => (complete <=> taken = all)
=============================================================================
