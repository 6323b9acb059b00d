------------------------------ MODULE LepReader ------------------------------
(***************************************************************************)
(* A receiver of envelopes (src/envelope/lep.c, src/security/sha256.c):    *)
(* authentication, the replay window over sequence numbers that wrap, and  *)
(* the three ways to visit the TLVs.  A sender numbers its envelopes; they *)
(* come late, twice, in any order, damaged, or from another device.        *)
(* Envelopes whose layout or checksums are wrong never get past            *)
(* ls_envelope_validate and are left out.                                  *)
(***************************************************************************)
EXTENDS Integers, Sequences, FiniteSetsExt

CONSTANTS
    SequenceSize,       \* 2^32: sequence numbers are modulo this
    WindowSize,         \* LS_ENVELOPE_REPLAY_WINDOW_SIZE
    First,              \* number of the first envelope, before wrapping
    MaxSent,            \* bound: envelopes sent
    MaxLate,            \* bound: an envelope is at most this many behind the last sent
    MaxGap,             \* bound: the receiver never falls further behind than this
    Kinds,              \* protections the sender uses, of plain, hmac, aead
    HasKey,             \* a key is set at the receiver
    RejectPlaintext,    \* of its security policy
    AllowLegacyHmac

ReaderAssumption ==
    /\ SequenceSize \in Nat /\ WindowSize \in 1..(SequenceSize \div 2)
    /\ First \in Nat /\ MaxSent \in Nat /\ MaxLate \in 0..(SequenceSize \div 2)
    /\ MaxGap \in 0..((SequenceSize \div 2) - 1)
    /\ Kinds \subseteq {"plain", "hmac", "aead"}
    /\ {HasKey, RejectPlaintext, AllowLegacyHmac} \subseteq BOOLEAN

VARIABLES
    sent,               \* kinds of the envelopes sent, in order
    replay,             \* ls_envelope_replay_t: highest, seen distances, initialized
    accepted,           \* history: numbers of the sender's envelopes the window accepted
    shown,              \* history: numbers shown to the visitor, with replay protection
    visited             \* the envelope the last call showed to its visitor, if it did

vars == <<sent, replay, accepted, shown, visited>>

NoReplay == [highest |-> 0, seen |-> {}, initialized |-> FALSE]

Init == /\ sent = <<>>
        /\ replay = NoReplay
        /\ accepted = {}
        /\ shown = {}
        /\ visited = {}

Wrap(n) == n % SequenceSize
Last == First + Len(sent) - 1

(* An envelope with its unwrapped number.  One that is not genuine fails    *)
(* the check of its tag, or has another key ID.  A payload may be no        *)
(* sequence of TLVs, which shows only after decryption.                     *)
Envelope ==
    [n : (Last - MaxLate)..Last, kind : Kinds, genuine : BOOLEAN, wellFormed : BOOLEAN]

Arrives(e) ==
    /\ First <= e.n
    /\ accepted # {} => e.n <= Max(accepted) + MaxGap
    /\ e.genuine => sent[e.n - First + 1] = e.kind
    /\ ~e.wellFormed => e.kind = "aead"

Send(kind) ==
    /\ Len(sent) < MaxSent
    /\ sent' = Append(sent, kind)
    /\ UNCHANGED <<replay, accepted, shown, visited>>

-----------------------------------------------------------------------------
(* Fault: the window is not shifted with the number. *)
Shifted_Kept(seen, forward) == seen \cup {0}

Stale(distance) == distance >= WindowSize

(* seen_sequences << forward | 1, cut to the size of the window. *)
Shifted(seen, forward) ==
    {0} \cup {d + forward : d \in {x \in seen : x + forward < WindowSize}}

(* ls_envelope_replay_accept: the new state and the answer. *)
ls_envelope_replay_accept(r, sequence) ==
    LET forward == (sequence - r.highest) % SequenceSize
        distance == (r.highest - sequence) % SequenceSize
        newest == forward # 0 /\ forward < SequenceSize \div 2
    IN  CASE ~r.initialized ->
               [r |-> [highest |-> sequence, seen |-> {0}, initialized |-> TRUE], ok |-> TRUE]
          [] r.initialized /\ newest ->
               [r |-> [r EXCEPT !.highest = sequence, !.seen = Shifted(@, forward)], ok |-> TRUE]
          [] r.initialized /\ ~newest /\ (Stale(distance) \/ distance \in r.seen) ->
               [r |-> r, ok |-> FALSE]
          [] OTHER -> [r |-> [r EXCEPT !.seen = @ \cup {distance}], ok |-> TRUE]

(* ls_replay_accept: the window kept in the runtime has no flag; an empty   *)
(* bitmap stands for it.                                                    *)
ls_replay_accept(highest, bitmap, sequence) ==
    ls_envelope_replay_accept(
        [highest |-> highest, seen |-> bitmap, initialized |-> bitmap # {}], sequence)

-----------------------------------------------------------------------------
(* ls_envelope_decrypt_payload succeeds; ls_envelope_verify_auth succeeds.  *)
DecryptOk(e) == HasKey /\ e.genuine

ls_envelope_verify_auth(e) ==
    HasKey /\ IF e.kind = "aead" THEN DecryptOk(e) ELSE AllowLegacyHmac /\ e.genuine

(* Whether the policy lets the envelope through, before replay and visit. *)
Admitted(e) ==
    CASE e.kind = "aead" -> DecryptOk(e)
      [] e.kind = "hmac" -> ls_envelope_verify_auth(e)
      [] e.kind = "plain" -> ~(HasKey /\ RejectPlaintext)

(* ls_envelope_visit_secure: a payload that is malformed is shown up to the *)
(* bad TLV.                                                                 *)
ls_envelope_visit_secure(e) ==
    /\ visited' = IF Admitted(e) THEN {e} ELSE {}
    /\ UNCHANGED <<sent, replay, accepted, shown>>

Accepted(e) == ls_envelope_replay_accept(replay, Wrap(e.n))

(* The number goes through the window once the envelope is authenticated    *)
(* and its payload is well formed.                                          *)
Enters(e) == e.kind # "plain" /\ Admitted(e) /\ e.wellFormed


(* Everything the number goes through the window for is shown if it is      *)
(* accepted; an envelope without a tag is shown without it.  The visitor's  *)
(* own error changes neither.                                               *)
ls_envelope_visit_secure_replay(e) ==
    LET taken == Enters(e) /\ Accepted(e).ok
        show == taken \/ (e.kind = "plain" /\ Admitted(e))
    IN  /\ replay' = IF Enters(e) THEN Accepted(e).r ELSE replay
        /\ accepted' = IF taken /\ e.genuine THEN accepted \cup {e.n} ELSE accepted
        /\ shown' = IF show THEN shown \cup {e.n} ELSE shown
        /\ visited' = IF show THEN {e} ELSE {}
        /\ UNCHANGED sent

ls_envelope_replay_reset ==
    /\ replay' = NoReplay
    /\ accepted' = {}
    /\ shown' = {}
    /\ visited' = {}
    /\ UNCHANGED sent

Next == \/ \E kind \in Kinds : Send(kind)
        \/ \E e \in Envelope : Arrives(e) /\ ( \/ ls_envelope_visit_secure_replay(e)
                                               \/ ls_envelope_visit_secure(e) )
        \/ ls_envelope_replay_reset

Spec == Init /\ [][Next]_vars

-----------------------------------------------------------------------------
Number == First..(First + MaxSent - 1)

TypeOK ==
    /\ sent \in Seq(Kinds) /\ Len(sent) <= MaxSent
    /\ replay.highest \in 0..(SequenceSize - 1)
    /\ replay.seen \subseteq 0..(WindowSize - 1)
    /\ replay.initialized \in BOOLEAN
    /\ accepted \subseteq Number /\ shown \subseteq Number

(* The window is exact, across the wrap and in any order of arrival: the    *)
(* highest number is the newest one accepted, and the bits are those of the *)
(* numbers accepted behind it.  Nothing that fails authentication, or is    *)
(* malformed, moves it.                                                     *)
WindowExact ==
    /\ replay.initialized <=> accepted # {}
    /\ accepted # {} => /\ replay.highest = Wrap(Max(accepted))
                        /\ replay.seen = {d \in 0..(WindowSize - 1) : Max(accepted) - d \in accepted}

(* Not accepted before, and within the window. *)
Fresh(n) == n \notin accepted /\ (accepted = {} \/ n > Max(accepted) - WindowSize)

(* Every authenticated envelope is shown to the visitor of                  *)
(* ls_envelope_visit_secure_replay at most once, and it is shown if it      *)
(* arrives for the first time within the window, however late.              *)
OnceAndNotLost ==
    \A e \in Envelope : (Enters(e) /\ Arrives(e) /\ ls_envelope_visit_secure_replay(e))
        => (visited' = {e} <=> Fresh(e.n))

(* What the visitors get is authenticated: the envelope is the sender's, or *)
(* the policy takes envelopes without a tag (docs/lep-v1.md: "must          *)
(* authenticate before exposing decrypted TLVs").                           *)
VisitedIsTrusted ==
    \A e \in visited : e.genuine \/ (e.kind = "plain" /\ ~(HasKey /\ RejectPlaintext))

(* The window kept in the runtime, without a flag, answers as one with it. *)
RuntimeWindowAgrees ==
    \A sequence \in 0..(SequenceSize - 1) :
        ls_replay_accept(replay.highest, replay.seen, sequence).ok
            = ls_envelope_replay_accept(replay, sequence).ok
=============================================================================
