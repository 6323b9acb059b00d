---------------------------- MODULE StreamParser ----------------------------
(***************************************************************************)
(* StreamParser.feed of the reference collector (tools/                    *)
(* latch_collector.py): the byte stream of a link is cut into chunks       *)
(* anywhere, with noise and damaged frames in it; the parser keeps what it *)
(* may still need and returns the frames.  A header is magic (two bytes)   *)
(* and a length, which stands for version and flags too; the trailer is    *)
(* one byte.                                                               *)
(***************************************************************************)
EXTENDS Integers, Sequences, SequencesExt

CONSTANTS
    Byte,               \* "L" and "S", lengths, and other bytes
    LengthOf,           \* LengthOf[b], the length a third byte gives
    MaxEnvelope,        \* maximum_envelope
    Crc(_),             \* Crc(envelope), the trailer it should have
    Valid(_),           \* validate_envelope accepts it
    MaxChunk,           \* bound: bytes of a chunk
    MaxStream           \* bound: bytes of the stream

StreamParserAssumption ==
    /\ {"L", "S"} \subseteq Byte
    /\ LengthOf \in [Byte -> Nat]
    /\ {MaxEnvelope, MaxChunk, MaxStream} \subseteq Nat

VARIABLES
    buffer,             \* self.buffer
    frames,             \* envelopes returned so far
    running,            \* validate_envelope has not raised an error
    stream              \* history: every byte fed

vars == <<buffer, frames, running, stream>>

Init == /\ buffer = <<>>
        /\ frames = <<>>
        /\ running = TRUE
        /\ stream = <<>>

Magic == <<"L", "S">>
HeaderSize == 3
TrailerSize == 1

(* 0, or the first position of the magic. *)
Find(s) == LET at == {i \in 1..(Len(s) - 1) : SubSeq(s, i, i + 1) = Magic}
           IN  IF at = {} THEN 0 ELSE CHOOSE i \in at : \A j \in at : i <= j

Drop(s, n) == SubSeq(s, n + 1, Len(s))

(* Fault: without magic nothing is kept. *)
Kept_None(s) == <<>>

(* The last byte of a buffer without magic can be the first of one. *)
Kept(s) == IF s # <<>> /\ Last(s) = "L" THEN <<"L">> ELSE <<>>

(* The trailer matches the n bytes after the header. *)
Intact(s, n) == s[HeaderSize + n + TrailerSize] = Crc(SubSeq(s, HeaderSize + 1, HeaderSize + n))

(* A header that is out of bounds costs one byte. *)
SkipHeader(s) == Drop(s, 1)

Implausible(n) == n > MaxEnvelope
Total(n) == HeaderSize + n + TrailerSize

(* The loop of feed over the buffer s: what is left of it, the envelopes    *)
(* found, and whether the last one of them raised an error.                 *)
RECURSIVE Loop(_, _)
Loop(s, found) ==
    LET marker == Find(s)
        t == Drop(s, marker - 1)
        n == LengthOf[t[HeaderSize]]
        envelope == SubSeq(t, HeaderSize + 1, HeaderSize + n)
    IN  CASE marker = 0 -> [rest |-> Kept(s), found |-> found, ok |-> TRUE]
          [] marker # 0 /\ Len(t) < HeaderSize -> [rest |-> t, found |-> found, ok |-> TRUE]
          [] marker # 0 /\ Len(t) >= HeaderSize /\ Implausible(n) -> Loop(SkipHeader(t), found)
          [] OTHER ->
               IF Len(t) < Total(n) THEN [rest |-> t, found |-> found, ok |-> TRUE]
               ELSE IF ~Intact(t, n) THEN Loop(Drop(t, Total(n)), found)
               ELSE IF ~Valid(envelope)
                    THEN [rest |-> Drop(t, Total(n)), found |-> found, ok |-> FALSE]
               ELSE Loop(Drop(t, Total(n)), Append(found, envelope))

(* An error ends the process, and with it the envelopes the same call found. *)
feed(chunk) ==
    LET done == Loop(buffer \o chunk, <<>>)
    IN  /\ running
        /\ Len(stream) + Len(chunk) <= MaxStream
        /\ stream' = stream \o chunk
        /\ buffer' = done.rest
        /\ frames' = IF done.ok THEN frames \o done.found ELSE frames
        /\ running' = done.ok

Next == \E chunk \in SeqOf(Byte, MaxChunk) \ {<<>>} : feed(chunk)

Spec == Init /\ [][Next]_vars

-----------------------------------------------------------------------------
TypeOK ==
    /\ \A i \in DOMAIN frames : Len(frames[i]) <= MaxEnvelope /\ Valid(frames[i])
    /\ running \in BOOLEAN
    /\ IsSuffix(buffer, stream)

(* What a parser that has the whole stream at hand finds at position p: the *)
(* envelope there, or how far it goes on.                                   *)
Frames ==
    LET At(p, n) == SubSeq(stream, p, p + n - 1)
        from[p \in 1..(MaxStream + 2)] ==
            IF p + HeaderSize - 1 > Len(stream) THEN <<>>
            ELSE LET n == LengthOf[stream[p + 2]]
                     size == HeaderSize + n + TrailerSize
                     body == At(p + HeaderSize, n)
                 IN  IF At(p, 2) # Magic \/ n > MaxEnvelope THEN from[p + 1]
                     ELSE IF p + size - 1 > Len(stream) THEN <<>>
                     ELSE IF stream[p + size - 1] = Crc(body) THEN <<body>> \o from[p + size]
                     ELSE from[p + size]
    IN  from[1]

(* The frames do not depend on where the stream is cut into chunks, and     *)
(* none is lost or invented by what the parser drops from its buffer: they  *)
(* are the ones of the whole stream, up to an envelope that is invalid.     *)
ChunksDoNotMatter == IF running THEN frames = Frames
                     ELSE /\ IsPrefix(frames, Frames)
                          /\ \E i \in DOMAIN Frames : i > Len(frames) /\ ~Valid(Frames[i])

(* The buffer never holds more than a frame that is not complete. *)
BufferBounded == running => Len(buffer) < HeaderSize + MaxEnvelope + TrailerSize
=============================================================================
