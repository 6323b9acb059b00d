----------------------------- MODULE Compression -----------------------------
(***************************************************************************)
(* The codecs of src/envelope/compression.c as functions: variable-length  *)
(* integers, run lengths, and differences.  A byte has a control bit Half  *)
(* (0x80) and Half values below it; a word has WordSize values (2^32) and  *)
(* takes MaxDigits bytes (5), the last of which has LastDigit values (16). *)
(* The state is an input, grown byte by byte or word by word.              *)
(***************************************************************************)
EXTENDS Integers, Sequences, SequencesExt

CONSTANTS
    Half,               \* 128
    MaxDigits,          \* 5
    LastDigit,          \* 16
    Symbol,             \* bytes or words of the input
    MaxInput,           \* bound: their number
    MaxCapacity         \* bound: room for the output

Pow[n \in Nat] == IF n = 0 THEN 1 ELSE Half * Pow[n - 1]
WordSize == Pow[MaxDigits - 1] * LastDigit
Byte == 0..(2 * Half - 1)

CompressionAssumption ==
    /\ {Half, MaxDigits, LastDigit} \subseteq Nat \ {0} /\ LastDigit <= Half
    /\ {MaxInput, MaxCapacity} \subseteq Nat /\ Symbol \subseteq 0..(WordSize - 1)

VARIABLE input

Init == input = <<>>
Next == \E s \in Symbol : Len(input) < MaxInput /\ input' = Append(input, s)
Spec == Init /\ [][Next]_input

-----------------------------------------------------------------------------
(* Results: out is the output, where there is one. *)
Ok(s) == [result |-> "ok", out |-> s]
Error(e) == [result |-> e, out |-> <<>>]

Drop(s, n) == SubSeq(s, n + 1, Len(s))
Repeat(b, n) == [i \in 1..n |-> b]

RECURSIVE Varint(_)
Varint(value) == IF value < Half THEN <<value>>
                 ELSE <<(value % Half) + Half>> \o Varint(value \div Half)

ls_varint_u32_encode(value, capacity) ==
    IF Len(Varint(value)) > capacity THEN Error("space") ELSE Ok(Varint(value))

Overflows(s, i) == i = MaxDigits /\ s[i] >= LastDigit

(* The value and how many bytes it takes; the bytes before i continue. *)
RECURSIVE Digits(_, _, _)
Digits(s, i, value) ==
    IF i > Len(s) \/ i > MaxDigits THEN Error("again")
    ELSE IF Overflows(s, i) THEN Error("overflow")
    ELSE LET sum == (value + (s[i] % Half) * Pow[i - 1]) % WordSize
         IN  IF s[i] >= Half THEN Digits(s, i + 1, sum)
             ELSE Ok([value |-> sum, consumed |-> i])

ls_varint_u32_decode(s) == Digits(s, 1, 0)

-----------------------------------------------------------------------------
(* How often the first byte repeats, up to Half. *)
Run(s) == CHOOSE n \in 1..Half :
            /\ n <= Len(s) /\ \A i \in 1..n : s[i] = s[1]
            /\ n = Half \/ n = Len(s) \/ s[n + 1] # s[1]

(* Fault: a literal takes a run that does not fit any more. *)
EndsLiteral_Late(length, run) == run >= 3 \/ length >= Half

EndsLiteral(length, run) == run >= 3 \/ length + run > Half

(* The length of a literal that has n bytes so far. *)
RECURSIVE Literal(_, _)
Literal(s, n) == IF n = Len(s) \/ EndsLiteral(n, Run(Drop(s, n))) THEN n
                 ELSE Literal(s, n + Run(Drop(s, n)))

RunControl(run) == Half + run - 1

RECURSIVE Compressed(_, _, _)
Compressed(s, room, out) ==
    IF s = <<>> THEN Ok(out)
    ELSE LET run == Run(s)
             literal == Literal(s, run)
         IN  IF run >= 3
             THEN IF room < 2 THEN Error("space")
                  ELSE Compressed(Drop(s, run), room - 2, out \o <<RunControl(run), s[1]>>)
             ELSE IF room < literal + 1 THEN Error("space")
                  ELSE Compressed(Drop(s, literal), room - literal - 1,
                                  out \o <<literal - 1>> \o SubSeq(s, 1, literal))

ls_rle_compress(s, capacity) == Compressed(s, capacity, <<>>)

Fits(count, room, out) == count <= room

RECURSIVE Decompressed(_, _, _)
Decompressed(s, room, out) ==
    IF s = <<>> THEN Ok(out)
    ELSE LET count == (s[1] % Half) + 1
             rest == Tail(s)
             isRun == s[1] >= Half
             taken == IF isRun THEN 1 ELSE count
             new == IF isRun THEN Repeat(rest[1], count) ELSE SubSeq(rest, 1, count)
         IN  IF Len(rest) < taken THEN Error("corrupt")
             ELSE IF ~Fits(count, room, out) THEN Error("space")
             ELSE Decompressed(Drop(rest, taken), room - count, out \o new)

ls_rle_decompress(s, capacity) == Decompressed(s, capacity, <<>>)

-----------------------------------------------------------------------------
(* A word as a signed number: 0, -1, 1, -2, ... *)
zigzag_encode(w) == IF w < WordSize \div 2 THEN 2 * w ELSE 2 * (WordSize - w) - 1

zigzag_decode(z) == IF z % 2 = 0 THEN z \div 2 ELSE WordSize - (z + 1) \div 2

RECURSIVE Deltas(_, _, _, _)
Deltas(values, previous, room, out) ==
    IF values = <<>> THEN Ok(out)
    ELSE LET delta == (values[1] - previous + WordSize) % WordSize
             encoded == ls_varint_u32_encode(zigzag_encode(delta), MaxDigits)
         IN  IF encoded.result # "ok" THEN encoded
             ELSE IF Len(encoded.out) > room THEN Error("space")
             ELSE Deltas(Tail(values), values[1], room - Len(encoded.out), out \o encoded.out)

ls_delta_u32_encode(values, capacity) == Deltas(values, 0, capacity, <<>>)

RECURSIVE Sums(_, _, _, _)
Sums(s, previous, capacity, out) ==
    IF s = <<>> THEN Ok(out)
    ELSE LET decoded == ls_varint_u32_decode(s)
             sum == (previous + zigzag_decode(decoded.out.value)) % WordSize
         IN  IF Len(out) >= capacity THEN Error("space")
             ELSE IF decoded.result # "ok" THEN decoded
             ELSE Sums(Drop(s, decoded.out.consumed), sum, capacity, Append(out, sum))

ls_delta_u32_decode(s, capacity) == Sums(s, 0, capacity, <<>>)

-----------------------------------------------------------------------------
Room == 0..MaxCapacity

(* What the encoders write are bytes and what the decoders return are bytes *)
(* or words, within the capacity: no control byte, digit or sum goes out of *)
(* its width, on any input.                                                 *)
TypeOK ==
    \A capacity \in Room :
       LET fits(r, S) == Len(r.out) <= capacity /\ \A i \in DOMAIN r.out : r.out[i] \in S
       IN  /\ fits(ls_rle_compress(input, capacity), Byte \cup Symbol)
           /\ fits(ls_delta_u32_encode(input, capacity), Byte)
           /\ Symbol \subseteq Byte =>
                 /\ fits(ls_rle_decompress(input, capacity), Byte)
                 /\ fits(ls_delta_u32_decode(input, capacity), 0..(WordSize - 1))

(* A capacity is enough exactly when the full output fits it, and then      *)
(* nothing changes: every encoder and decoder compares what it is about to  *)
(* write with the room that is left.                                        *)
EnoughIsEnough(Op(_, _), full) ==
    \A capacity \in Room : LET r == Op(input, capacity) IN
        IF Len(full) <= capacity THEN r = Ok(full) ELSE r.result = "space"

(* Decompression undoes compression, for runs and literals of every length  *)
(* around the limits of a control byte, and compressed data is never longer *)
(* than one byte more for each literal that a limit can cut off.            *)
RleRoundTrip ==
    LET full == ls_rle_compress(input, 2 * MaxInput).out
    IN  /\ ls_rle_decompress(full, Len(input)) = Ok(input)
        /\ Len(full) <= Len(input) + (Len(input) + Half - 2) \div (Half - 1)
        /\ EnoughIsEnough(ls_rle_compress, full)

(* Decoding differences undoes encoding them, for words that wrap around in *)
(* both directions.                                                         *)
DeltaRoundTrip ==
    LET full == ls_delta_u32_encode(input, MaxDigits * MaxInput).out
    IN  /\ ls_delta_u32_decode(full, Len(input)) = Ok(input)
        /\ EnoughIsEnough(ls_delta_u32_encode, full)

(* A prefix of what can be decoded as one integer asks for more bytes, and  *)
(* bytes that follow do not change it: a reader may stop and come back.  An *)
(* integer that is out of range is refused.                                 *)
VarintIncremental ==
    LET whole == ls_varint_u32_decode(input)
        sum[i \in 0..Len(input)] ==
            IF i = 0 THEN 0 ELSE sum[i - 1] + (input[i] % Half) * Pow[i - 1]
    IN  CASE whole.result = "ok" ->
               /\ sum[whole.out.consumed] = whole.out.value
               /\ \A n \in 1..Len(input) : ls_varint_u32_decode(SubSeq(input, 1, n)) =
                     IF n < whole.out.consumed THEN Error("again") ELSE whole
          [] whole.result = "again" -> \A i \in DOMAIN input : input[i] >= Half
          [] OTHER -> sum[MaxDigits] >= WordSize \/ input[MaxDigits] >= Half

(* Bytes that can be decoded are decoded alike with every capacity that is  *)
(* enough, and refused with every other one.                                *)
DecodersAgree ==
    LET bytes == ls_rle_decompress(input, MaxCapacity)
        words == ls_delta_u32_decode(input, MaxCapacity)
    IN  /\ bytes.result = "ok" => EnoughIsEnough(ls_rle_decompress, bytes.out)
        /\ words.result = "ok" => EnoughIsEnough(ls_delta_u32_decode, words.out)
=============================================================================
