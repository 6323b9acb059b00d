------------------------------ MODULE LepEncoder ------------------------------
(***************************************************************************)
(* ls_envelope_encode (src/envelope/lep.c): an event and the state of the  *)
(* runtime become a sequence of TLVs in a buffer of bounded size.  The     *)
(* mandatory TLVs either fit or fail the envelope; an optional one that    *)
(* does not fit is left out and the envelope is marked truncated.  Every   *)
(* put_ function is one step.  Of the data only the sizes are kept, in     *)
(* bytes, as the code counts them; a string is its length.                 *)
(***************************************************************************)
EXTENDS Integers, Sequences, SequencesExt

CONSTANTS
    Content,            \* what there is to encode, see ContentOK
    Capacity,           \* sizes of the output buffer
    EnvelopeMax,        \* LS_BLACKBOX_ENVELOPE_MAX
    RegionMax,          \* LS_DUMP_REGION_MAX_BYTES
    StackMax            \* LS_STACK_SNAPSHOT_MAX

Security == {"none", "hmac", "aead"}
Cpu == {"none", "plain", "fpu", "rv64", "rv64_wide"}
Mode == {"zero", "hash", "exclude"}

(* One content: the runtime and the event as the encoder finds them.       *)
ContentOK(c) ==
    /\ c.identity \in Seq(Nat) /\ Len(c.identity) = 15
    /\ c.cpu \in Cpu
    /\ c.crumbs \in Seq([category : Nat, message : Nat, values : Nat])
    /\ c.metrics \in Seq([name : Nat, window : Nat])
    /\ c.power \in Nat
    /\ c.blackbox \in Seq({"plain", "sensitive", "torn"})
    /\ c.mission \in {<<>>} \cup [1..4 -> Nat]
    /\ c.synchronized \in BOOLEAN /\ c.provisioned \in BOOLEAN
    /\ c.supervised \in BOOLEAN /\ c.sampled \in BOOLEAN /\ c.sealed \in BOOLEAN
    /\ c.assertion \in {<<>>} \cup [1..3 -> Nat]
    /\ c.peripheral \in BOOLEAN
    /\ c.log \in {<<>>} \cup [1..1 -> 0..4]
    /\ c.regions \in Seq([start : Nat, length : Nat \ {0}])
    /\ c.redactions \in Seq([start : Nat, length : Nat \ {0}, mode : Mode])
    /\ c.stack \in Nat

LepAssumption ==
    /\ \A c \in Content : ContentOK(c)
    /\ Capacity \subseteq Nat
    /\ EnvelopeMax \in Nat /\ RegionMax \in Nat \ {0} /\ StackMax \in Nat \ {0}

VARIABLES
    content,            \* the event and ls_runtime
    security,           \* whether there is a key, and its algorithm
    capacity,           \* of the output buffer
    at,                 \* the next section of put_payload
    tlvs,               \* the payload: [type, size] in order
    used,               \* payload.length
    truncated,
    result,             \* "running", then what ls_envelope_encode returned
    header              \* of a finished envelope: [flags, payload, length]

vars == <<content, security, capacity, at, tlvs, used, truncated, result, header>>

-----------------------------------------------------------------------------
(* The layout around the payload. *)
HeaderSize == 24
MetadataSize(s) == IF s = "aead" THEN 28 ELSE 0
AuthenticationSize(s) == CASE s = "none" -> 0 [] s = "hmac" -> 32 [] s = "aead" -> 16
Overhead(s) == HeaderSize + MetadataSize(s) + 4 + AuthenticationSize(s)

Room == capacity - Overhead(security)

Smaller(a, b) == IF a <= b THEN a ELSE b

(* put_string_field for each of the strings, in a buffer of size bytes of   *)
(* which start are used: a string is cut to 255 bytes and to what is left   *)
(* when each later field has reserve bytes.  It fails without room for the  *)
(* two bytes of a field's header.                                           *)
Strings(size, start, texts, reserve) ==
    LET n == Len(texts)
        f[i \in 0..n] ==
            IF i = 0 THEN [length |-> start, cut |-> FALSE, fits |-> TRUE]
            ELSE LET p == f[i - 1]
                     limit == size - p.length - 2 - (reserve * (n - i))
                     kept == Smaller(texts[i], Smaller(255, limit))
                 IN  IF ~p.fits \/ limit < 0
                     THEN [p EXCEPT !.fits = FALSE]
                     ELSE [length |-> p.length + 2 + kept,
                           cut |-> p.cut \/ kept < texts[i], fits |-> TRUE]
    IN  f[n]

(* A value of n bytes that never fails, one with strings in front of a      *)
(* fixed end, and one that is skipped with a mark.                          *)
Fixed(n) == [length |-> n, cut |-> FALSE, fits |-> TRUE]
Ending(size, v, n) ==
    [v EXCEPT !.length = @ + n, !.fits = @ /\ v.length + n <= size]
Omitted == [length |-> -1, cut |-> TRUE, fits |-> TRUE]

-----------------------------------------------------------------------------
(* A payload being written is a record e of tlvs, used, truncated, result.  *)
Remaining(e) == Room - e.used
Failed(e) == [e EXCEPT !.result = "ENOSPACE"]
Mark(e, cut) == [e EXCEPT !.truncated = @ \/ cut]
Written(e, t, n) == [e EXCEPT !.tlvs = Append(@, [type |-> t, size |-> n]), !.used = @ + 4 + n]

(* ls_writer_tlv, after an earlier error not called. *)
Tlv(e, t, n) ==
    IF e.result # "running" THEN e
    ELSE IF n + 4 > Remaining(e) THEN Failed(e) ELSE Written(e, t, n)

put_optional_tlv(e, t, v) ==
    IF v = Omitted \/ v.length + 4 > Remaining(e) THEN Mark(e, TRUE)
    ELSE Written(Mark(e, v.cut), t, v.length)

(* One optional TLV for each value; a value that cannot be built ends the   *)
(* section.                                                                 *)
OptionalTlvs(e, t, values) ==
    LET f[i \in 0..Len(values)] ==
            IF i = 0 THEN [e |-> e, on |-> TRUE]
            ELSE LET p == f[i - 1]
                 IN  CASE ~p.on -> p
                       [] p.on /\ ~values[i].fits -> [e |-> Mark(p.e, TRUE), on |-> FALSE]
                       [] OTHER -> [p EXCEPT !.e = put_optional_tlv(p.e, t, values[i])]
    IN  f[Len(values)].e

OptionalIf(e, present, t, v) == IF present THEN put_optional_tlv(e, t, v) ELSE e

-----------------------------------------------------------------------------
(* The sections, in the order of put_payload. *)
put_identity(e) ==
    LET v == Strings(Smaller(Remaining(e) - 4, 512), 0, content.identity, 2)
    IN  IF Remaining(e) < 34 \/ ~v.fits THEN Failed(e)
        ELSE Tlv(Mark(e, v.cut), "IDENTITY", v.length)

put_reset(e) == Tlv(e, "RESET", 20)

put_event(e) == Tlv(e, "EVENT", 31)

CpuLength(cpu) == IF cpu = "fpu" THEN 272 ELSE 204
LegacyRequired(cpu) == 4 + CpuLength(cpu) + 4 + 52


FullCpu64(e) == content.cpu = "rv64_wide" /\ Remaining(e) >= LegacyRequired(content.cpu) + 296

put_cpu64(e, complete) == Tlv(e, "CPU64", IF complete THEN 292 ELSE 4)

put_cpu(e) ==
    LET wide == IF content.cpu \in {"rv64", "rv64_wide"}
                THEN Mark(put_cpu64(e, FullCpu64(e)), ~FullCpu64(e)) ELSE e
    IN  IF content.cpu = "none" THEN e
        ELSE Tlv(Tlv(wide, "CPU", CpuLength(content.cpu)), "FAULT", 52)

put_breadcrumbs(e) ==
    OptionalTlvs(e, "BREADCRUMB",
        [i \in DOMAIN content.crumbs |-> LET c == content.crumbs[i] IN
            Ending(160, Strings(160, 15, <<c.category, c.message>>, 0), 1 + (7 * c.values))])

put_metrics(e) ==
    OptionalTlvs(e, "METRIC",
        [i \in DOMAIN content.metrics |-> LET m == content.metrics[i] IN
            Ending(128, Strings(128, 4, <<m.name>>, 0), 30 + (4 * m.window))])

put_power_health(e) ==
    put_optional_tlv(OptionalTlvs(e, "POWER", [i \in 1..content.power |-> Fixed(16)]),
                     "HEALTH", Fixed(10))

(* The last EnvelopeMax records, the oldest first. *)
Window == LET n == Len(content.blackbox)
          IN  SubSeq(content.blackbox, n - Smaller(n, EnvelopeMax) + 1, n)

(* A record being overwritten, or a sensitive one, is passed over; after a  *)
(* record has been written the loop ends if the envelope is truncated.      *)
put_blackbox(e) ==
    LET f[i \in 0..Len(Window)] ==
            IF i = 0 THEN [e |-> e, on |-> TRUE]
            ELSE LET p == f[i - 1]
                     n == put_optional_tlv(p.e, "BLACKBOX", Fixed(27))
                 IN  IF ~p.on \/ Window[i] # "plain" THEN p ELSE [e |-> n, on |-> ~n.truncated]
    IN  f[Len(Window)].e

(* The mission is optional, but one that cannot be built fails. *)
put_mission(e) ==
    LET v == Strings(256, 46, content.mission, 0)
    IN  IF content.mission = <<>> THEN e
        ELSE IF ~v.fits THEN Failed(Mark(e, v.cut)) ELSE put_optional_tlv(e, "MISSION", v)

put_time_sync(e) == OptionalIf(e, content.synchronized, "TIME_SYNC", Fixed(22))
put_provisioning(e) == OptionalIf(e, content.provisioned, "PROVISIONING", Fixed(18))
put_supervisor(e) == OptionalIf(e, content.supervised, "SUPERVISOR", Fixed(17))
put_environment(e) == OptionalIf(e, content.sampled, "ENVIRONMENT", Fixed(29))
put_powerfail_seal(e) == OptionalIf(e, content.sealed, "POWERFAIL_SEAL", Fixed(13))

(* An assertion whose texts do not fit 200 bytes is dropped as a whole. *)
AssertTlv(e) ==
    LET v == Strings(200, 12, content.assertion, 0)
    IN  IF content.assertion = <<>> THEN e ELSE OptionalTlvs(e, "ASSERT", <<v>>)

put_details(e) ==
    LET p == OptionalIf(AssertTlv(e), content.peripheral, "PERIPHERAL", Fixed(37))
    IN  OptionalTlvs(p, "LOG", [i \in DOMAIN content.log |-> Fixed(5 + (4 * content.log[i]))])

(* ls_redaction_for: the mode of the first redaction that overlaps.         *)
Overlaps(r, start, length) == start < r.start + r.length /\ r.start < start + length
ls_redaction_for(start, length) ==
    LET i == SelectInSeq(content.redactions, LAMBDA r : Overlaps(r, start, length))
    IN  IF i = 0 THEN "none" ELSE content.redactions[i].mode

RegionValue(r) ==
    LET length == Smaller(r.length, RegionMax)
        mode == ls_redaction_for(r.start, length)
    IN  IF mode = "exclude" THEN Omitted
        ELSE [length |-> 16 + (IF mode = "hash" THEN 4 ELSE length),
              cut |-> length < r.length, fits |-> TRUE]

StackValue ==
    LET length == Smaller(content.stack, StackMax)
    IN  [length |-> 8 + length, cut |-> length < content.stack, fits |-> TRUE]

put_memory(e) ==
    LET regions == OptionalTlvs(e, "MEMORY", [i \in DOMAIN content.regions |->
                                                 RegionValue(content.regions[i])])
        stack == OptionalIf(regions, content.stack > 0, "STACK", StackValue)
    IN  put_optional_tlv(stack, "HEAP", Fixed(20))

-----------------------------------------------------------------------------
Init == /\ content \in Content
        /\ security \in Security
        /\ capacity \in Capacity
        /\ at = 0
        /\ tlvs = <<>>
        /\ used = 0
        /\ truncated = FALSE
        /\ result = "running"
        /\ header = [flags |-> {}, payload |-> 0, length |-> 0]

(* The checks of ls_envelope_encode. *)
Begin ==
    /\ at = 0
    /\ at' = 1
    /\ result' = IF capacity < Overhead(security) THEN "EINVAL" ELSE "running"
    /\ UNCHANGED <<content, security, capacity, tlvs, used, truncated, header>>

Payload == [tlvs |-> tlvs, used |-> used, truncated |-> truncated, result |-> result]

(* Section n of put_payload writes e; an error ends it. *)
Section(n, e) ==
    /\ result = "running"
    /\ at = n
    /\ at' = n + 1
    /\ tlvs' = e.tlvs
    /\ used' = e.used
    /\ truncated' = e.truncated
    /\ result' = e.result
    /\ UNCHANGED <<content, security, capacity, header>>

put_payload ==
    \/ Section(1, put_identity(Payload)) \/ Section(2, put_reset(Payload))
    \/ Section(3, put_event(Payload)) \/ Section(4, put_cpu(Payload))
    \/ Section(5, put_breadcrumbs(Payload)) \/ Section(6, put_metrics(Payload))
    \/ Section(7, put_power_health(Payload)) \/ Section(8, put_blackbox(Payload))
    \/ Section(9, put_mission(Payload)) \/ Section(10, put_time_sync(Payload))
    \/ Section(11, put_provisioning(Payload)) \/ Section(12, put_supervisor(Payload))
    \/ Section(13, put_environment(Payload)) \/ Section(14, put_powerfail_seal(Payload))
    \/ Section(15, put_details(Payload)) \/ Section(16, put_memory(Payload))

Flags == (IF security # "none" THEN {"AUTHENTICATED"} ELSE {})
            \cup (IF security = "aead" THEN {"ENCRYPTED", "AEAD"} ELSE {})
            \cup (IF truncated THEN {"TRUNCATED"} ELSE {})

(* The header, the checksums and the tag; with AEAD the random source, the  *)
(* comparison with the last nonce or the cipher may fail.                   *)
Finish ==
    /\ result = "running"
    /\ at = 17
    /\ at' = 18
    /\ \/ /\ result' = "OK"
          /\ header' = [flags |-> Flags, payload |-> used, length |-> Overhead(security) + used]
       \/ /\ security = "aead"
          /\ result' = "EAUTH"
          /\ UNCHANGED header
    /\ UNCHANGED <<content, security, capacity, tlvs, used, truncated>>

Next == Begin \/ put_payload \/ Finish

Spec == Init /\ [][Next]_vars

-----------------------------------------------------------------------------
(* Types; every value fits the buffer it is built in. *)
BufferSize(t) == CASE t = "MEMORY" -> RegionMax + 48 [] t = "STACK" -> StackMax + 8 [] OTHER -> 512

TypeOK ==
    /\ content \in Content /\ security \in Security /\ capacity \in Capacity
    /\ at \in 0..18
    /\ \A i \in DOMAIN tlvs : tlvs[i].size \in 0..BufferSize(tlvs[i].type)
    /\ truncated \in BOOLEAN
    /\ result \in {"running", "OK", "ENOSPACE", "EINVAL", "EAUTH"}

(* ls_envelope_validate on the header of an envelope of n bytes: the flags  *)
(* agree with each other, and the length is exactly the one they imply.     *)
FlagsValid(f) == ("ENCRYPTED" \in f <=> "AEAD" \in f) /\ ("AEAD" \in f => "AUTHENTICATED" \in f)
SecurityOf(f) == IF "ENCRYPTED" \in f THEN "aead" ELSE IF "AUTHENTICATED" \in f THEN "hmac" ELSE "none"
ls_envelope_validate(h, n) == FlagsValid(h.flags) /\ n = Overhead(SecurityOf(h.flags)) + h.payload

(* An envelope that is returned fits its buffer, whatever was left out of   *)
(* it, and a receiver accepts its layout (tests/test_envelope_capacity.c).  *)
FitsAndValidates ==
    /\ used <= Room \/ result = "EINVAL" \/ at = 0
    /\ result = "OK" => /\ header.length <= capacity
                        /\ ls_envelope_validate(header, header.length)
                        /\ header.payload = FoldLeft(LAMBDA n, t : n + 4 + t.size, 0, tlvs)

(* What a buffer without limits would be given; a digest stands for a       *)
(* region only if it covers the whole of it.                                *)
Tlvs(t, sizes) == [i \in DOMAIN sizes |-> [type |-> t, size |-> sizes[i]]]
TlvIf(present, t, size) == IF present THEN Tlvs(t, <<size>>) ELSE <<>>
Total(s) == FoldLeft(LAMBDA n, x : n + x, 0, s)

CpuTlvs(cpu) ==
    TlvIf(cpu \in {"rv64", "rv64_wide"}, "CPU64", 292)
    \o TlvIf(cpu # "none", "CPU", CpuLength(cpu)) \o TlvIf(cpu # "none", "FAULT", 52)

Wanted(c) ==
    Tlvs("IDENTITY", <<30 + Total(c.identity)>>) \o Tlvs("RESET", <<20>>) \o Tlvs("EVENT", <<31>>)
    \o CpuTlvs(c.cpu)
    \o Tlvs("BREADCRUMB", [i \in DOMAIN c.crumbs |->
            20 + c.crumbs[i].category + c.crumbs[i].message + (7 * c.crumbs[i].values)])
    \o Tlvs("METRIC", [i \in DOMAIN c.metrics |-> 36 + c.metrics[i].name + (4 * c.metrics[i].window)])
    \o Tlvs("POWER", [i \in 1..c.power |-> 16]) \o Tlvs("HEALTH", <<10>>)
    \o Tlvs("BLACKBOX", [i \in DOMAIN SelectSeq(Window, LAMBDA r : r = "plain") |-> 27])
    \o TlvIf(c.mission # <<>>, "MISSION", 54 + Total(c.mission))
    \o TlvIf(c.synchronized, "TIME_SYNC", 22) \o TlvIf(c.provisioned, "PROVISIONING", 18)
    \o TlvIf(c.supervised, "SUPERVISOR", 17) \o TlvIf(c.sampled, "ENVIRONMENT", 29)
    \o TlvIf(c.sealed, "POWERFAIL_SEAL", 13)
    \o TlvIf(c.assertion # <<>>, "ASSERT", 18 + Total(c.assertion))
    \o TlvIf(c.peripheral, "PERIPHERAL", 37) \o Tlvs("LOG", [i \in DOMAIN c.log |-> 5 + (4 * c.log[i])])
    \o Tlvs("MEMORY", [i \in DOMAIN c.regions |->
            IF /\ c.regions[i].length <= RegionMax
               /\ ls_redaction_for(c.regions[i].start, c.regions[i].length) = "hash"
            THEN 20 ELSE 16 + c.regions[i].length])
    \o TlvIf(c.stack > 0, "STACK", 8 + c.stack) \o Tlvs("HEAP", <<20>>)

(* The TRUNCATED flag is exact: without it the envelope holds every TLV     *)
(* there was to send, with its full value, and with it something is missing *)
(* or shortened (docs/lep-v1.md).                                           *)
TruncatedIsExact ==
    result = "OK" => ("TRUNCATED" \notin header.flags <=> tlvs = Wanted(content))

(* The TLVs every receiver relies on, the identity as long as it can be. *)
MandatorySize ==
    4 + Smaller(512, 30 + Total([i \in 1..15 |-> Smaller(255, content.identity[i])])) + 24 + 35
      + (IF content.cpu = "none" THEN 0 ELSE LegacyRequired(content.cpu))
      + (IF content.cpu \in {"rv64", "rv64_wide"} THEN 8 ELSE 0)

(* No optional TLV takes the place of a mandatory one: the envelope fails   *)
(* for lack of space exactly when the mandatory TLVs alone do not fit, the  *)
(* full CPU64 bank never costs the legacy CPU and fault TLVs their room,    *)
(* and an envelope that is returned has all of them.                        *)
MandatoryFirst ==
    /\ result = "ENOSPACE" => MandatorySize > Room
    /\ result = "OK" =>
          /\ MandatorySize <= Room
          /\ {"IDENTITY", "RESET", "EVENT"} \subseteq {tlvs[i].type : i \in DOMAIN tlvs}
          /\ content.cpu # "none" => {"CPU", "FAULT"} \subseteq {tlvs[i].type : i \in DOMAIN tlvs}
=============================================================================
