---------------------------------- MODULE Fix ----------------------------------
(***************************************************************************)
(* The FIX codec of src/src/fix.rs over a wire that may damage a byte or   *)
(* bring fields in another order.  Bytes are concrete here: which of them  *)
(* count for BodyLength and CheckSum is decided by prefix tests on them.   *)
(*                                                                         *)
(* Texts are ASCII, so a chunk is valid UTF-8 just if no byte is above 127, *)
(* and numbers are short of the width of u32 and usize.                    *)
(***************************************************************************)
EXTENDS Integers, SequencesExt

CONSTANTS
    Message,     \* the messages to send: functions from tags to values
    Damaged,     \* what a damaged byte may become
    Faults,      \* the faults of the wire: a subset of {"byte", "order"}
    MaxFaults    \* bound on their number, for TLC

SOH   == 1
Equal == 61      \* '='
Plus  == 43      \* '+'
Zero  == 48      \* '0'
FIX_44_BEGIN_STRING == <<70, 73, 88, 46, 52, 46, 52>>

StartsWithAt(bytes, i, prefix) ==
    i + Len(prefix) - 1 <= Len(bytes) /\ SubSeq(bytes, i, i + Len(prefix) - 1) = prefix

\* Values fit the wire (serialize does not look at them), and the begin string neither
\* is empty nor looks like a BodyLength field.
ASSUME MessageAssumption ==
    /\ \A m \in Message :
          /\ DOMAIN m \subseteq Nat
          /\ \A tag \in DOMAIN m : \A i \in 1..Len(m[tag]) : m[tag][i] \in 2..127
          /\ 8 \in DOMAIN m =>
                /\ m[8] # <<>>
                /\ \A i \in 1..Len(m[8]) : ~StartsWithAt(m[8], i, <<57, Equal>>)
    /\ Damaged \subseteq 0..255
    /\ Faults \subseteq {"byte", "order"}

VARIABLES
    status,    \* "idle" | "wire" (a message is under way) | "received"
    sent,      \* the message the sender serialized
    wire,      \* the bytes under way
    result,    \* what parse said of them
    faults     \* faults so far

vars == <<status, sent, wire, result, faults>>

-----------------------------------------------------------------------------
(* Numbers as text *)

RECURSIVE Decimal(_)
Decimal(n) == IF n < 10 THEN <<Zero + n>> ELSE Append(Decimal(n \div 10), Zero + (n % 10))

ThreeDigits(n) == <<Zero + n \div 100, Zero + ((n \div 10) % 10), Zero + (n % 10)>>

\* from_str of an unsigned integer takes a sign and leading zeros.
Digits(text) == IF text # <<>> /\ Head(text) = Plus THEN Tail(text) ELSE text
IsNumber(text) ==
    Digits(text) # <<>> /\ \A i \in 1..Len(Digits(text)) : Digits(text)[i] \in Zero..(Zero + 9)
Number(text) == FoldLeft(LAMBDA n, b : 10 * n + b - Zero, 0, Digits(text))

ByteSum(bytes) == FoldLeft(LAMBDA n, b : n + b, 0, bytes) % 256

(* parse *)

Ok(fields) == [kind |-> "Ok", fields |-> fields]
Error(kind) == [kind |-> kind]

\* The chunks between the separators, empty ones left out.
Chunks(bytes) ==
    LET split == FoldLeft(LAMBDA acc, b :
                            IF b = SOH THEN Append(acc, <<>>)
                            ELSE [acc EXCEPT ![Len(acc)] = Append(@, b)],
                          <<<<>>>>, bytes)
    IN  SelectSeq(split, LAMBDA chunk : chunk # <<>>)

EqualAt(chunk) == SelectInSeq(chunk, LAMBDA b : b = Equal)
TagText(chunk) == SubSeq(chunk, 1, EqualAt(chunk) - 1)
Value(chunk) == SubSeq(chunk, EqualAt(chunk) + 1, Len(chunk))

ChunkError(chunk) ==
    IF EqualAt(chunk) = 0 \/ \E i \in 1..Len(chunk) : chunk[i] > 127 THEN "MalformedField"
    ELSE IF ~IsNumber(TagText(chunk)) THEN "TagNotInteger"
    ELSE "none"

\* parse_fields: the first bad chunk is the error; the last field of a tag counts.
ParseFields(bytes) ==
    LET chunks == Chunks(bytes)
        bad    == SelectInSeq(chunks, LAMBDA chunk : ChunkError(chunk) # "none")
        tags   == {Number(TagText(chunk)) : chunk \in Range(chunks)}
        last(tag) == SelectLastInSeq(chunks, LAMBDA chunk : Number(TagText(chunk)) = tag)
    IN  IF bad # 0 THEN Error(ChunkError(chunks[bad]))
        ELSE Ok([tag \in tags |-> Value(chunks[last(tag)])])

\* split_for_verification: the body starts behind the field of the first "9=" there is,
\* and ends before the last "10=" that begins a field (0: there is none).
EndOfField(bytes, i) ==
    SelectInSubSeq(bytes, i, Len(bytes), LAMBDA b : b = SOH)
BodyStart(bytes) ==
    LET at == {i \in 1..Len(bytes) : /\ StartsWithAt(bytes, i, <<57, Equal>>)
                                     /\ EndOfField(bytes, i + 2) # 0}
    IN  IF at = {} THEN 0 ELSE EndOfField(bytes, Min(at) + 2) + 1
ChecksumStart(bytes) ==
    LET at == {i \in 1..Len(bytes) : /\ StartsWithAt(bytes, i, <<49, 48, Equal>>)
                                     /\ i = 1 \/ bytes[i - 1] = SOH}
    IN  IF at = {} THEN 0 ELSE Max(at)

\* What the envelope promises of the bytes: BodyLength, then CheckSum, then a begin
\* string.  Slicing a body that would start after its end panics.
VerifyLengthOnly(fields, bytes) ==
    IF ChecksumStart(bytes) - BodyStart(bytes) # Number(fields[9]) THEN "BodyLengthMismatch"
    ELSE IF fields[8] = <<>> THEN "MissingField" ELSE "Ok"
Verify(fields, bytes) ==
    IF BodyStart(bytes) = 0 \/ ChecksumStart(bytes) = 0 THEN "MissingField"
    ELSE IF BodyStart(bytes) > ChecksumStart(bytes) THEN "panic"
    ELSE IF ChecksumStart(bytes) - BodyStart(bytes) # Number(fields[9])
         THEN "BodyLengthMismatch"
    ELSE IF ByteSum(SubSeq(bytes, 1, ChecksumStart(bytes) - 1)) # Number(fields[10])
         THEN "ChecksumMismatch"
    ELSE IF fields[8] = <<>> THEN "MissingField" ELSE "Ok"

Parse(bytes) ==
    LET parsed == ParseFields(bytes)
    IN  IF parsed.kind # "Ok" THEN parsed
        ELSE IF ~({8, 9, 10} \subseteq DOMAIN parsed.fields) THEN Error("MissingField")
        ELSE IF ~IsNumber(parsed.fields[9]) \/ ~IsNumber(parsed.fields[10])
             THEN Error("MalformedField")
        ELSE IF Verify(parsed.fields, bytes) # "Ok"
             THEN Error(Verify(parsed.fields, bytes))
        ELSE parsed

(* serialize *)

PushField(buf, tag, value) == buf \o Decimal(tag) \o <<Equal>> \o value \o <<SOH>>

Begin(m) == IF 8 \in DOMAIN m THEN m[8] ELSE FIX_44_BEGIN_STRING

\* The tags of the body; the envelope is written anew.
BodyTagsAll(m) == DOMAIN m \ {8}
BodyTags(m) == DOMAIN m \ {8, 9, 10}
Body(m) ==
    FoldLeft(LAMBDA buf, tag : PushField(buf, tag, m[tag]), <<>>,
             SetToSortSeq(BodyTags(m), <))

Serialize(m) ==
    LET out == PushField(PushField(<<>>, 8, Begin(m)), 9, Decimal(Len(Body(m)))) \o Body(m)
    IN  PushField(out, 10, ThreeDigits(ByteSum(out)))

-----------------------------------------------------------------------------
Init ==
    /\ status = "idle" /\ sent = <<>> /\ wire = <<>> /\ result = Error("none") /\ faults = 0

Send(m) ==
    /\ status = "idle"
    /\ status' = "wire"
    /\ sent' = m
    /\ wire' = Serialize(m)
    /\ UNCHANGED <<result, faults>>

Disturb(kind, bytes) ==
    /\ status = "wire"
    /\ kind \in Faults /\ faults < MaxFaults
    /\ faults' = faults + 1
    /\ wire' = bytes
    /\ UNCHANGED <<status, sent, result>>

ChangeByte(i, b) == Disturb("byte", [wire EXCEPT ![i] = b])
DropByte(i) == Disturb("byte", RemoveAt(wire, i))

\* The fields in another order, each whole.
ExchangeFields(i, j) ==
    LET chunks == Chunks(wire)
        swapped == [chunks EXCEPT ![i] = chunks[j], ![j] = chunks[i]]
    IN  Disturb("order", FlattenSeq([k \in DOMAIN swapped |-> Append(swapped[k], SOH)]))

Receive ==
    /\ status = "wire"
    /\ status' = "received"
    /\ result' = Parse(wire)
    /\ UNCHANGED <<sent, wire, faults>>

\* What was received goes on to the next hop.
Forward ==
    /\ status = "received" /\ result.kind = "Ok"
    /\ status' = "wire"
    /\ wire' = Serialize(result.fields)
    /\ result' = Error("none")
    /\ UNCHANGED <<sent, faults>>

\* The link is idle again.
Done ==
    /\ status = "received"
    /\ status' = "idle" /\ sent' = <<>> /\ wire' = <<>> /\ result' = Error("none")
    /\ faults' = 0

Next ==
    \/ \E m \in Message : Send(m)
    \/ \E i \in DOMAIN wire, b \in Damaged : ChangeByte(i, b)
    \/ \E i \in DOMAIN wire : DropByte(i)
    \/ \E i, j \in DOMAIN Chunks(wire) : i < j /\ ExchangeFields(i, j)
    \/ Receive
    \/ Forward
    \/ Done

Spec == Init /\ [][Next]_vars
-----------------------------------------------------------------------------
(***************************************************************************)
(* Properties                                                              *)
(***************************************************************************)

\* What an undamaged wire carries arrives: every field of the message, under an
\* envelope of its own, and serializing what was parsed gives the same bytes, whatever
\* the values look like ("9=", "10=", signs, nothing at all).
RoundTrip ==
    status = "received" /\ faults = 0 =>
        /\ result.kind = "Ok"
        /\ DOMAIN result.fields = DOMAIN sent \cup {8, 9, 10}
        /\ \A tag \in DOMAIN sent \ {9, 10} : result.fields[tag] = sent[tag]
        /\ result.fields[8] = Begin(sent)
        /\ Serialize(result.fields) = wire

\* A message that passes in spite of a changed or a lost byte, or of fields in another
\* order, is the one that was sent, and is forwarded as it was sent: BodyLength and
\* CheckSum, found by prefix tests, leave no byte uncovered but those of CheckSum.
NeverMisread ==
    status = "received" /\ result.kind = "Ok" =>
        /\ \A tag \in DOMAIN sent \ {9, 10} : result.fields[tag] = sent[tag]
        /\ Serialize(result.fields) = Serialize(sent)

\* fix.rs:96: parse answers malformed input with a FixError; it does not panic.
ParseReturns == result.kind # "panic"
===============================================================================
