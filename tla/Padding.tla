------------------------------- MODULE Padding -------------------------------
(***************************************************************************)
(* The padding of crates/vaultex-crypto/src/padding.rs, as operators on    *)
(* byte strings of which only the length and the last PAD_LEN_BYTES bytes  *)
(* are kept: the content of a message is opaque and the filling random.    *)
(***************************************************************************)
EXTENDS Integers, Sequences, FiniteSetsExt

CONSTANTS
    MIN_BUCKET,   \* 256
    MAX_BUCKET,   \* 65536
    ByteBase,     \* 256: how many values a byte has
    MaxExponent   \* bound: the largest power of two of a usize, 63

PAD_LEN_BYTES == 4

pow2[k \in 0 .. MaxExponent] == IF k = 0 THEN 1 ELSE 2 * pow2[k - 1]

PowersOfTwo == {pow2[k] : k \in 0 .. MaxExponent}

ASSUME PaddingAssumption ==
    /\ MaxExponent \in Nat
    /\ ByteBase \in Nat \ {0, 1}
    /\ MIN_BUCKET \in PowersOfTwo /\ MAX_BUCKET \in PowersOfTwo
    /\ PAD_LEN_BYTES <= MIN_BUCKET /\ MIN_BUCKET <= MAX_BUCKET
    \* pad_len as u32 loses nothing, and no padding is as long as the marker says
    /\ MAX_BUCKET + PAD_LEN_BYTES < ByteBase * ByteBase * ByteBase * ByteBase

Bytes == 0 .. (ByteBase - 1)

\* A byte string: its length, its last bytes and what its first text_len bytes say.
ByteString(text, text_len, len, tail) ==
    [text |-> text, text_len |-> text_len, len |-> len, tail |-> tail]

-----------------------------------------------------------------------------
(* The conversions of a u32 to and from its little-endian bytes *)

\* n without its lowest byte
shr(n) == n \div ByteBase

\* Fault: as the module comment has it, only two of the bytes are written.
to_le_two_bytes(n) == <<n % ByteBase, shr(n) % ByteBase, 0, 0>>

\* Fault: the quotients themselves are written, not their low bytes.
to_le_quotients(n) == <<n, shr(n), shr(shr(n)), shr(shr(shr(n)))>>

to_le_bytes(n) ==
    <<n % ByteBase, shr(n) % ByteBase, shr(shr(n)) % ByteBase, shr(shr(shr(n))) % ByteBase>>

from_le_bytes(bytes) == bytes[1] + ByteBase * (bytes[2] + ByteBase * (bytes[3] + ByteBase * bytes[4]))

-----------------------------------------------------------------------------
(* Bucket sizes *)

\* usize::next_power_of_two
next_power_of_two(n) == Min({p \in PowersOfTwo : n <= p})

\* usize::div_ceil
div_ceil(n, d) == (n + d - 1) \div d

\* Fault: the next multiple even if the length is one already.
bucket_size_next_multiple(len) ==
    LET needed == len + PAD_LEN_BYTES
    IN  IF needed <= MIN_BUCKET THEN MIN_BUCKET
        ELSE IF needed <= MAX_BUCKET THEN next_power_of_two(needed)
        ELSE (needed \div MAX_BUCKET + 1) * MAX_BUCKET

bucket_size(len) ==
    LET needed == len + PAD_LEN_BYTES
    IN  IF needed <= MIN_BUCKET THEN MIN_BUCKET
        ELSE IF needed <= MAX_BUCKET THEN next_power_of_two(needed)
        ELSE div_ceil(needed, MAX_BUCKET) * MAX_BUCKET

-----------------------------------------------------------------------------
(* Padding *)

\* pad_message returns an error
PadRejects(len) == bucket_size(len) - len < PAD_LEN_BYTES

pad_message(text, len) ==
    ByteString(text, len, bucket_size(len), to_le_bytes(bucket_size(len) - len))

PadLen(padded) == from_le_bytes(padded.tail)

\* unpad_message returns an error
UnpadRejects(padded) ==
    \/ padded.len < PAD_LEN_BYTES
    \/ PadLen(padded) < PAD_LEN_BYTES
    \/ PadLen(padded) > padded.len

\* The length of what unpad_message returns: the first bytes of the message.
unpad_message(padded) == padded.len - PadLen(padded)

-----------------------------------------------------------------------------
(* Cover traffic *)

Marker == [i \in 1 .. PAD_LEN_BYTES |-> ByteBase - 1]

\* A dummy is random bytes that stand for no message, here NoText.
generate_dummy_message(NoText, size) ==
    ByteString(NoText, 0, IF size < MIN_BUCKET THEN MIN_BUCKET ELSE size, Marker)

is_dummy_message(data) == data.len >= PAD_LEN_BYTES /\ data.tail = Marker
=============================================================================
