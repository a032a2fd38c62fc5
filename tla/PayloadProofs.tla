---------------------------- MODULE PayloadProofs ----------------------------
(***************************************************************************)
(* Proofs about padding and about PayloadPath, for buckets that are any    *)
(* powers of two, bytes of any base, and messages of every length.         *)
(***************************************************************************)
EXTENDS PayloadPath, NatLemmas, SequenceTheorems, TLAPS

-----------------------------------------------------------------------------
(* Powers of two *)

\* The constants are what the proofs use them as.
LEMMA Constants ==
    /\ MaxExponent \in Nat
    /\ ByteBase \in Nat /\ ByteBase >= 2
    /\ PAD_LEN_BYTES = 4
    /\ MIN_BUCKET \in PowersOfTwo /\ MAX_BUCKET \in PowersOfTwo
    /\ 4 <= MIN_BUCKET /\ MIN_BUCKET <= MAX_BUCKET
    /\ MAX_BUCKET + 4 < ByteBase * ByteBase * ByteBase * ByteBase
BY PaddingAssumption DEF PAD_LEN_BYTES

\* pow2 is the function its definition says it is.
LEMMA Pow2Unfold ==
    pow2 = [k \in 0 .. MaxExponent |-> IF k = 0 THEN 1 ELSE 2 * pow2[k - 1]]
<1> DEFINE P(h, k) == IF k = 0 THEN 1 ELSE 2 * h[k - 1]
           Upto(n) == \E h : h = [k \in 0 .. n |-> P(h, k)]
<1>1. Upto(0)
  <2> DEFINE h == [k \in 0 .. 0 |-> 1]
  <2>1. h = [k \in 0 .. 0 |-> P(h, k)]
    OBVIOUS
  <2> HIDE DEF h
  <2> QED BY <2>1
<1>2. ASSUME NEW n \in Nat, n # 0, Upto(n - 1)
      PROVE  Upto(n)
  <2>1. PICK g : g = [k \in 0 .. n - 1 |-> P(g, k)]
    BY <1>2
  <2> DEFINE h == [k \in 0 .. n |-> IF k = n THEN P(g, n) ELSE g[k]]
  <2>2. \A k \in 0 .. n - 1 : h[k] = g[k]
    OBVIOUS
  <2>3. \A k \in 0 .. n : P(h, k) = P(g, k)
    <3> HIDE DEF h
    <3> QED BY <2>2
  <2>4. \A k \in 0 .. n : h[k] = P(h, k)
    <3>1. \A k \in 0 .. n - 1 : g[k] = P(g, k)
      BY <2>1
    <3> HIDE DEF P
    <3>2. \A k \in 0 .. n : h[k] = P(g, k)
      BY <3>1
    <3> HIDE DEF h
    <3> QED BY <2>3, <3>2
  <2>5. h = [k \in 0 .. n |-> h[k]]
    OBVIOUS
  <2> HIDE DEF h, P
  <2>6. h = [k \in 0 .. n |-> P(h, k)]
    BY <2>4, <2>5
  <2> QED BY <2>6 DEF P
<1>3. Upto(MaxExponent)
  <2> DEFINE Bad == {n \in Nat : ~Upto(n)}
  <2> HIDE DEF Upto
  <2>1. SUFFICES ASSUME Bad # {} PROVE FALSE
    BY Constants
  <2>2. PICK n \in Bad : \A k \in Bad : n <= k
    BY <2>1, LeastNatural
  <2>3. n # 0
    BY <1>1
  <2>4. n - 1 \in Nat /\ n - 1 \notin Bad
    BY <2>2, <2>3
  <2> QED BY <1>2, <2>3, <2>4
<1> DEFINE f == CHOOSE h : h = [k \in 0 .. MaxExponent |-> P(h, k)]
<1>4. f = [k \in 0 .. MaxExponent |-> P(f, k)]
  BY <1>3
<1>5. pow2 = f
  BY DEF pow2
<1> HIDE DEF f
<1> QED BY <1>4, <1>5

LEMMA PowersAreNat == PowersOfTwo \subseteq Nat
<1> DEFINE Bad == {k \in 0 .. MaxExponent : pow2[k] \notin Nat}
<1>1. SUFFICES ASSUME Bad # {} PROVE FALSE
  BY DEF PowersOfTwo
<1>2. Bad \subseteq Nat
  BY Constants
<1>3. PICK n \in Bad : \A k \in Bad : n <= k
  <2> HIDE DEF Bad
  <2> QED BY <1>1, <1>2, LeastNatural
<1>4. pow2[n] = IF n = 0 THEN 1 ELSE 2 * pow2[n - 1]
  BY Pow2Unfold
<1>5. n # 0
  BY <1>4
<1>6. n - 1 \in 0 .. MaxExponent /\ n - 1 \notin Bad
  BY <1>3, <1>5, Constants
<1>7. pow2[n - 1] \in Nat
  BY <1>6
<1> QED BY <1>4, <1>5, <1>7

\* The least power of two that is large enough, if there is one.
LEMMA NextPower ==
    ASSUME NEW n \in Nat, NEW p \in PowersOfTwo, n <= p
    PROVE  /\ next_power_of_two(n) \in PowersOfTwo
           /\ n <= next_power_of_two(n)
           /\ \A q \in PowersOfTwo : n <= q => next_power_of_two(n) <= q
<1> DEFINE S == {q \in PowersOfTwo : n <= q}
<1>1. S \subseteq Nat /\ S # {}
  BY PowersAreNat
<1>2. \E x \in S : \A y \in S : x <= y
  <2> HIDE DEF S
  <2> QED BY <1>1, LeastNatural
<1>3. Min(S) \in S /\ \A y \in S : Min(S) <= y
  <2> HIDE DEF S
  <2> QED BY <1>2 DEF Min
<1>4. next_power_of_two(n) = Min(S)
  BY DEF next_power_of_two
<1> QED BY <1>3, <1>4

-----------------------------------------------------------------------------
(* Buckets *)

\* div_ceil rounds up to a multiple.
LEMMA RoundsUp ==
    ASSUME NEW n \in Nat, NEW d \in Nat, d > 0
    PROVE  /\ div_ceil(n, d) \in Nat
           /\ n <= div_ceil(n, d) * d
           /\ div_ceil(n, d) * d < n + d
<1> DEFINE m == n + d - 1
           q == m \div d
<1>1. m \in Nat
  OBVIOUS
<1> HIDE DEF m
<1>2. q \in Nat
  BY <1>1
<1>3. q * d <= m /\ m < q * d + d
  BY <1>1
<1>4. div_ceil(n, d) = q
  BY DEF div_ceil, m
<1> HIDE DEF q
<1>5. q * d \in Nat
  BY <1>2
<1> QED BY <1>2, <1>3, <1>4, <1>5 DEF m

\* Every bucket leaves room for the suffix, and is not larger than the message by
\* more than the largest bucket and the suffix.
LEMMA BucketRoom ==
    ASSUME NEW len \in Nat
    PROVE  /\ bucket_size(len) \in Nat
           /\ len + 4 <= bucket_size(len)
           /\ bucket_size(len) <= len + MAX_BUCKET + 3
<1> DEFINE needed == len + 4
<1>0. /\ MIN_BUCKET \in Nat /\ MAX_BUCKET \in Nat /\ needed \in Nat
      /\ 4 <= MIN_BUCKET /\ MIN_BUCKET <= MAX_BUCKET /\ MAX_BUCKET \in PowersOfTwo
  BY Constants, PowersAreNat
<1>1. bucket_size(len) =
        IF needed <= MIN_BUCKET THEN MIN_BUCKET
        ELSE IF needed <= MAX_BUCKET THEN next_power_of_two(needed)
        ELSE div_ceil(needed, MAX_BUCKET) * MAX_BUCKET
  BY Constants DEF bucket_size
<1>2. CASE needed <= MIN_BUCKET
  BY <1>0, <1>1, <1>2
<1>3. CASE ~(needed <= MIN_BUCKET) /\ needed <= MAX_BUCKET
  <2>1. /\ next_power_of_two(needed) \in PowersOfTwo
        /\ needed <= next_power_of_two(needed)
        /\ next_power_of_two(needed) <= MAX_BUCKET
    <3> HIDE DEF needed
    <3> QED BY <1>0, <1>3, NextPower
  <2>2. next_power_of_two(needed) \in Nat
    BY <2>1, PowersAreNat
  <2> QED BY <1>0, <1>1, <1>3, <2>1, <2>2
<1>4. CASE ~(needed <= MAX_BUCKET)
  <2> DEFINE c == div_ceil(needed, MAX_BUCKET)
  <2>1. c \in Nat /\ needed <= c * MAX_BUCKET /\ c * MAX_BUCKET < needed + MAX_BUCKET
    <3>1. MAX_BUCKET > 0
      BY <1>0
    <3> HIDE DEF needed
    <3> QED BY <1>0, <3>1, RoundsUp
  <2>2. bucket_size(len) = c * MAX_BUCKET
    BY <1>0, <1>1, <1>4
  <2> HIDE DEF c
  <2>3. c * MAX_BUCKET \in Nat
    BY <1>0, <2>1
  <2> QED BY <1>0, <2>1, <2>2, <2>3
<1> QED BY <1>2, <1>3, <1>4

-----------------------------------------------------------------------------
(* The length in the suffix *)

\* The lowest byte of a number, and the rest of it.
LEMMA LowByte ==
    ASSUME NEW n \in Nat
    PROVE  /\ shr(n) \in Nat /\ n % ByteBase \in Bytes
           /\ n = (n % ByteBase) + ByteBase * shr(n)
<1>1. ByteBase \in Nat /\ ByteBase > 0
  BY Constants
<1>2. n \div ByteBase \in Nat /\ n % ByteBase \in 0 .. ByteBase - 1
  BY <1>1
<1>3. n % ByteBase = n - ByteBase * (n \div ByteBase)
  BY <1>1
<1> DEFINE q == n \div ByteBase
           r == n % ByteBase
<1>4. r = n - ByteBase * q /\ q \in Nat /\ r \in Nat
  BY <1>1, <1>2, <1>3
<1> HIDE DEF q, r
<1>5. n = r + ByteBase * q
  BY <1>1, <1>4
<1> QED BY <1>2, <1>5 DEF shr, Bytes, q, r

\* A number below m * ByteBase is below m without its lowest byte.
LEMMA FewerBytes ==
    ASSUME NEW n \in Nat, NEW m \in Nat, n < ByteBase * m
    PROVE  shr(n) < m
<1>1. ByteBase \in Nat \ {0}
  BY Constants
<1> QED BY <1>1 DEF shr

\* A number of four bytes is what its little-endian bytes say.
LEMMA FourBytes ==
    ASSUME NEW n \in Nat, n < ByteBase * ByteBase * ByteBase * ByteBase
    PROVE  /\ to_le_bytes(n) \in [1 .. PAD_LEN_BYTES -> Bytes]
           /\ from_le_bytes(to_le_bytes(n)) = n
<1> DEFINE B  == ByteBase
           q1 == shr(n)
           q2 == shr(q1)
           q3 == shr(q2)
           r1 == n % B
           r2 == q1 % B
           r3 == q2 % B
           r4 == q3 % B
<1>0. B \in Nat /\ B >= 2
  BY Constants
<1>1. q1 \in Nat /\ r1 \in Bytes /\ n = r1 + B * q1
  BY LowByte
<1>2. q2 \in Nat /\ r2 \in Bytes /\ q1 = r2 + B * q2
  BY <1>1, LowByte
<1>3. q3 \in Nat /\ r3 \in Bytes /\ q2 = r3 + B * q3
  BY <1>2, LowByte
<1>4. r4 \in Bytes
  BY <1>3, LowByte
<1>5. q3 < B
  <2>1. B * B \in Nat /\ B * B * B \in Nat
    BY <1>0
  <2>2. n < B * (B * B * B)
    <3>1. B * (B * B * B) = B * B * B * B
      BY <1>0
    <3> QED BY <3>1
  <2>3. q1 < B * (B * B)
    <3>1. q1 < B * B * B
      BY <2>1, <2>2, FewerBytes
    <3>2. B * (B * B) = B * B * B
      BY <1>0
    <3> QED BY <3>1, <3>2
  <2>4. q2 < B * B
    BY <1>1, <2>1, <2>3, FewerBytes
  <2> QED BY <1>0, <1>2, <2>4, FewerBytes
<1>6. r4 = q3
  <2> HIDE DEF q3
  <2>1. q3 \in 0 .. B - 1
    BY <1>0, <1>3, <1>5
  <2> QED BY <1>0, <2>1
<1> DEFINE t == to_le_bytes(n)
<1>7. t = <<r1, r2, r3, r4>>
  BY DEF to_le_bytes
<1>8. t \in [1 .. 4 -> Bytes] /\ t[1] = r1 /\ t[2] = r2 /\ t[3] = r3 /\ t[4] = q3
  <2> HIDE DEF r1, r2, r3, r4, q3, t
  <2> QED BY <1>1, <1>2, <1>3, <1>4, <1>6, <1>7
<1>9. from_le_bytes(t) = r1 + B * (r2 + B * (r3 + B * q3))
  BY <1>8 DEF from_le_bytes
<1> HIDE DEF q1, q2, q3, r1, r2, r3, r4, t
<1>10. from_le_bytes(t) = n
  BY <1>1, <1>2, <1>3, <1>9
<1> QED BY <1>8, <1>10, Constants DEF t

\* The marker of a dummy is the largest number of four bytes.
LEMMA MarkerIsLargest == from_le_bytes(Marker) = ByteBase * ByteBase * ByteBase * ByteBase - 1
<1> DEFINE B == ByteBase
<1>0. B \in Nat /\ B >= 2
  BY Constants
<1>1. Marker[1] = B - 1 /\ Marker[2] = B - 1 /\ Marker[3] = B - 1 /\ Marker[4] = B - 1
  BY Constants DEF Marker
<1>2. from_le_bytes(Marker) = (B - 1) + B * ((B - 1) + B * ((B - 1) + B * (B - 1)))
  BY <1>1 DEF from_le_bytes
<1>3. (B - 1) + B * (B - 1) = B * B - 1
  BY <1>0
<1>4. (B - 1) + B * (B * B - 1) = B * B * B - 1
  BY <1>0
<1>5. (B - 1) + B * (B * B * B - 1) = B * B * B * B - 1
  BY <1>0
<1> HIDE DEF B
<1>6. from_le_bytes(Marker) = B * B * B * B - 1
  BY <1>2, <1>3, <1>4, <1>5
<1> QED BY <1>6 DEF B

\* unpad_message undoes pad_message for messages of every length: pad_message never
\* fails, what it returns is accepted, is cut back to the message's own length, and
\* is never taken for a dummy.
THEOREM PadUnpad ==
    ASSUME NEW text, NEW len \in Nat
    PROVE  LET b == pad_message(text, len)
           IN  /\ ~PadRejects(len)
               /\ b.text = text /\ b.text_len = len /\ b.len = bucket_size(len)
               /\ b.len \in Nat /\ b.tail \in [1 .. PAD_LEN_BYTES -> Bytes]
               /\ ~UnpadRejects(b) /\ unpad_message(b) = len
               /\ ~is_dummy_message(b)
<1> DEFINE size == bucket_size(len)
           pad  == size - len
           b    == pad_message(text, len)
<1>1. size \in Nat /\ len + 4 <= size /\ size <= len + MAX_BUCKET + 3
  BY BucketRoom
<1>2. MAX_BUCKET \in Nat
  BY Constants, PowersAreNat
<1> HIDE DEF size
<1> DEFINE top == ByteBase * ByteBase * ByteBase * ByteBase
<1>3. top \in Nat /\ MAX_BUCKET + 4 < top
  BY Constants
<1> HIDE DEF top
<1>4. pad \in Nat /\ pad >= 4 /\ pad <= size /\ pad < top /\ pad # top - 1 /\ size - pad = len
  BY <1>1, <1>2, <1>3
<1>5. b.text = text /\ b.text_len = len /\ b.len = size /\ b.tail = to_le_bytes(pad)
  BY DEF pad_message, ByteString, size
<1> HIDE DEF b, pad
<1>6. to_le_bytes(pad) \in [1 .. PAD_LEN_BYTES -> Bytes] /\ from_le_bytes(to_le_bytes(pad)) = pad
  BY <1>4, FourBytes DEF top
<1>7. PadLen(b) = pad
  BY <1>5, <1>6 DEF PadLen
<1>8. b.tail # Marker
  BY <1>4, <1>5, <1>6, MarkerIsLargest DEF top
<1>9. ~PadRejects(len)
  <2>1. ~(pad < 4)
    BY <1>4
  <2> QED BY <2>1, Constants DEF PadRejects, size, pad
<1>10. ~UnpadRejects(b) /\ unpad_message(b) = len
  <2>1. ~(size < 4) /\ ~(pad < 4) /\ ~(pad > size)
    BY <1>1, <1>4
  <2> QED BY <1>4, <1>5, <1>7, <2>1, Constants DEF UnpadRejects, unpad_message
<1>11. b.len \in Nat /\ b.tail \in [1 .. PAD_LEN_BYTES -> Bytes]
  BY <1>1, <1>5, <1>6
<1>12. ~is_dummy_message(b)
  BY <1>8 DEF is_dummy_message
<1> QED BY <1>5, <1>9, <1>10, <1>11, <1>12 DEF b, size

-----------------------------------------------------------------------------
(* Payloads *)

\* A payload as the receiver gets it.
Normalised(p) ==
    in_group(p, IF p.group_id = RealGroup THEN RealGroup ELSE None)

LEMMA GroupIdCases ==
    ASSUME NEW p \in MessagePayload
    PROVE  /\ None # GROUP_ID_PLACEHOLDER
           /\ \/ p.group_id = None
              \/ p.group_id # None /\ p.group_id = RealGroup
              \/ p.group_id # None /\ p.group_id = GROUP_ID_PLACEHOLDER
              \/ p.group_id # None /\ p.group_id = [len |-> 0, chars |-> "none"]
              \/ p.group_id # None /\ p.group_id = [len |-> 63, chars |-> "hex"]
              \/ p.group_id # None /\ p.group_id = [len |-> 64, chars |-> "other"]
<1>1. p.group_id \in GroupIds \cup {None}
  BY DEF MessagePayload
<1>2. None \notin GroupIds
  BY PayloadAssumption
<1> QED BY <1>1, <1>2 DEF GroupIds, GROUP_ID_LEN

\* What is serialised is a payload with some length; to_padded_bytes always
\* writes a group id.
LEMMA Serialised ==
    ASSUME NEW p \in MessagePayload
    PROVE  /\ json_len(p) \in Nat
           /\ OnWire(p) \in MessagePayload
           /\ p # None
<1>1. /\ p.body \in Nat
      /\ p.attachment = None \/ p.attachment \in Nat
  BY PayloadAssumption DEF MessagePayload
<1>2. p.group_id = None \/ p.group_id.len \in Nat
  BY GroupIdCases DEF RealGroup, GROUP_ID_PLACEHOLDER, GROUP_ID_LEN
<1>3. json_len(p) \in Nat
  BY <1>1, <1>2 DEF json_len
<1>4. OnWire(p) \in MessagePayload
  <2>1. GROUP_ID_PLACEHOLDER \in GroupIds
    BY DEF GroupIds
  <2> QED BY <2>1 DEF OnWire, in_group, MessagePayload
<1>5. p # None
  BY PayloadAssumption
<1> QED BY <1>3, <1>4, <1>5

\* A group id is refused if and only if it is malformed, and both forms of a
\* payload are normalised to the same.
LEMMA Normalisation ==
    ASSUME NEW p \in MessagePayload, NEW q \in {p, OnWire(p)}
    PROVE  /\ GroupIdRejects(q.group_id) <=> ~Routable(p)
           /\ Routable(p) => normalize_group_id(q) = Normalised(p)
           /\ ~Routable(p) => in_group(q, None) = Normalised(p)
<1>1. p = [body |-> p.body, ttl_seconds |-> p.ttl_seconds,
           group_id |-> p.group_id, attachment |-> p.attachment]
  BY DEF MessagePayload
<1>2. CASE p.group_id = None
  <2>1. q.group_id = None \/ q.group_id = GROUP_ID_PLACEHOLDER
    BY <1>1, <1>2 DEF OnWire, in_group
  <2>2. ~GroupIdRejects(q.group_id)
    BY <2>1 DEF GroupIdRejects, GROUP_ID_PLACEHOLDER, GROUP_ID_LEN
  <2>3. Routable(p)
    BY <1>2 DEF Routable, DirectIds
  <2>4. Normalised(p) = [p EXCEPT !.group_id = None]
    BY <1>2, GroupIdCases, PayloadAssumption DEF Normalised, GroupIds, in_group
  <2>5. CASE q = p
    <3>1. normalize_group_id(p) = p
      BY <1>2, GroupIdCases DEF normalize_group_id
    <3>2. [p EXCEPT !.group_id = None] = p
      BY <1>1, <1>2
    <3> QED BY <2>2, <2>3, <2>4, <2>5, <3>1, <3>2
  <2>6. CASE q = OnWire(p)
    <3>1. q = [p EXCEPT !.group_id = GROUP_ID_PLACEHOLDER]
      BY <1>2, <2>6 DEF OnWire, in_group
    <3>2. q.group_id = GROUP_ID_PLACEHOLDER
      BY <1>1, <3>1
    <3>3. normalize_group_id(q) = [q EXCEPT !.group_id = None]
      BY <3>2 DEF normalize_group_id, in_group
    <3>4. [q EXCEPT !.group_id = None] = [p EXCEPT !.group_id = None]
      BY <1>1, <3>1
    <3> QED BY <2>2, <2>3, <2>4, <3>3, <3>4
  <2> QED BY <2>5, <2>6
<1>3. CASE p.group_id # None
  <2>1. q = p
    BY <1>3 DEF OnWire
  <2>2. /\ GroupIdRejects(p.group_id) <=> ~Routable(p)
        /\ Routable(p) => normalize_group_id(p) = Normalised(p)
        /\ ~Routable(p) => in_group(p, None) = Normalised(p)
    <3>1. CASE p.group_id = RealGroup
      <4>1. Normalised(p) = p
        BY <1>1, <3>1 DEF Normalised, in_group
      <4>2. normalize_group_id(p) = p
        BY <1>1, <1>3, <3>1
           DEF normalize_group_id, RealGroup, GROUP_ID_PLACEHOLDER, GROUP_ID_LEN
      <4>3. Routable(p) /\ ~GroupIdRejects(p.group_id)
        BY <3>1 DEF Routable, GroupIdRejects, RealGroup, GROUP_ID_LEN
      <4> QED BY <4>1, <4>2, <4>3
    <3>2. CASE p.group_id = GROUP_ID_PLACEHOLDER \/ p.group_id = [len |-> 0, chars |-> "none"]
      <4>1. Normalised(p) = in_group(p, None)
        BY <3>2 DEF Normalised, RealGroup, GROUP_ID_PLACEHOLDER, GROUP_ID_LEN
      <4>2. normalize_group_id(p) = in_group(p, None)
        BY <1>3, <3>2 DEF normalize_group_id
      <4>3. Routable(p) /\ ~GroupIdRejects(p.group_id)
        BY <3>2 DEF Routable, DirectIds, GroupIdRejects, GROUP_ID_PLACEHOLDER, GROUP_ID_LEN
      <4> QED BY <4>1, <4>2, <4>3
    <3>3. CASE \/ p.group_id = [len |-> 63, chars |-> "hex"]
               \/ p.group_id = [len |-> 64, chars |-> "other"]
      <4>1. ~Routable(p)
        BY <1>3, <3>3
           DEF Routable, DirectIds, RealGroup, GROUP_ID_PLACEHOLDER, GROUP_ID_LEN
      <4>2. GroupIdRejects(p.group_id)
        BY <1>3, <3>3 DEF GroupIdRejects, GROUP_ID_LEN
      <4>3. Normalised(p) = in_group(p, None)
        BY <3>3 DEF Normalised, RealGroup, GROUP_ID_LEN
      <4> QED BY <4>1, <4>2, <4>3
    <3> QED BY <1>3, <3>1, <3>2, <3>3, GroupIdCases
  <2> QED BY <2>1, <2>2
<1> QED BY <1>2, <1>3

\* What the library makes of some bytes, and what the receiver does.
EitherForm(bytes) ==
    IF from_padded_bytes(bytes) # {} THEN from_padded_bytes(bytes) ELSE from_bytes(bytes)

ReadOf(bytes, direct) ==
    IF EitherForm(bytes) = {} /\ direct THEN AsDirect(bytes) ELSE EitherForm(bytes)

\* The padded form is read back, and is no dummy.
LEMMA PaddedReads ==
    ASSUME NEW p \in MessagePayload
    PROVE  /\ ~is_dummy_message(to_padded_bytes(p))
           /\ \A direct \in BOOLEAN :
                 ReadOf(to_padded_bytes(p), direct) =
                     IF Routable(p) \/ direct THEN {Normalised(p)} ELSE {}
           /\ to_padded_bytes(p).len \in Nat
           /\ to_padded_bytes(p).tail \in [1 .. PAD_LEN_BYTES -> Bytes]
<1> DEFINE q   == OnWire(p)
           len == json_len(q)
           b   == to_padded_bytes(p)
<1>1. q \in MessagePayload /\ len \in Nat /\ q # None
  BY Serialised
<1>2. b = pad_message(q, len)
  BY DEF to_padded_bytes
<1> HIDE DEF b, len
<1>3. /\ b.text = q /\ b.text_len = len /\ b.len = bucket_size(len)
      /\ b.len \in Nat /\ b.tail \in [1 .. PAD_LEN_BYTES -> Bytes]
      /\ ~UnpadRejects(b) /\ unpad_message(b) = len
      /\ ~is_dummy_message(b)
  BY <1>1, <1>2, PadUnpad
<1>4. b.len # len
  BY <1>1, <1>3, BucketRoom
<1>5. from_bytes(b) = {}
  BY <1>3, <1>4 DEF from_bytes, FromJson, Parses
<1>6. from_padded_bytes(b) = IF GroupIdRejects(q.group_id) THEN {} ELSE {normalize_group_id(q)}
  BY <1>1, <1>3 DEF from_padded_bytes, FromJson, Parses
<1>7. /\ GroupIdRejects(q.group_id) <=> ~Routable(p)
      /\ Routable(p) => normalize_group_id(q) = Normalised(p)
      /\ ~Routable(p) => in_group(q, None) = Normalised(p)
  BY Normalisation
<1>8. AsDirect(b) = {in_group(q, None)}
  BY <1>1, <1>3 DEF AsDirect, Parses
<1>9. EitherForm(b) = IF Routable(p) THEN {Normalised(p)} ELSE {}
  BY <1>5, <1>6, <1>7 DEF EitherForm
<1>10. \A direct \in BOOLEAN :
          ReadOf(b, direct) = IF Routable(p) \/ direct THEN {Normalised(p)} ELSE {}
  <2> HIDE DEF q
  <2> QED BY <1>7, <1>8, <1>9 DEF ReadOf
<1> QED BY <1>3, <1>10 DEF b

\* The bare form is never taken for a padded one or for a dummy.
LEMMA BareReads ==
    ASSUME NEW p \in MessagePayload
    PROVE  /\ ~is_dummy_message(to_bytes(p))
           /\ \A direct \in BOOLEAN :
                 ReadOf(to_bytes(p), direct) =
                     IF Routable(p) \/ direct THEN {Normalised(p)} ELSE {}
           /\ to_bytes(p).len \in Nat
           /\ to_bytes(p).tail \in [1 .. PAD_LEN_BYTES -> Bytes]
<1> DEFINE len == json_len(p)
           b   == to_bytes(p)
           t   == (ByteBase * 125) \div 256
<1>1. len \in Nat /\ p # None
  BY Serialised
<1>2. b.text = p /\ b.text_len = len /\ b.len = len /\ b.tail = JsonTail
  BY DEF to_bytes, ByteString
<1> HIDE DEF b, len
<1>3. t \in Bytes /\ t # ByteBase - 1
  BY Constants DEF Bytes
<1>4. /\ JsonTail \in [1 .. PAD_LEN_BYTES -> Bytes]
      /\ JsonTail[1] = t /\ JsonTail[2] = t /\ JsonTail[3] = t /\ JsonTail[4] = t
  <2>1. JsonTail = [i \in 1 .. 4 |-> t]
    BY Constants DEF JsonTail
  <2> HIDE DEF t
  <2> QED BY <1>3, <2>1, Constants
<1> HIDE DEF t
<1>5. JsonTail # Marker
  <2>1. Marker[1] = ByteBase - 1
    BY Constants DEF Marker
  <2> QED BY <1>3, <1>4, <2>1
<1>6. PadLen(b) \in Int
  <2>1. PadLen(b) = t + ByteBase * (t + ByteBase * (t + ByteBase * t))
    BY <1>2, <1>4 DEF PadLen, from_le_bytes
  <2>2. t \in Int /\ ByteBase \in Int
    BY <1>3, Constants DEF Bytes
  <2> QED BY <2>1, <2>2
<1>7. from_padded_bytes(b) = {}
  <2>1. CASE UnpadRejects(b)
    BY <2>1 DEF from_padded_bytes
  <2>2. CASE ~UnpadRejects(b)
    <3>1. PadLen(b) >= 4
      BY <1>6, <2>2, Constants DEF UnpadRejects
    <3>2. unpad_message(b) # len
      BY <1>1, <1>2, <1>6, <3>1 DEF unpad_message
    <3> QED BY <1>2, <3>2 DEF from_padded_bytes, FromJson, Parses
  <2> QED BY <2>1, <2>2
<1>8. from_bytes(b) = IF GroupIdRejects(p.group_id) THEN {} ELSE {normalize_group_id(p)}
  BY <1>1, <1>2 DEF from_bytes, FromJson, Parses
<1>9. /\ GroupIdRejects(p.group_id) <=> ~Routable(p)
      /\ Routable(p) => normalize_group_id(p) = Normalised(p)
      /\ ~Routable(p) => in_group(p, None) = Normalised(p)
  BY Normalisation
<1>10. \A direct \in BOOLEAN :
          ReadOf(b, direct) = IF Routable(p) \/ direct THEN {Normalised(p)} ELSE {}
  <2>1. AsDirect(b) = {in_group(p, None)}
    BY <1>1, <1>2 DEF AsDirect, Parses
  <2>2. EitherForm(b) = IF Routable(p) THEN {Normalised(p)} ELSE {}
    BY <1>7, <1>8, <1>9 DEF EitherForm
  <2> QED BY <1>9, <2>1, <2>2 DEF ReadOf
<1>11. ~is_dummy_message(b)
  BY <1>2, <1>5 DEF is_dummy_message
<1> QED BY <1>1, <1>2, <1>4, <1>10, <1>11 DEF b

\* A dummy is never read, whoever looks at it.
LEMMA DummyUnread ==
    ASSUME NEW b, b.text = None
    PROVE  \A direct \in BOOLEAN : ReadOf(b, direct) = {}
BY DEF ReadOf, EitherForm, AsDirect, from_padded_bytes, from_bytes, FromJson, Parses

-----------------------------------------------------------------------------
(* The inductive invariant *)

\* A plaintext in transit is a dummy, or one of the two forms of its payload.
WireOK ==
    \A w \in wire :
        \/ w.n = None /\ w.bytes.text = None /\ w.bytes.len \in Nat /\ w.bytes.tail = Marker
        \/ w.n \in Serials /\ w.bytes \in {to_padded_bytes(sent[w.n]), to_bytes(sent[w.n])}

\* What was delivered is the payload as it was sent, but for an id that is none.
InboxOK ==
    \A x \in inbox : x.n \in Serials /\ x.payload = Normalised(sent[x.n])

LostOK ==
    /\ dropped \subseteq {None}
    /\ refused \subseteq [n : Serials \cup {None}, direct : BOOLEAN]
    /\ \A x \in refused : x.n # None => ~Routable(sent[x.n]) /\ ~x.direct

\* The sizes the relay has seen are those of the padded messages.
SeenOK ==
    /\ observed \subseteq [n : Serials, len : Nat]
    /\ \A x \in observed : x.len = to_padded_bytes(sent[x.n]).len

PayloadInv == sent \in Seq(MessagePayload) /\ WireOK /\ InboxOK /\ LostOK /\ SeenOK

\* A new message has a new number, and the numbers before it keep their payloads.
LEMMA NewNumber ==
    ASSUME sent \in Seq(MessagePayload), NEW p \in MessagePayload, sent' = Append(sent, p)
    PROVE  /\ sent' \in Seq(MessagePayload)
           /\ Serials \subseteq Serials' /\ Len(sent) + 1 \in Serials'
           /\ sent'[Len(sent) + 1] = p
           /\ \A n \in Serials : sent'[n] = sent[n]
<1>1. /\ sent' \in Seq(MessagePayload) /\ Len(sent') = Len(sent) + 1
      /\ \A n \in 1 .. Len(sent) : sent'[n] = sent[n]
      /\ sent'[Len(sent) + 1] = p
  BY AppendProperties
<1>2. Len(sent) \in Nat
  OBVIOUS
<1> QED BY <1>1, <1>2 DEF Serials

\* The receiver's lists and the relay's stay right when a message is put on the list.
LEMMA ListsStay ==
    ASSUME PayloadInv, NEW p \in MessagePayload, sent' = Append(sent, p),
           UNCHANGED <<inbox, refused, dropped>>
    PROVE  InboxOK' /\ LostOK'
<1>1. /\ Serials \subseteq Serials' /\ \A n \in Serials : sent'[n] = sent[n]
  BY NewNumber DEF PayloadInv
<1>2. inbox' = inbox /\ refused' = refused /\ dropped' = dropped
  OBVIOUS
<1>3. InboxOK'
  <2> SUFFICES ASSUME NEW x \in inbox'
               PROVE  x.n \in Serials' /\ x.payload = Normalised(sent'[x.n])
    BY DEF InboxOK
  <2>1. x.n \in Serials /\ x.payload = Normalised(sent[x.n])
    BY <1>2 DEF PayloadInv, InboxOK
  <2> QED BY <1>1, <2>1
<1>4. LostOK'
  <2>1. ASSUME NEW x \in refused'
        PROVE  /\ x \in [n : Serials' \cup {None}, direct : BOOLEAN]
               /\ x.n # None => ~Routable(sent'[x.n]) /\ ~x.direct
    <3>1. /\ x \in [n : Serials \cup {None}, direct : BOOLEAN]
          /\ x.n # None => ~Routable(sent[x.n]) /\ ~x.direct
      BY <1>2 DEF PayloadInv, LostOK
    <3> QED BY <1>1, <3>1
  <2>2. dropped' \subseteq {None}
    BY <1>2 DEF PayloadInv, LostOK
  <2> QED BY <2>1, <2>2 DEF LostOK
<1> QED BY <1>3, <1>4

\* So does the wire when one of the two forms of the new message is put on it.
LEMMA WireGrows ==
    ASSUME PayloadInv, NEW p \in MessagePayload, sent' = Append(sent, p),
           NEW b \in {to_padded_bytes(p), to_bytes(p)}, Emit(Len(sent) + 1, b)
    PROVE  WireOK'
<1>1. /\ Serials \subseteq Serials' /\ \A n \in Serials : sent'[n] = sent[n]
      /\ Len(sent) + 1 \in Serials' /\ sent'[Len(sent) + 1] = p
  BY NewNumber DEF PayloadInv
<1>2. wire' = wire \cup {[n |-> Len(sent) + 1, bytes |-> b]}
  BY DEF Emit
<1> SUFFICES ASSUME NEW w \in wire'
             PROVE  \/ /\ w.n = None /\ w.bytes.text = None
                       /\ w.bytes.len \in Nat /\ w.bytes.tail = Marker
                    \/ /\ w.n \in Serials'
                       /\ w.bytes \in {to_padded_bytes(sent'[w.n]), to_bytes(sent'[w.n])}
  BY DEF WireOK
<1>3. CASE w \in wire
  <2>1. \/ w.n = None /\ w.bytes.text = None /\ w.bytes.len \in Nat /\ w.bytes.tail = Marker
        \/ w.n \in Serials /\ w.bytes \in {to_padded_bytes(sent[w.n]), to_bytes(sent[w.n])}
    BY <1>3 DEF PayloadInv, WireOK
  <2> QED BY <1>1, <2>1
<1>4. CASE w = [n |-> Len(sent) + 1, bytes |-> b]
  <2>1. w.n = Len(sent) + 1 /\ w.bytes = b
    BY <1>4
  <2> QED BY <1>1, <2>1
<1> QED BY <1>2, <1>3, <1>4

LEMMA SendStep ==
    ASSUME PayloadInv, NEW p \in MessagePayload, Send(p)
    PROVE  PayloadInv'
<1> DEFINE n == Len(sent) + 1
           b == to_padded_bytes(p)
<1>1. /\ sent' = Append(sent, p) /\ Emit(n, b)
      /\ observed' = observed \cup {[n |-> n, len |-> b.len]}
      /\ UNCHANGED <<inbox, refused, dropped>>
  BY DEF Send
<1>2. /\ sent' \in Seq(MessagePayload)
      /\ Serials \subseteq Serials' /\ n \in Serials' /\ sent'[n] = p
      /\ \A k \in Serials : sent'[k] = sent[k]
  BY <1>1, NewNumber DEF PayloadInv
<1>3. WireOK'
  BY <1>1, WireGrows
<1>4. InboxOK' /\ LostOK'
  BY <1>1, ListsStay
<1>5. b.len \in Nat
  BY PaddedReads
<1>6. SeenOK'
  <2> HIDE DEF n, b
  <2>1. observed' \subseteq [n : Serials', len : Nat]
    BY <1>1, <1>2, <1>5 DEF PayloadInv, SeenOK
  <2>2. ASSUME NEW x \in observed'
        PROVE  x.len = to_padded_bytes(sent'[x.n]).len
    <3>1. CASE x \in observed
      <4>1. x.n \in Serials /\ x.len = to_padded_bytes(sent[x.n]).len
        BY <3>1 DEF PayloadInv, SeenOK
      <4> QED BY <1>2, <4>1
    <3>2. CASE x = [n |-> n, len |-> b.len]
      <4>1. x.n = n /\ x.len = b.len
        BY <3>2
      <4> QED BY <1>2, <4>1 DEF b
    <3> QED BY <1>1, <3>1, <3>2
  <2> QED BY <2>1, <2>2 DEF SeenOK
<1> QED BY <1>2, <1>3, <1>4, <1>6 DEF PayloadInv

LEMMA SendRawStep ==
    ASSUME PayloadInv, NEW p \in MessagePayload, SendRaw(p)
    PROVE  PayloadInv'
<1>1. /\ sent' = Append(sent, p) /\ Emit(Len(sent) + 1, to_bytes(p))
      /\ observed' = observed
      /\ UNCHANGED <<inbox, refused, dropped>>
  BY DEF SendRaw
<1>2. /\ sent' \in Seq(MessagePayload)
      /\ Serials \subseteq Serials' /\ \A k \in Serials : sent'[k] = sent[k]
  BY <1>1, NewNumber DEF PayloadInv
<1>3. WireOK'
  BY <1>1, WireGrows
<1>4. InboxOK' /\ LostOK'
  BY <1>1, ListsStay
<1>5. SeenOK'
  <2>1. observed' \subseteq [n : Serials', len : Nat]
    BY <1>1, <1>2 DEF PayloadInv, SeenOK
  <2>2. ASSUME NEW x \in observed'
        PROVE  x.len = to_padded_bytes(sent'[x.n]).len
    <3>1. x.n \in Serials /\ x.len = to_padded_bytes(sent[x.n]).len
      BY <1>1 DEF PayloadInv, SeenOK
    <3> QED BY <1>2, <3>1
  <2> QED BY <2>1, <2>2 DEF SeenOK
<1> QED BY <1>2, <1>3, <1>4, <1>5 DEF PayloadInv

LEMMA SendDummyStep ==
    ASSUME PayloadInv, NEW size \in DummySizes, SendDummy(size)
    PROVE  PayloadInv'
<1> DEFINE b == generate_dummy_message(None, size)
<1>1. /\ wire' = wire \cup {[n |-> None, bytes |-> b]}
      /\ sent' = sent /\ inbox' = inbox /\ refused' = refused
      /\ dropped' = dropped /\ observed' = observed
  BY DEF SendDummy, Emit
<1>2. b.text = None /\ b.len \in Nat /\ b.tail = Marker
  <2>1. MIN_BUCKET \in Nat /\ size \in Nat
    BY Constants, PowersAreNat, PayloadAssumption
  <2> QED BY <2>1 DEF generate_dummy_message, ByteString
<1> HIDE DEF b
<1>3. WireOK'
  <2>1. Serials' = Serials
    BY <1>1 DEF Serials
  <2> SUFFICES ASSUME NEW w \in wire'
               PROVE  \/ /\ w.n = None /\ w.bytes.text = None
                         /\ w.bytes.len \in Nat /\ w.bytes.tail = Marker
                      \/ /\ w.n \in Serials
                         /\ w.bytes \in {to_padded_bytes(sent[w.n]), to_bytes(sent[w.n])}
    BY <1>1, <2>1 DEF WireOK
  <2>2. CASE w \in wire
    BY <2>2 DEF PayloadInv, WireOK
  <2>3. CASE w = [n |-> None, bytes |-> b]
    <3>1. w.n = None /\ w.bytes = b
      BY <2>3
    <3> QED BY <1>2, <3>1
  <2> QED BY <1>1, <2>2, <2>3
<1>4. sent' \in Seq(MessagePayload) /\ InboxOK' /\ LostOK' /\ SeenOK'
  BY <1>1 DEF PayloadInv, InboxOK, LostOK, SeenOK, Serials
<1> QED BY <1>3, <1>4 DEF PayloadInv

\* Whatever form a message has and whether or not the receiver looks for dummies.
LEMMA ReceiveStep ==
    ASSUME PayloadInv, NEW w \in wire, NEW looks \in BOOLEAN, NEW direct \in BOOLEAN,
           Receive(w, looks, direct)
    PROVE  PayloadInv'
<1>1. /\ wire' \subseteq wire /\ sent' = sent /\ observed' = observed
      /\ \/ /\ is_dummy_message(w.bytes)
            /\ dropped' = dropped \cup {w.n} /\ inbox' = inbox /\ refused' = refused
         \/ /\ inbox' = inbox \cup {[n |-> w.n, payload |-> p] : p \in ReadOf(w.bytes, direct)}
            /\ refused' = refused \cup (IF ReadOf(w.bytes, direct) = {}
                                        THEN {[n |-> w.n, direct |-> direct]} ELSE {})
            /\ dropped' = dropped
  BY DEF Receive, ReadOf, EitherForm
<1>2. Serials' = Serials
  BY <1>1 DEF Serials
<1>3. \/ w.n = None /\ ReadOf(w.bytes, direct) = {}
      \/ /\ w.n \in Serials /\ ~is_dummy_message(w.bytes)
         /\ ReadOf(w.bytes, direct) =
                IF Routable(sent[w.n]) \/ direct THEN {Normalised(sent[w.n])} ELSE {}
  <2>1. CASE w.n = None /\ w.bytes.text = None
    BY <2>1, DummyUnread
  <2>2. CASE w.n \in Serials /\ w.bytes \in {to_padded_bytes(sent[w.n]), to_bytes(sent[w.n])}
    <3>1. sent[w.n] \in MessagePayload
      BY <2>2 DEF PayloadInv, Serials
    <3> QED BY <2>2, <3>1, PaddedReads, BareReads
  <2> QED BY <2>1, <2>2 DEF PayloadInv, WireOK
<1>4. WireOK'
  BY <1>1, <1>2 DEF PayloadInv, WireOK
<1>5. InboxOK'
  <2> SUFFICES ASSUME NEW x \in inbox'
               PROVE  x.n \in Serials /\ x.payload = Normalised(sent[x.n])
    BY <1>1, <1>2 DEF InboxOK
  <2>1. CASE x \in inbox
    BY <2>1 DEF PayloadInv, InboxOK
  <2>2. CASE x \notin inbox
    <3>1. PICK p \in ReadOf(w.bytes, direct) : x = [n |-> w.n, payload |-> p]
      BY <1>1, <2>2
    <3>2. x.n = w.n /\ x.payload = p
      BY <3>1
    <3> QED BY <1>3, <3>1, <3>2
  <2> QED BY <2>1, <2>2
<1>6. LostOK'
  <2>1. dropped' \subseteq {None}
    BY <1>1, <1>3 DEF PayloadInv, LostOK
  <2>2. ASSUME NEW x \in refused'
        PROVE  /\ x \in [n : Serials \cup {None}, direct : BOOLEAN]
               /\ x.n # None => ~Routable(sent[x.n]) /\ ~x.direct
    <3>1. CASE x \in refused
      BY <3>1 DEF PayloadInv, LostOK
    <3>2. CASE x \notin refused
      <4>1. x = [n |-> w.n, direct |-> direct] /\ ReadOf(w.bytes, direct) = {}
        BY <1>1, <3>2
      <4>2. x.n = w.n /\ x.direct = direct /\ w.n \in Serials \cup {None}
        BY <1>3, <4>1
      <4>3. x.n # None => ~(Routable(sent[x.n]) \/ direct)
        BY <1>3, <4>1, <4>2
      <4> QED BY <4>1, <4>2, <4>3
    <3> QED BY <3>1, <3>2
  <2> QED BY <1>1, <1>2, <2>1, <2>2 DEF LostOK
<1>7. SeenOK' /\ sent' \in Seq(MessagePayload)
  BY <1>1, <1>2 DEF PayloadInv, SeenOK
<1> QED BY <1>4, <1>5, <1>6, <1>7 DEF PayloadInv

\* PayloadInv holds in every state: what is in transit and what was read belong to
\* the payload that was sent, for messages of every length and in either form.
THEOREM PayloadInvariance == Spec => []PayloadInv
<1>1. Init => PayloadInv
  BY DEF Init, PayloadInv, WireOK, InboxOK, LostOK, SeenOK
<1>2. PayloadInv /\ [Next]_vars => PayloadInv'
  <2> SUFFICES ASSUME PayloadInv, [Next]_vars PROVE PayloadInv'
    OBVIOUS
  <2>1. ASSUME NEW p \in MessagePayload, Send(p) PROVE PayloadInv'
    BY <2>1, SendStep
  <2>2. ASSUME NEW p \in MessagePayload, SendRaw(p) PROVE PayloadInv'
    BY <2>2, SendRawStep
  <2>3. ASSUME NEW size \in DummySizes, SendDummy(size) PROVE PayloadInv'
    BY <2>3, SendDummyStep
  <2>4. ASSUME NEW w \in wire, NEW looks \in BOOLEAN, NEW direct \in BOOLEAN,
               Receive(w, looks, direct)
        PROVE  PayloadInv'
    BY <2>4, ReceiveStep
  <2>5. CASE UNCHANGED vars
    BY <2>5 DEF vars, PayloadInv, WireOK, InboxOK, LostOK, SeenOK, Serials
  <2> QED BY <2>1, <2>2, <2>3, <2>4, <2>5 DEF Next
<1> QED BY <1>1, <1>2, PTL DEF Spec

\* Payloads, plaintexts and the receiver's lists have their types, and the suffix
\* of every message consists of bytes.
THEOREM PayloadTypeCorrect == Spec => []TypeOK
<1>1. ASSUME PayloadInv PROVE TypeOK
  <2>1. sent \in Seq(MessagePayload) /\ \A n \in Serials : sent[n] \in MessagePayload
    BY <1>1 DEF PayloadInv, Serials
  <2>2. Marker \in [1 .. PAD_LEN_BYTES -> Bytes]
    BY Constants DEF Marker, Bytes
  <2>3. ASSUME NEW w \in wire
        PROVE  /\ w.n \in Serials \cup {None} /\ w.bytes.len \in Nat
               /\ w.bytes.tail \in [1 .. PAD_LEN_BYTES -> Bytes]
    <3>1. CASE w.n = None /\ w.bytes.len \in Nat /\ w.bytes.tail = Marker
      BY <2>2, <3>1
    <3>2. CASE w.n \in Serials /\ w.bytes \in {to_padded_bytes(sent[w.n]), to_bytes(sent[w.n])}
      BY <2>1, <3>2, PaddedReads, BareReads
    <3> QED BY <1>1, <3>1, <3>2 DEF PayloadInv, WireOK
  <2>4. ASSUME NEW x \in inbox
        PROVE  x.n \in Serials \cup {None} /\ x.payload \in MessagePayload
    <3>1. x.n \in Serials /\ x.payload = Normalised(sent[x.n])
      BY <1>1 DEF PayloadInv, InboxOK
    <3>2. sent[x.n] \in MessagePayload
      BY <2>1, <3>1
    <3>3. Normalised(sent[x.n]) \in MessagePayload
      BY <3>2 DEF Normalised, in_group, MessagePayload
    <3> QED BY <3>1, <3>3
  <2>5. /\ refused \subseteq [n : Serials \cup {None}, direct : BOOLEAN]
        /\ dropped \subseteq Serials \cup {None}
    BY <1>1 DEF PayloadInv, LostOK
  <2>6. observed \subseteq [n : Serials, len : Nat]
    BY <1>1 DEF PayloadInv, SeenOK
  <2> QED BY <2>1, <2>3, <2>4, <2>5, <2>6 DEF TypeOK
<1> QED BY <1>1, PayloadInvariance, PTL

\* A payload is delivered as it was sent, to the group whose id it has and else as a
\* direct message, and a dummy never.
THEOREM DeliveryFaithful == Spec => []DeliveredAsSent
<1>1. ASSUME PayloadInv PROVE DeliveredAsSent
  <2> SUFFICES ASSUME NEW x \in inbox
               PROVE  x.n # None /\ x.payload = Normalised(sent[x.n])
    BY DEF DeliveredAsSent, Normalised
  <2>1. x.n \in Serials /\ x.payload = Normalised(sent[x.n])
    BY <1>1 DEF PayloadInv, InboxOK
  <2>2. x.n # None
    BY <2>1, PayloadAssumption DEF Serials
  <2> QED BY <2>1, <2>2
<1> QED BY <1>1, PayloadInvariance, PTL

\* No genuine message is discarded as a dummy, and none is refused except for its
\* malformed group id, by a receiver that stops at the library's error.
THEOREM NoneLost == Spec => []NothingLost
<1>1. ASSUME PayloadInv PROVE NothingLost
  BY <1>1 DEF PayloadInv, LostOK, NothingLost
<1> QED BY <1>1, PayloadInvariance, PTL

\* The sizes of a direct message and of the same message to a group are the same.
THEOREM GroupsHidden == Spec => []GroupInvisible
<1>1. ASSUME PayloadInv PROVE GroupInvisible
  <2> SUFFICES ASSUME NEW x \in observed, NEW group_id \in {None, RealGroup},
                      sent[x.n].group_id \in {None, RealGroup}
               PROVE  x.len = to_padded_bytes(in_group(sent[x.n], group_id)).len
    BY DEF GroupInvisible
  <2> DEFINE p == sent[x.n]
             q == in_group(p, group_id)
  <2>1. p \in MessagePayload /\ x.len = to_padded_bytes(p).len
    <3>1. x.n \in Serials /\ sent \in Seq(MessagePayload)
      BY <1>1 DEF PayloadInv, SeenOK
    <3> QED BY <1>1, <3>1 DEF PayloadInv, SeenOK, Serials
  <2> HIDE DEF p
  <2>2. None # RealGroup /\ None # GROUP_ID_PLACEHOLDER
    BY PayloadAssumption DEF GroupIds
  <2>3. \A m \in {p, q} : /\ OnWire(m).group_id # None /\ OnWire(m).group_id.len = 64
                          /\ OnWire(m).body = p.body
                          /\ OnWire(m).ttl_seconds = p.ttl_seconds
                          /\ OnWire(m).attachment = p.attachment
    <3>1. p.group_id \in {None, RealGroup}
      BY DEF p
    <3>2. /\ q.group_id = group_id /\ q.body = p.body
          /\ q.ttl_seconds = p.ttl_seconds /\ q.attachment = p.attachment
      BY <2>1 DEF in_group, MessagePayload
    <3>3. q \in MessagePayload
      BY <2>1 DEF in_group, MessagePayload, GroupIds
    <3> HIDE DEF q
    <3>4. ASSUME NEW m \in {p, q}, m.group_id = None
          PROVE  OnWire(m) = [m EXCEPT !.group_id = GROUP_ID_PLACEHOLDER]
      BY <3>4 DEF OnWire, in_group
    <3>5. ASSUME NEW m \in {p, q}, m.group_id = RealGroup
          PROVE  OnWire(m) = m
      BY <2>2, <3>5 DEF OnWire
    <3>6. RealGroup.len = 64 /\ GROUP_ID_PLACEHOLDER.len = 64
      BY DEF RealGroup, GROUP_ID_PLACEHOLDER, GROUP_ID_LEN
    <3>7. ASSUME NEW m \in {p, q}
          PROVE  /\ OnWire(m).group_id # None /\ OnWire(m).group_id.len = 64
                 /\ OnWire(m).body = p.body
                 /\ OnWire(m).ttl_seconds = p.ttl_seconds
                 /\ OnWire(m).attachment = p.attachment
      <4>1. m \in MessagePayload /\ m.group_id \in {None, RealGroup}
        BY <2>1, <3>1, <3>2, <3>3
      <4>2. CASE m.group_id = None
        <5>1. /\ OnWire(m).group_id = GROUP_ID_PLACEHOLDER
              /\ OnWire(m).body = m.body
              /\ OnWire(m).ttl_seconds = m.ttl_seconds
              /\ OnWire(m).attachment = m.attachment
          BY <3>4, <4>1, <4>2 DEF MessagePayload
        <5> QED BY <2>2, <3>2, <3>6, <5>1
      <4>3. CASE m.group_id = RealGroup
        BY <2>2, <3>2, <3>5, <3>6, <4>3
      <4> QED BY <4>1, <4>2, <4>3
    <3> QED BY <3>7
  <2>4. json_len(OnWire(p)) = json_len(OnWire(q))
    <3> HIDE DEF q
    <3> QED BY <2>3 DEF json_len
  <2>5. to_padded_bytes(p).len = to_padded_bytes(q).len
    <3> HIDE DEF q
    <3> QED BY <2>4 DEF to_padded_bytes, pad_message, ByteString
  <2> QED BY <2>1, <2>5 DEF p
<1> QED BY <1>1, PayloadInvariance, PTL

\* The bucket of a message is the least of the sizes a padded message may have
\* that leaves room for the suffix.
LEMMA LeastBucket ==
    ASSUME NEW len \in Nat
    PROVE  LET size == bucket_size(len)
               fits == {b \in Buckets(size) : b >= len + PAD_LEN_BYTES}
           IN  fits # {} /\ size = Min(fits)
<1> DEFINE needed == len + 4
           size   == bucket_size(len)
           fits   == {b \in Buckets(size) : b >= needed}
<1>0. /\ MIN_BUCKET \in Nat /\ MAX_BUCKET \in Nat /\ needed \in Nat
      /\ 4 <= MIN_BUCKET /\ MIN_BUCKET <= MAX_BUCKET
      /\ MIN_BUCKET \in PowersOfTwo /\ MAX_BUCKET \in PowersOfTwo
  BY Constants, PowersAreNat
<1>1. size = IF needed <= MIN_BUCKET THEN MIN_BUCKET
             ELSE IF needed <= MAX_BUCKET THEN next_power_of_two(needed)
             ELSE div_ceil(needed, MAX_BUCKET) * MAX_BUCKET
  BY Constants DEF bucket_size
<1>2. size \in Nat
  BY BucketRoom
<1> HIDE DEF size, needed
<1>3. ASSUME NEW k \in 1 .. (size \div MAX_BUCKET)
      PROVE  MAX_BUCKET * k \in Nat /\ MAX_BUCKET <= MAX_BUCKET * k
  <2>1. k \in Nat /\ k >= 1
    OBVIOUS
  <2> QED BY <1>0, <2>1
<1>4. fits \subseteq Nat
  <2>1. Buckets(size) \subseteq Nat
    BY <1>3, PowersAreNat DEF Buckets
  <2> QED BY <2>1
<1>5. size \in fits /\ \A b \in fits : size <= b
  <2>1. CASE needed <= MIN_BUCKET
    <3>1. size = MIN_BUCKET
      BY <1>1, <2>1
    <3>2. size \in fits
      BY <1>0, <2>1, <3>1 DEF Buckets
    <3>3. ASSUME NEW b \in fits PROVE size <= b
      <4>1. CASE b \in PowersOfTwo /\ MIN_BUCKET <= b
        BY <3>1, <4>1
      <4>2. CASE \E k \in 1 .. (size \div MAX_BUCKET) : b = MAX_BUCKET * k
        BY <1>0, <1>3, <3>1, <4>2
      <4> QED BY <4>1, <4>2 DEF Buckets
    <3> QED BY <3>2, <3>3
  <2>2. CASE ~(needed <= MIN_BUCKET) /\ needed <= MAX_BUCKET
    <3>1. size = next_power_of_two(needed)
      BY <1>1, <2>2
    <3>2. /\ size \in PowersOfTwo /\ needed <= size
          /\ \A q \in PowersOfTwo : needed <= q => size <= q
      BY <1>0, <2>2, <3>1, NextPower
    <3>3. size <= MAX_BUCKET /\ MIN_BUCKET <= size
      BY <1>0, <1>2, <2>2, <3>2
    <3>4. size \in fits
      BY <1>0, <1>2, <3>2, <3>3 DEF Buckets
    <3>5. ASSUME NEW b \in fits PROVE size <= b
      <4>0. needed <= b /\ b \in Nat
        BY <1>0, <1>4
      <4>1. CASE b \in PowersOfTwo
        BY <3>2, <4>0, <4>1
      <4>2. CASE \E k \in 1 .. (size \div MAX_BUCKET) : b = MAX_BUCKET * k
        BY <1>0, <1>2, <1>3, <3>3, <4>2
      <4> QED BY <4>1, <4>2 DEF Buckets
    <3> QED BY <3>4, <3>5
  <2>3. CASE ~(needed <= MAX_BUCKET)
    <3> DEFINE c == div_ceil(needed, MAX_BUCKET)
    <3>0. MAX_BUCKET > 0
      BY <1>0
    <3>1. c \in Nat /\ needed <= c * MAX_BUCKET /\ c * MAX_BUCKET < needed + MAX_BUCKET
      BY <1>0, <3>0, RoundsUp
    <3>2. size = c * MAX_BUCKET
      BY <1>0, <1>1, <2>3
    <3> HIDE DEF c
    <3>3. c >= 1
      BY <1>0, <2>3, <3>1
    <3>4. size \div MAX_BUCKET = c
      BY <1>0, <3>0, <3>1, <3>2
    <3>5. size \in fits
      <4>1. c \in 1 .. c /\ MAX_BUCKET * c = size
        BY <1>0, <3>1, <3>2, <3>3
      <4>2. size \in Buckets(size)
        BY <3>4, <4>1 DEF Buckets
      <4> QED BY <1>0, <1>2, <3>1, <3>2, <4>2
    <3>6. ASSUME NEW b \in fits PROVE size <= b
      <4>0. needed <= b /\ b \in Nat
        BY <1>0, <1>4
      <4>1. CASE b <= MAX_BUCKET
        BY <1>0, <2>3, <4>0, <4>1
      <4>2. CASE \E k \in 1 .. c : b = MAX_BUCKET * k
        <5>1. PICK k \in 1 .. c : b = MAX_BUCKET * k
          BY <4>2
        <5>2. k \in Nat
          OBVIOUS
        <5>3. CASE k >= c
          <6>1. MAX_BUCKET * c <= MAX_BUCKET * k
            BY <1>0, <3>1, <5>2, <5>3
          <6>2. MAX_BUCKET * c = c * MAX_BUCKET
            BY <1>0, <3>1
          <6> QED BY <3>2, <5>1, <6>1, <6>2
        <5>4. CASE k < c
          <6>1. MAX_BUCKET * k + MAX_BUCKET <= c * MAX_BUCKET
            <7>1. k + 1 <= c
              BY <3>1, <5>2, <5>4
            <7>2. MAX_BUCKET * (k + 1) <= MAX_BUCKET * c
              BY <1>0, <3>1, <5>2, <7>1
            <7>3. MAX_BUCKET * (k + 1) = MAX_BUCKET * k + MAX_BUCKET /\ MAX_BUCKET * c = c * MAX_BUCKET
              BY <1>0, <3>1, <5>2
            <7> QED BY <7>2, <7>3
          <6>2. MAX_BUCKET * k \in Nat /\ c * MAX_BUCKET \in Nat
            BY <1>0, <3>1, <5>2
          <6>3. MAX_BUCKET * k < needed
            BY <1>0, <3>1, <6>1, <6>2
          <6> QED BY <1>0, <4>0, <5>1, <6>2, <6>3
        <5> QED BY <3>1, <5>2, <5>3, <5>4
      <4> QED BY <3>4, <4>1, <4>2 DEF Buckets
    <3> QED BY <3>5, <3>6
  <2> QED BY <2>1, <2>2, <2>3
<1> HIDE DEF fits
<1>6. size = Min(fits)
  <2>1. Min(fits) \in fits /\ \A b \in fits : Min(fits) <= b
    BY <1>5 DEF Min
  <2>2. Min(fits) \in Nat /\ size <= Min(fits) /\ Min(fits) <= size
    BY <1>4, <1>5, <2>1
  <2> QED BY <1>2, <2>2
<1> QED BY <1>5, <1>6, Constants DEF fits, size, needed

\* A padded message has the least size that hides its length.
THEOREM BucketsSmallest == Spec => []SmallestBucket
<1>1. ASSUME PayloadInv PROVE SmallestBucket
  <2> SUFFICES ASSUME NEW x \in observed
               PROVE  LET fits == {b \in Buckets(x.len) :
                                     b >= json_len(OnWire(sent[x.n])) + PAD_LEN_BYTES}
                      IN  fits # {} /\ x.len = Min(fits)
    BY DEF SmallestBucket
  <2> DEFINE len == json_len(OnWire(sent[x.n]))
  <2>1. sent[x.n] \in MessagePayload /\ x.len = to_padded_bytes(sent[x.n]).len
    <3>1. x.n \in Serials /\ sent \in Seq(MessagePayload)
      BY <1>1 DEF PayloadInv, SeenOK
    <3> QED BY <1>1, <3>1 DEF PayloadInv, SeenOK, Serials
  <2>2. len \in Nat
    BY <2>1, Serialised
  <2>3. x.len = bucket_size(len)
    BY <2>1 DEF to_padded_bytes, pad_message, ByteString
  <2> HIDE DEF len
  <2>4. LET fits == {b \in Buckets(x.len) : b >= len + PAD_LEN_BYTES}
        IN  fits # {} /\ x.len = Min(fits)
    BY <2>2, <2>3, LeastBucket
  <2> QED BY <2>4 DEF len
<1> QED BY <1>1, PayloadInvariance, PTL
=============================================================================
