----------------------------- MODULE PayloadPath -----------------------------
(***************************************************************************)
(* What happens to a MessagePayload                                        *)
(* (crates/vaultex-crypto/src/message_payload.rs) before it is encrypted   *)
(* and after it is decrypted: the sender turns it into padded bytes, or,   *)
(* in an old client, into bare JSON, and mixes dummies in; the receiver    *)
(* sorts the three kinds out again.  Bytes are those of Padding; the Double*)
(* Ratchet between the two ends delivers each message at most once and in  *)
(* any order (MessageChannel).                                             *)
(*                                                                         *)
(* A text field is its length in JSON.  JSON of one length may stand for   *)
(* any payload, so the payload travels along, and parsing succeeds exactly *)
(* on the whole of what was serialised.                                    *)
(***************************************************************************)
EXTENDS Padding, FiniteSets

CONSTANTS
    None,
    BodyLens,         \* lengths of message bodies that are sent
    AttachmentLens,   \* lengths of the media_type and attachment fields
    DummySizes,       \* sizes asked for by the cover traffic
    MaxMessages       \* bound: messages sent

GROUP_ID_LEN == 64

\* The all-zero id that stands for "no group" on the wire.
GROUP_ID_PLACEHOLDER == [len |-> GROUP_ID_LEN, chars |-> "zeros"]

RealGroup == [len |-> GROUP_ID_LEN, chars |-> "hex"]

\* Everything in_group can be given: a real id, the placeholder, the empty
\* string, too few digits, and 64 characters that are no digits.
GroupIds ==
    {RealGroup, GROUP_ID_PLACEHOLDER,
     [len |-> 0, chars |-> "none"],
     [len |-> GROUP_ID_LEN - 1, chars |-> "hex"],
     [len |-> GROUP_ID_LEN, chars |-> "other"]}

\* new or with_ttl, then with_attachment and in_group or not; a TTL has 2 digits.
MessagePayload ==
    [body : BodyLens, ttl_seconds : {None, 60},
     group_id : GroupIds \cup {None}, attachment : AttachmentLens \cup {None}]

\* Other fields are left alone.
in_group(p, group_id) == [p EXCEPT !.group_id = group_id]

ASSUME PayloadAssumption ==
    /\ BodyLens \subseteq Nat /\ AttachmentLens \subseteq Nat /\ DummySizes \subseteq Nat
    /\ None \notin Nat /\ None \notin MessagePayload /\ None \notin GroupIds

VARIABLES
    sent,      \* payloads handed to the encoder, by serial number
    wire,      \* plaintexts in transit: [n, bytes], n the serial number or None
    inbox,     \* what the receiver was given: [n, payload]
    refused,   \* messages the receiver could not read: [n, direct]
    dropped,   \* what the receiver discarded as dummies
    observed   \* sizes the relay has seen of padded messages: [n, len]

vars == <<sent, wire, inbox, refused, dropped, observed>>

-----------------------------------------------------------------------------
(* JSON *)

\* serde_json::to_vec: {"body":""}, and the optional fields only if they are set.
json_len(p) ==
    11 + p.body
       + (IF p.ttl_seconds = None THEN 0 ELSE 17)
       + (IF p.group_id = None THEN 0 ELSE 14 + p.group_id.len)
       + (IF p.attachment = None THEN 0 ELSE p.attachment)

\* JSON ends in a closing brace, which is 0x7D, after ASCII characters.
JsonTail == [i \in 1 .. PAD_LEN_BYTES |-> (ByteBase * 125) \div 256]

to_bytes(p) == ByteString(p, json_len(p), json_len(p), JsonTail)

\* Fault: a direct message is sent without a group_id.
OnWireAsIs(p) == p

\* The clone to_padded_bytes serialises.
OnWire(p) == IF p.group_id = None THEN in_group(p, GROUP_ID_PLACEHOLDER) ELSE p

to_padded_bytes(p) == pad_message(OnWire(p), json_len(OnWire(p)))

\* serde_json::from_slice on the first len bytes
Parses(bytes, len) == bytes.text # None /\ len = bytes.text_len

-----------------------------------------------------------------------------
(* Group ids on receipt *)

\* normalize_group_id returns an error
GroupIdRejects(g) ==
    g # None /\ g.len # 0 /\ ~(g.len = GROUP_ID_LEN /\ g.chars \in {"zeros", "hex"})

\* Fault: the placeholder is taken for a group.
PlaceholderKept(p) == IF p.group_id # None /\ p.group_id.len = 0 THEN in_group(p, None) ELSE p

normalize_group_id(p) ==
    IF p.group_id = GROUP_ID_PLACEHOLDER \/ (p.group_id # None /\ p.group_id.len = 0)
    THEN in_group(p, None)
    ELSE p

\* The payloads the receiver gets: none if the bytes are refused.
FromJson(bytes, len) ==
    IF Parses(bytes, len) /\ ~GroupIdRejects(bytes.text.group_id)
    THEN {normalize_group_id(bytes.text)}
    ELSE {}

from_padded_bytes(bytes) ==
    IF UnpadRejects(bytes) THEN {} ELSE FromJson(bytes, unpad_message(bytes))

\* The fallback for plaintext from old clients: from_bytes, normalize_group_id.
from_bytes(bytes) == FromJson(bytes, bytes.len)

\* normalize_group_id is the library's last word, and it only returns an error: what
\* becomes of the message is the application's choice.  The desktop client shows it
\* as a direct message (CHANGELOG.md, 0.10.7).
AsDirect(bytes) ==
    IF \/ ~UnpadRejects(bytes) /\ Parses(bytes, unpad_message(bytes))
       \/ Parses(bytes, bytes.len)
    THEN {in_group(bytes.text, None)}
    ELSE {}

-----------------------------------------------------------------------------

Init ==
    /\ sent = <<>>
    /\ wire = {}
    /\ inbox = {}
    /\ refused = {}
    /\ dropped = {}
    /\ observed = {}

Emit(n, bytes) == wire' = wire \cup {[n |-> n, bytes |-> bytes]}

\* to_padded_bytes, and encryption of the result
Send(p) ==
    /\ Len(sent) < MaxMessages
    /\ ~PadRejects(json_len(OnWire(p)))
    /\ sent' = Append(sent, p)
    /\ Emit(Len(sent) + 1, to_padded_bytes(p))
    /\ observed' = observed \cup {[n |-> Len(sent) + 1, len |-> to_padded_bytes(p).len]}
    /\ UNCHANGED <<inbox, refused, dropped>>

\* An old client: to_bytes.
SendRaw(p) ==
    /\ Len(sent) < MaxMessages
    /\ sent' = Append(sent, p)
    /\ Emit(Len(sent) + 1, to_bytes(p))
    /\ UNCHANGED <<inbox, refused, dropped, observed>>

SendDummy(size) ==
    /\ Emit(None, generate_dummy_message(None, size))
    /\ UNCHANGED <<sent, inbox, refused, dropped, observed>>

\* The receiver knows dummies and drops them, or does not look; then it tries
\* the padded form and, if that fails, the bare one.  What neither gives is
\* refused, or, by a receiver that takes it for a direct message, read as one.
Receive(w, looks, direct) ==
    LET padded == from_padded_bytes(w.bytes)
        either == IF padded # {} THEN padded ELSE from_bytes(w.bytes)
        read   == IF either = {} /\ direct THEN AsDirect(w.bytes) ELSE either
    IN  /\ wire' = wire \ {w}
        /\ \/ /\ looks /\ is_dummy_message(w.bytes)
              /\ dropped' = dropped \cup {w.n}
              /\ UNCHANGED <<inbox, refused>>
           \/ /\ ~(looks /\ is_dummy_message(w.bytes))
              /\ inbox' = inbox \cup {[n |-> w.n, payload |-> p] : p \in read}
              /\ refused' = refused \cup
                               (IF read = {} THEN {[n |-> w.n, direct |-> direct]} ELSE {})
              /\ UNCHANGED dropped
        /\ UNCHANGED <<sent, observed>>

Next ==
    \/ \E p \in MessagePayload : Send(p) \/ SendRaw(p)
    \/ \E size \in DummySizes : SendDummy(size)
    \/ \E w \in wire, looks, direct \in BOOLEAN : Receive(w, looks, direct)

Spec == Init /\ [][Next]_vars
-----------------------------------------------------------------------------
(* Properties *)

Serials == 1 .. Len(sent)

\* Payloads, plaintexts and the receiver's lists have their types; what is
\* written in the last bytes of a message are bytes.
TypeOK ==
    /\ sent \in Seq(MessagePayload)
    /\ \A w \in wire : w.n \in Serials \cup {None} /\ w.bytes.len \in Nat
                       /\ w.bytes.tail \in [1 .. PAD_LEN_BYTES -> Bytes]
    /\ \A x \in inbox : x.n \in Serials \cup {None} /\ x.payload \in MessagePayload
    /\ refused \subseteq [n : Serials \cup {None}, direct : BOOLEAN]
    /\ dropped \subseteq Serials \cup {None}
    /\ observed \subseteq [n : Serials, len : Nat]

\* Group ids of conversations: a real one or, in a direct message, none that means anything.
DirectIds == {None, GROUP_ID_PLACEHOLDER, [len |-> 0, chars |-> "none"]}

Routable(p) == p.group_id \in DirectIds \cup {RealGroup}

\* A payload is delivered with every field as the sender set it, to the group whose
\* id it has, and as a direct message if it has none or one that is none, never to
\* a group that does not exist; a dummy is never delivered, even by a receiver that
\* neither looks for dummies nor minds a malformed id.
DeliveredAsSent ==
    \A x \in inbox :
        /\ x.n # None
        /\ x.payload = in_group(sent[x.n], IF sent[x.n].group_id = RealGroup
                                          THEN RealGroup ELSE None)

\* No genuine message is discarded as a dummy, whatever its length and whichever form
\* it has, and none is refused except for its malformed group id, by a receiver that
\* stops at the library's error.
NothingLost ==
    /\ dropped \subseteq {None}
    /\ \A x \in refused : x.n # None => ~Routable(sent[x.n]) /\ ~x.direct

\* Reference: the sizes a padded message may have, up to some size.
Buckets(limit) ==
         {p \in PowersOfTwo : MIN_BUCKET <= p /\ p <= MAX_BUCKET}
    \cup {MAX_BUCKET * k : k \in 1 .. (limit \div MAX_BUCKET)}

\* A padded message has the least of these sizes that leaves room for the suffix.
SmallestBucket ==
    \A x \in observed :
        LET fits == {b \in Buckets(x.len) :
                        b >= json_len(OnWire(sent[x.n])) + PAD_LEN_BYTES}
        IN  fits # {} /\ x.len = Min(fits)

\* The size the relay sees is the same for a direct message and for a message
\* with the same content to a group.
GroupInvisible ==
    \A x \in observed : \A group_id \in {None, RealGroup} :
        sent[x.n].group_id \in {None, RealGroup}
            => x.len = to_padded_bytes(in_group(sent[x.n], group_id)).len
=============================================================================
