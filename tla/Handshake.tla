------------------------------ MODULE Handshake ------------------------------
(***************************************************************************)
(* First contact with one recipient: its prekeys are generated, published, *)
(* rotated and used up while initiators fetch bundles and send their first *)
(* messages.  The primitives are those of x3dh.rs and prekeys.rs; when the *)
(* applications around the library call them is modelled from the          *)
(* constants of prekeys.rs and from CHANGELOG.md.                          *)
(*                                                                         *)
(* A first message carries the initiator's identity and ephemeral key, the *)
(* id of the one-time prekey used, and a Double Ratchet message.  It stays *)
(* in the recipient's inbox, and so may be delivered late and twice.       *)
(***************************************************************************)
EXTENDS X3DH, FiniteSets

CONSTANTS
    Initiators, Recipient,
    SIGNED_PREKEY_ROTATION_INTERVAL,
    SIGNED_PREKEY_GRACE_PERIOD,
    MIN_ONE_TIME_PREKEYS,
    ONE_TIME_PREKEY_BATCH_SIZE,
    MaxTime,      \* bound: the clock
    MaxInits,     \* bound: first messages sent
    MaxBatches,   \* bound: batches of one-time prekeys
    MaxAccepts    \* bound: first messages processed with success

ASSUME HandshakeAssumption ==
    /\ Recipient \notin Initiators
    /\ Party = Initiators \cup {Recipient}
    /\ None \notin Nat /\ None \notin [id : Nat, key : Keys]
    /\ MIN_ONE_TIME_PREKEYS \in Nat /\ ONE_TIME_PREKEY_BATCH_SIZE \in Nat
    /\ SIGNED_PREKEY_GRACE_PERIOD \in Nat /\ SIGNED_PREKEY_ROTATION_INTERVAL \in Nat

VARIABLES
    now,
    keygen,      \* keygen[p]: the number of p's next key pair
    spk,         \* the recipient's signed prekey: [key, created]
    retired,     \* signed prekeys kept after their rotation: [key, at]
    otpks,       \* the recipient's one-time prekeys: [id, key]
    nextId,      \* the id the next batch starts with
    published,   \* one-time prekeys the server still has to give out
    inits,       \* first messages sent
    accepted     \* first messages processed: [n, init, secret]

vars == <<now, keygen, spk, retired, otpks, nextId, published, inits, accepted>>

HeldSignedPreKeys == {spk.key} \cup {r.key : r \in retired}

-----------------------------------------------------------------------------
(* The recipient's prekeys *)

\* Registration: everybody has a signed prekey, the recipient one batch as well.
Init ==
    LET batch == generate_one_time_prekeys(ONE_TIME_PREKEY_BATCH_SIZE, 0, 2, Recipient)
    IN  /\ now = 0
        /\ keygen = [p \in Party |->
                        IF p = Recipient THEN 2 + ONE_TIME_PREKEY_BATCH_SIZE ELSE 2]
        /\ spk = [key |-> <<Recipient, 1>>, created |-> 0]
        /\ retired = {}
        /\ otpks = batch
        /\ nextId = ONE_TIME_PREKEY_BATCH_SIZE
        /\ published = batch
        /\ inits = {}
        /\ accepted = {}

\* The old signed prekey is retired, the new one generated, signed, published.
RotateSignedPreKey ==
    LET new == <<Recipient, keygen[Recipient]>>
    IN  /\ needs_rotation(spk.created, SIGNED_PREKEY_ROTATION_INTERVAL, now)
        /\ retired' = retired \cup {[key |-> spk.key, at |-> now]}
        /\ spk' = [key |-> new, created |-> now]
        /\ keygen' = [keygen EXCEPT ![Recipient] = @ + 1]
        /\ UNCHANGED <<now, otpks, nextId, published, inits, accepted>>

\* Retired prekeys are dropped once their grace period is over.
CleanupExpired ==
    /\ \E r \in retired : now - r.at >= SIGNED_PREKEY_GRACE_PERIOD
    /\ retired' = {r \in retired : now - r.at < SIGNED_PREKEY_GRACE_PERIOD}
    /\ UNCHANGED <<now, keygen, spk, otpks, nextId, published, inits, accepted>>

\* The server runs low: a new batch is generated and published.
Replenish ==
    LET batch == generate_one_time_prekeys(ONE_TIME_PREKEY_BATCH_SIZE, nextId,
                                           keygen[Recipient], Recipient)
    IN  /\ Cardinality(published) < MIN_ONE_TIME_PREKEYS
        /\ nextId < MaxBatches * ONE_TIME_PREKEY_BATCH_SIZE
        /\ otpks' = otpks \cup batch
        /\ published' = published \cup batch
        /\ nextId' = nextId + ONE_TIME_PREKEY_BATCH_SIZE
        /\ keygen' = [keygen EXCEPT ![Recipient] = @ + ONE_TIME_PREKEY_BATCH_SIZE]
        /\ UNCHANGED <<now, spk, retired, inits, accepted>>

-----------------------------------------------------------------------------
(* First messages *)

\* The signed prekeys the server has on file, the initiators' own included.
PublishedSignedPreKeys == {<<Recipient, spk.key>>} \cup {<<q, <<q, 1>>>> : q \in Initiators}

\* p fetches a bundle, agrees on a secret and sends its first message.  The
\* server gives every one-time prekey once, and none when it has run out.  It
\* may mix up the recipient's signed prekey, or the signature, with another's.
Initiate(p, otpk, key, signature) ==
    LET bundle == Bundle(Recipient, key, signature, otpk)
        ek     == <<p, keygen[p]>>
        secret == initiate_x3dh(p, bundle, ek)
        state  == init_sender(secret, key, <<p, keygen[p] + 1>>)
    IN  /\ Cardinality(inits) < MaxInits
        /\ otpk = None <=> published = {}
        /\ ~InvalidPreKeySignature(bundle)
        /\ published' = published \ {otpk}
        /\ inits' = inits \cup
              {[from |-> p, ek |-> ek, header |-> EncryptHeader(state), mk |-> EncryptKey(state),
                otpk_id |-> IF otpk = None THEN None ELSE otpk.id,
                at |-> now]}
        /\ keygen' = [keygen EXCEPT ![p] = @ + 2]
        /\ UNCHANGED <<now, spk, retired, otpks, nextId, accepted>>

\* The one-time prekeys a first message may stand for: the one it names, if the
\* recipient still has it, or None if it names none.
NamedPreKeys(m) == IF m.otpk_id = None THEN {None} ELSE {o \in otpks : o.id = m.otpk_id}

\* The receiver's secret if it picks signed prekey k and one-time prekey o.
ReceiverSecret(m, k, o) == accept_x3dh(Recipient, k, o, m.from, m.ek)

\* The first message opens in a session started with these prekeys.
OpensWith(m, k, o) ==
    Opens(init_receiver(ReceiverSecret(m, k, o), k), m.header, m.mk,
          <<Recipient, keygen[Recipient]>>)

Acceptable(m) == \E k \in HeldSignedPreKeys, o \in NamedPreKeys(m) : OpensWith(m, k, o)

\* Fault: the one-time prekey is kept after its use.
ReusePreKey(m, k, o) == otpks

\* The named one-time prekey is used up by a success.
ConsumePreKey(m, k, o) == otpks \ {o}

\* The first message tells no signed prekey: the recipient finds the one that works.
Accept(m, k, o) ==
    /\ Cardinality(accepted) < MaxAccepts
    /\ OpensWith(m, k, o)
    /\ accepted' = accepted \cup
          {[n |-> Cardinality(accepted), init |-> m, secret |-> ReceiverSecret(m, k, o)]}
    /\ otpks' = ConsumePreKey(m, k, o)
    /\ keygen' = [keygen EXCEPT ![Recipient] = @ + 1]
    /\ UNCHANGED <<now, spk, retired, nextId, published, inits>>

Tick ==
    /\ now < MaxTime
    /\ now' = now + 1
    /\ UNCHANGED <<keygen, spk, retired, otpks, nextId, published, inits, accepted>>

Next ==
    \/ RotateSignedPreKey
    \/ CleanupExpired
    \/ Replenish
    \/ \E p \in Initiators, otpk \in published \cup {None} :
          \E x, y \in PublishedSignedPreKeys : Initiate(p, otpk, x[2], sign(y[1], y[2]))
    \/ \E m \in inits : \E k \in HeldSignedPreKeys, o \in NamedPreKeys(m) : Accept(m, k, o)
    \/ Tick

Spec == Init /\ [][Next]_vars
-----------------------------------------------------------------------------
(* Properties *)

PreKeys == [id : Nat, key : Keys]

\* The prekey store, the server's copy and the messages have their types.
TypeOK ==
    /\ now \in Nat
    /\ keygen \in [Party -> Nat]
    /\ spk \in [key : Keys, created : Nat]
    /\ retired \subseteq [key : Keys, at : Nat]
    /\ otpks \subseteq PreKeys
    /\ published \subseteq PreKeys
    /\ nextId \in Nat
    /\ \A m \in inits : m.header \in MessageHeader /\ m.mk \in MsgKeys
    /\ \A x \in accepted : x.init \in inits /\ x.secret \in RootKeys

Processed(m) == \E x \in accepted : x.init = m

\* A first message that is in transit for less than the grace period opens,
\* whatever was rotated, replenished or used up in between.
TimelyInitOpens ==
    \A m \in inits :
        ~Processed(m) /\ now - m.at < SIGNED_PREKEY_GRACE_PERIOD => Acceptable(m)

\* A first message that used a one-time prekey starts one session at most.
OneTimeOnce ==
    \A x, y \in accepted : x.init = y.init /\ x.init.otpk_id # None => x = y

\* The secrets recipients can still derive for message m.
RecipientDerives(m, secret) ==
    \E k \in HeldSignedPreKeys, o \in otpks \cup {None} : ReceiverSecret(m, k, o) = secret

\* Once such a session has started, no key the recipient kept leads to its secret.
OneTimeForwardSecrecy ==
    \A x \in accepted :
        x.init.otpk_id # None => ~RecipientDerives(x.init, x.secret)

\* The server gives out no one-time prekey whose secret half is gone, and no id
\* stands for two keys.
PublishedAreHeld ==
    /\ published \subseteq otpks
    /\ \A x, y \in otpks : x.id = y.id => x = y
=============================================================================
