---------------------------- MODULE RatchetSession ----------------------------
(***************************************************************************)
(* Two devices that finished X3DH and talk through the relay: Alice, who   *)
(* called RatchetState::init_sender, and Bob, who called init_receiver     *)
(* with his signed prekey.  Each action is one whole call of encrypt or    *)
(* decrypt.                                                                *)
(*                                                                         *)
(* The relay is outside the repository.  It keeps every ciphertext it was  *)
(* given, so messages are reordered and lost (a message that is never      *)
(* picked again) freely.  Retry lets it hand over again what decrypt       *)
(* refused, Redelivery also what decrypt read, Damage lets it hand over a  *)
(* copy with any header, or whose ciphertext no longer authenticates (bytes*)
(* changed or cut off, or another associated data).                        *)
(***************************************************************************)
EXTENDS DoubleRatchet, FiniteSets

CONSTANTS
    Alice, Bob,
    Redelivery,   \* may the relay deliver a message that was read again?
    Retry,        \* may it deliver a message again that decrypt refused?
    Damage,       \* may a delivered ciphertext fail to authenticate?
    OutsideKeys,  \* keys of an outsider that damaged headers come with
    HeaderNumbers,\* bound: numbers that damaged headers come with
    MaxSends,     \* bound: messages each party encrypts, far below 2^32
    MaxKeys       \* bound: ratchet key pairs each party generates

ASSUME SessionAssumption ==
    /\ Alice # Bob
    /\ Party = {Alice, Bob}
    /\ Redelivery \in BOOLEAN
    /\ Retry \in BOOLEAN
    /\ Damage \in BOOLEAN
    /\ OutsideKeys \subseteq {Outsider} \X Nat
    /\ HeaderNumbers \subseteq Nat
    /\ MaxSends \in Nat
    /\ MaxKeys \in Nat

VARIABLES
    session,     \* session[p]: p's RatchetState
    keygen,      \* keygen[p]: key pairs p has generated
    sends,       \* sends[p]: messages p has encrypted
    network,     \* every message ever sent
    delivered,   \* delivered[p]: messages handed to p's decrypt
    accepted,    \* accepted[p]: messages p's decrypt returned Ok for
    returned     \* returned[p]: how often p's decrypt returned Ok

vars == <<session, keygen, sends, network, delivered, accepted, returned>>

\* seq is the plaintext's identity; mk the key the ciphertext is sealed with.
Messages == [from : Party, seq : Nat, header : MessageHeader, mk : MsgKeys]

Peer(p) == IF p = Alice THEN Bob ELSE Alice

\* gen_keypair: a key pair nobody has seen before.
FreshKey(p) == <<p, keygen[p]>>

\* The X3DH output both sides start from, and Bob's signed prekey.
shared_secret == <<>>
SignedPreKey == <<Bob, 0>>

Init ==
    /\ session = [p \in Party |->
                    IF p = Alice
                    THEN init_sender(shared_secret, SignedPreKey, <<Alice, 0>>)
                    ELSE init_receiver(shared_secret, SignedPreKey)]
    /\ keygen = [p \in Party |-> 1]
    /\ sends = [p \in Party |-> 0]
    /\ network = {}
    /\ delivered = [p \in Party |-> {}]
    /\ accepted = [p \in Party |-> {}]
    /\ returned = [p \in Party |-> 0]

-----------------------------------------------------------------------------

Encrypt(p) ==
    LET s == session[p]
    IN  /\ CanEncrypt(s)
        /\ sends[p] < MaxSends
        /\ network' = network \cup {[from |-> p, seq |-> sends[p],
                                     header |-> EncryptHeader(s), mk |-> EncryptKey(s)]}
        /\ session' = [session EXCEPT ![p] = AfterEncrypt(s)]
        /\ sends' = [sends EXCEPT ![p] = @ + 1]
        /\ UNCHANGED <<keygen, delivered, accepted, returned>>

\* The relay hands m to p's decrypt, which answers Ok exactly when ok.
Deliver(p, m, ok) ==
    /\ m.from = Peer(p)
    /\ \/ Redelivery
       \/ m \notin delivered[p]
       \/ Retry /\ m \notin accepted[p]
    /\ delivered' = [delivered EXCEPT ![p] = @ \cup {m}]
    /\ IF ok
       THEN /\ accepted' = [accepted EXCEPT ![p] = @ \cup {m}]
            /\ returned' = [returned EXCEPT ![p] = @ + 1]
       ELSE UNCHANGED <<accepted, returned>>
    /\ UNCHANGED <<sends, network>>

\* dh_ratchet_step generates a key pair (within the bound) and nothing else does.
GenKeyFor(p, h) ==
    IF NeedRatchet(session[p], h)
    THEN keygen[p] < MaxKeys /\ keygen' = [keygen EXCEPT ![p] = @ + 1]
    ELSE UNCHANGED keygen

\* decrypt finds the key in the skipped-key cache and removes it.
DecryptCached(p, m, h, intact) ==
    LET s == session[p]
    IN  /\ CacheHits(s, h) # {}
        /\ Deliver(p, m, intact /\ \E e \in CacheHits(s, h) : e.mk = m.mk)
        /\ session' = [session EXCEPT ![p] = AfterCacheHit(s, h)]
        /\ UNCHANGED keygen

\* decrypt gives up because too much of the old chain is missing.
DecryptOldChainTooLong(p, m, h) ==
    LET s == session[p]
    IN  /\ CacheHits(s, h) = {}
        /\ RatchetRejects(s, h)
        /\ Deliver(p, m, FALSE)
        /\ UNCHANGED <<session, keygen>>

\* decrypt gives up in the DH step, whose first assignments stay.
DecryptStepFails(p, m, h) ==
    LET s == session[p]
    IN  /\ CacheHits(s, h) = {}
        /\ ~RatchetRejects(s, h)
        /\ StepFails(s, h)
        /\ Deliver(p, m, FALSE)
        /\ session' = [session EXCEPT ![p] = AfterFailedStep(s, h)]
        /\ UNCHANGED keygen

\* decrypt gives up in skip_message_keys; a DH step it has made stays made.
DecryptSkipRejected(p, m, h) ==
    LET s == session[p]
        t == AfterRatchet(s, h, FreshKey(p))
    IN  /\ CacheHits(s, h) = {}
        /\ ~RatchetRejects(s, h) /\ ~StepFails(s, h)
        /\ SkipRejects(t, h.message_number)
        /\ Deliver(p, m, FALSE)
        /\ session' = [session EXCEPT ![p] = t]
        /\ GenKeyFor(p, h)

\* decrypt reaches the AEAD with the key of the header's position.
DecryptAdvance(p, m, h, intact) ==
    LET s == session[p]
        t == AfterRatchet(s, h, FreshKey(p))
    IN  /\ CacheHits(s, h) = {}
        /\ ~RatchetRejects(s, h) /\ ~StepFails(s, h)
        /\ ~SkipRejects(t, h.message_number)
        /\ Deliver(p, m, intact /\ AdvanceKey(t, h) = m.mk)
        /\ session' = [session EXCEPT ![p] = AfterAdvance(t, h)]
        /\ GenKeyFor(p, h)

\* m's ciphertext, intact or not, comes with header h.
Decrypt(p, m, h, intact) ==
    \/ DecryptCached(p, m, h, intact)
    \/ DecryptOldChainTooLong(p, m, h)
    \/ DecryptStepFails(p, m, h)
    \/ DecryptSkipRejected(p, m, h)
    \/ DecryptAdvance(p, m, h, intact)

\* The associated data leaves the header out, so nothing ties a header to its message:
\* it may come with a key of either party or an outsider's, and with any numbers.
DamagedHeaders ==
    [ratchet_public_key    : {x.header.ratchet_public_key : x \in network} \cup OutsideKeys,
     previous_chain_length : HeaderNumbers,
     message_number        : HeaderNumbers]

Next ==
    \E p \in Party :
        \/ Encrypt(p)
        \/ \E m \in network :
              \/ Decrypt(p, m, m.header, TRUE)
              \/ Damage /\ \E h \in DamagedHeaders, intact \in BOOLEAN :
                              Decrypt(p, m, h, intact)

Spec == Init /\ [][Next]_vars

\* The relay keeps a message until it was fetched, and devices keep fetching:
\* every message is handed to its recipient's decrypt, undamaged, some time (and
\* with Retry again, until it is read).
FairSpec ==
    /\ Spec
    /\ \A p \in Party : \A i \in 0 .. (MaxSends - 1) :
          WF_vars(\E m \in network : m.from = Peer(p) /\ m.seq = i /\ Decrypt(p, m, m.header, TRUE))
-----------------------------------------------------------------------------
(* Properties *)

\* The fields of both RatchetStates, and the bookkeeping, have their types.
TypeOK ==
    /\ session \in [Party -> RatchetState]
    /\ keygen \in [Party -> Nat]
    /\ sends \in [Party -> Nat]
    /\ network \subseteq Messages
    /\ delivered \in [Party -> SUBSET network]
    /\ accepted \in [Party -> SUBSET network]
    /\ returned \in [Party -> Nat]

\* A message decrypt returned Ok for once is an Err whenever it comes again,
\* whatever was sent, delivered, damaged or ratcheted in between.
ReplayRejected ==
    \A p \in Party : \A m \in accepted[p] :
        ~Opens(session[p], m.header, m.mk, FreshKey(p))

\* No two calls of encrypt, of either party, ever seal with the same message key.
UniqueMessageKeys ==
    \A m1, m2 \in network : m1.mk = m2.mk => m1 = m2

\* The message keys a holder of RatchetState s can still compute.
Derivable(s, mk) ==
    \/ \E e \in s.skipped_keys : e.mk = mk
    \/ \E ck \in {s.sending_chain_key, s.receiving_chain_key} \ {None} :
          ck.chain = mk[1] /\ ck.n <= mk[2]

\* Forward secrecy: the state kept after a message was sent, or was accepted,
\* no longer yields that message's key.
ForwardSecrecy ==
    \A p \in Party : \A m \in network :
        m.from = p \/ m \in accepted[p] => ~Derivable(session[p], m.mk)

\* The two root keys are one DH ratchet step apart: one side's is the other's
\* with one more DH output mixed in.
RootsInStep ==
    \E p \in Party :
        LET ahead == session[p].root_key
            behind == session[Peer(p)].root_key
        IN  Len(ahead) = Len(behind) + 1 /\ SubSeq(ahead, 1, Len(behind)) = behind

\* Messages of p's peer that p's receiving chain has already moved past.
PassedOver(p) ==
    LET s == session[p]
    IN  {m \in network :
            /\ m.from = Peer(p)
            /\ \/ Len(m.mk[1]) < Len(s.root_key) - 1
               \/ Len(m.mk[1]) = Len(s.root_key) - 1 /\ m.mk[2] < s.recv_message_number}

\* The skipped-key cache holds the right key, under the right header, for
\* exactly the messages that were passed over and have not been accepted.
CacheIsPending ==
    \A p \in Party :
        session[p].skipped_keys =
            {[pk |-> m.header.ratchet_public_key, n |-> m.header.message_number, mk |-> m.mk] :
                m \in PassedOver(p) \ accepted[p]}

\* A message that is still to arrive, however late, will be decrypted.
LateArrivalsOpen ==
    \A p \in Party : \A m \in network :
        m.from = Peer(p) /\ m \notin delivered[p]
            => Opens(session[p], m.header, m.mk, FreshKey(p))

\* What p would have to skip to get to m: earlier messages of p's peer for
\* which p has no key yet, in m's own chain and in older ones.
ToSkip(p, m, sameChain) ==
    {x \in network :
        /\ x.from = m.from
        /\ IF sameChain THEN x.mk[1] = m.mk[1] /\ x.mk[2] < m.mk[2]
                        ELSE Len(x.mk[1]) < Len(m.mk[1])
        /\ x \notin PassedOver(p)}

\* MAX_SKIP is the exact limit: a message not read yet is decrypted if and only
\* if neither its own chain nor the one before it has a gap above MAX_SKIP.
SkipLimitExact ==
    \A p \in Party : \A m \in network :
        m.from = Peer(p) /\ m \notin accepted[p] =>
            (Opens(session[p], m.header, m.mk, FreshKey(p)) <=>
                \A sameChain \in BOOLEAN :
                    Cardinality(ToSkip(p, m, sameChain)) <= MAX_SKIP)

\* "Maximum number of skipped message keys to store per session" (MAX_SKIP).
SkippedKeysBounded ==
    \A p \in Party : Cardinality(session[p].skipped_keys) <= MAX_SKIP

\* Every message that was encrypted is eventually accepted by the other side:
\* the limit on skipping delays messages, it does not lose them.
EveryMessageArrives ==
    \A p \in Party : \A i \in 0 .. (MaxSends - 1) :
        sends[p] > i ~> \E m \in accepted[Peer(p)] : m.seq = i

\* The session is an at-most-once, unordered channel for genuine messages.
Channel == INSTANCE MessageChannel
    WITH count    <- sends,
         received <- [p \in Party |-> {<<m.from, m.seq>> : m \in accepted[p]}],
         reads    <- returned

ImplementsChannel == Channel!ChanSpec
=============================================================================
