---------------------------- MODULE DoubleRatchet ----------------------------
(***************************************************************************)
(* One Double Ratchet session as kept by                                   *)
(* crates/vaultex-crypto/src/double_ratchet.rs: the RatchetState struct    *)
(* and the operations on it, as operators from a state to a state.  The    *)
(* processes that call them, and the network between them, are in          *)
(* RatchetSession.                                                         *)
(*                                                                         *)
(* Keys are symbolic.  A key pair is named by who generated it and a       *)
(* serial number; its public and secret halves share the name.  A key      *)
(* derivation function is injective and nothing inverts it, so a derived   *)
(* key IS the list of inputs it was derived from.                          *)
(***************************************************************************)
EXTENDS Integers, Sequences

CONSTANTS
    Party,      \* who generates key pairs
    Outsider,   \* anyone else: a header may come with a key of theirs
    LowOrder,   \* public keys of small order, which no pair has and no DH accepts
    MAX_SKIP,   \* 1000 in the code
    None        \* Rust's Option::None

Keys == (Party \cup {Outsider}) \X Nat

\* A root key: the DH outputs mixed into the X3DH secret, oldest first.
RootKeys == Seq(SUBSET Keys)

\* A chain key: the root it was split off from, and how often kdf_ck advanced it.
ChainKeys == [chain : RootKeys, n : Nat]

\* A message key: the chain it belongs to and its position there.
MsgKeys == RootKeys \X Nat

MessageHeader ==
    [ratchet_public_key : Keys, previous_chain_length : Nat, message_number : Nat]

\* One entry of the skipped_keys map; a map is the set of its entries.
SkippedKeys == [pk : Keys, n : Nat, mk : MsgKeys]

RatchetState ==
    [root_key              : RootKeys,
     sending_chain_key     : ChainKeys \cup {None},
     receiving_chain_key   : ChainKeys \cup {None},
     sending_keypair       : Keys,
     remote_ratchet_key    : Keys \cup {None},
     send_message_number   : Nat,
     recv_message_number   : Nat,
     previous_chain_length : Nat,
     skipped_keys          : SUBSET SkippedKeys]

ASSUME RatchetAssumption ==
    /\ MAX_SKIP \in Nat
    /\ Outsider \notin Party
    /\ LowOrder \subseteq {Outsider} \X Nat
    /\ None \notin ChainKeys
    /\ None \notin Keys

-----------------------------------------------------------------------------
(* Key derivation *)

\* X25519: the same output from either side of the pair.
dh_exchange(our_sk, their_pk) == {our_sk, their_pk}

\* It returns an error.
DhRejects(their_pk) == their_pk \in LowOrder

\* The new root key; the chain key split off with it is NewChain of it.
kdf_rk(root_key, dh_output) == Append(root_key, dh_output)

NewChain(new_root) == [chain |-> new_root, n |-> 0]

\* k applications of kdf_ck: the chain key they leave ...
kdf_ck(ck, k) == [ck EXCEPT !.n = @ + k]

\* ... and the message key the next application would give.
MessageKey(ck, k) == <<ck.chain, ck.n + k>>

-----------------------------------------------------------------------------
(* Session start, after X3DH agreed on shared_secret *)

\* init_sender: new_key is the key pair it generates.
init_sender(shared_secret, recipient_ratchet_key, new_key) ==
    LET root == kdf_rk(shared_secret, dh_exchange(new_key, recipient_ratchet_key))
    IN  [root_key              |-> root,
         sending_chain_key     |-> NewChain(root),
         receiving_chain_key   |-> None,
         sending_keypair       |-> new_key,
         remote_ratchet_key    |-> recipient_ratchet_key,
         send_message_number   |-> 0,
         recv_message_number   |-> 0,
         previous_chain_length |-> 0,
         skipped_keys          |-> {}]

\* init_receiver: our_ratchet_keypair is the signed prekey.
init_receiver(shared_secret, our_ratchet_keypair) ==
    [root_key              |-> shared_secret,
     sending_chain_key     |-> None,
     receiving_chain_key   |-> None,
     sending_keypair       |-> our_ratchet_keypair,
     remote_ratchet_key    |-> None,
     send_message_number   |-> 0,
     recv_message_number   |-> 0,
     previous_chain_length |-> 0,
     skipped_keys          |-> {}]

-----------------------------------------------------------------------------
(* encrypt: the header, the key the ciphertext is sealed with, the next state *)

CanEncrypt(s) == s.sending_chain_key # None

EncryptHeader(s) ==
    [ratchet_public_key    |-> s.sending_keypair,
     previous_chain_length |-> s.previous_chain_length,
     message_number        |-> s.send_message_number]

EncryptKey(s) == MessageKey(s.sending_chain_key, 0)

AfterEncrypt(s) ==
    [s EXCEPT !.sending_chain_key   = kdf_ck(@, 1),
              !.send_message_number = @ + 1]

-----------------------------------------------------------------------------
(* Skipping ahead in the receiving chain *)

\* Fault: the limit is off by one.
TooManySkippedEarly(s, until) == until - s.recv_message_number >= MAX_SKIP

TooManySkipped(s, until) == until - s.recv_message_number > MAX_SKIP

Skipped(s, until) == s.recv_message_number .. (until - 1)

\* The loop both skip functions run: cache a key for every number passed over.
CacheSkipped(s, until) ==
    LET ck  == s.receiving_chain_key
        new == {[pk |-> s.remote_ratchet_key,
                 n  |-> i,
                 mk |-> MessageKey(ck, i - s.recv_message_number)] : i \in Skipped(s, until)}
        replaced == {e \in s.skipped_keys :
                        e.pk = s.remote_ratchet_key /\ e.n \in Skipped(s, until)}
    IN  [s EXCEPT !.skipped_keys        = (@ \ replaced) \cup new,
                  !.receiving_chain_key = kdf_ck(ck, until - s.recv_message_number)]

\* skip_message_keys_for_current_chain does something only in these states.
OldChainOpen(s, until) ==
    /\ s.receiving_chain_key # None
    /\ s.remote_ratchet_key # None
    /\ until >= s.recv_message_number

OldChainRejects(s, until) == OldChainOpen(s, until) /\ TooManySkipped(s, until)

\* Fault: the rest of the old chain is not cached.
ForgetOldChain(s, until) == s

skip_message_keys_for_current_chain(s, until) ==
    IF OldChainOpen(s, until)
    THEN [CacheSkipped(s, until) EXCEPT !.recv_message_number = until]
    ELSE s

\* The early returns of skip_message_keys; otherwise it does CacheSkipped.
SkipRejects(s, until) ==
    \/ until < s.recv_message_number
    \/ TooManySkipped(s, until)
    \/ s.remote_ratchet_key = None
    \/ s.receiving_chain_key = None

-----------------------------------------------------------------------------
(* decrypt, in the stages its early returns separate *)

\* What a DH ratchet step derives, without its bookkeeping of message numbers.
NewRootsAndChains(s, their_new_pk, new_key) ==
    LET recv_root == kdf_rk(s.root_key, dh_exchange(s.sending_keypair, their_new_pk))
        send_root == kdf_rk(recv_root, dh_exchange(new_key, their_new_pk))
    IN  [s EXCEPT !.remote_ratchet_key  = their_new_pk,
                  !.receiving_chain_key = NewChain(recv_root),
                  !.root_key            = send_root,
                  !.sending_chain_key   = NewChain(send_root),
                  !.sending_keypair     = new_key]

\* Fault: the last index of the old sending chain instead of its length.
StepLastIndex(s, their_new_pk, new_key) ==
    [NewRootsAndChains(s, their_new_pk, new_key)
        EXCEPT !.previous_chain_length = s.send_message_number - 1,
               !.send_message_number = 0, !.recv_message_number = 0]

\* Fault: the sending counter is not reset.
StepKeepsSendNumber(s, their_new_pk, new_key) ==
    [NewRootsAndChains(s, their_new_pk, new_key)
        EXCEPT !.previous_chain_length = s.send_message_number, !.recv_message_number = 0]

dh_ratchet_step(s, their_new_pk, new_key) ==
    [NewRootsAndChains(s, their_new_pk, new_key)
        EXCEPT !.previous_chain_length = s.send_message_number,
               !.send_message_number   = 0,
               !.recv_message_number   = 0]

\* Fault: when the DH fails, the chains have started over with their numbers.
StepBegunRewound(s, their_new_pk) ==
    LET Rewound(ck) == IF ck = None THEN None ELSE [ck EXCEPT !.n = 0]
    IN  [s EXCEPT !.previous_chain_length = s.send_message_number,
                  !.send_message_number   = 0,
                  !.recv_message_number   = 0,
                  !.sending_chain_key     = Rewound(@),
                  !.receiving_chain_key   = Rewound(@),
                  !.remote_ratchet_key    = their_new_pk]

\* What dh_ratchet_step has changed by the time its first DH fails.
StepBegun(s, their_new_pk) ==
    [s EXCEPT !.previous_chain_length = s.send_message_number,
              !.send_message_number   = 0,
              !.recv_message_number   = 0,
              !.remote_ratchet_key    = their_new_pk]

\* The cache entries filed under the header's (ratchet key, number).
CacheHits(s, h) ==
    {e \in s.skipped_keys : e.pk = h.ratchet_public_key /\ e.n = h.message_number}

\* Fault: a DH step for every message that is not in the cache.
AlwaysRatchet(s, h) == TRUE

NeedRatchet(s, h) == s.remote_ratchet_key # h.ratchet_public_key

\* Stage 2 returns an error before it has changed anything.
RatchetRejects(s, h) == NeedRatchet(s, h) /\ OldChainRejects(s, h.previous_chain_length)

\* Stage 2 returns an error from the middle of the DH step ...
StepFails(s, h) == NeedRatchet(s, h) /\ DhRejects(h.ratchet_public_key)

\* ... and leaves this.
AfterFailedStep(s, h) ==
    StepBegun(skip_message_keys_for_current_chain(s, h.previous_chain_length),
              h.ratchet_public_key)

\* The state stage 2 leaves if it returns none; new_key is generated only if there is a DH step.
AfterRatchet(s, h, new_key) ==
    IF NeedRatchet(s, h)
    THEN dh_ratchet_step(skip_message_keys_for_current_chain(s, h.previous_chain_length),
                         h.ratchet_public_key, new_key)
    ELSE s

\* Fault: the cached key is looked up and left in place.
KeepCachedKey(s, h) == s

\* Stage 1: the cached key is used up whether or not it opens the ciphertext.
AfterCacheHit(s, h) == [s EXCEPT !.skipped_keys = @ \ CacheHits(s, h)]

\* Fault: the message key is used but the chain stays where it is.
AdvanceNot(s, h) == CacheSkipped(s, h.message_number)

\* Fault: the chain key in memory lags one step behind the counter.
AdvanceCounterOnly(s, h) ==
    [CacheSkipped(s, h.message_number) EXCEPT !.recv_message_number = h.message_number + 1]

\* Stage 3 with s the state stage 2 left: the number is consumed either way.
AfterAdvance(s, h) ==
    LET t == CacheSkipped(s, h.message_number)
    IN  [t EXCEPT !.receiving_chain_key = kdf_ck(@, 1),
                  !.recv_message_number = h.message_number + 1]

\* The key stage 3 tries on the ciphertext.
AdvanceKey(s, h) ==
    MessageKey(s.receiving_chain_key, h.message_number - s.recv_message_number)

\* Whether decrypt would open a ciphertext sealed with mk under header h.
Opens(s, h, mk, new_key) ==
    IF CacheHits(s, h) # {}
    THEN \E e \in CacheHits(s, h) : e.mk = mk
    ELSE LET t == AfterRatchet(s, h, new_key)
         IN  /\ ~RatchetRejects(s, h)
             /\ ~StepFails(s, h)
             /\ ~SkipRejects(t, h.message_number)
             /\ AdvanceKey(t, h) = mk
=============================================================================
