--------------------------- MODULE HandshakeProofs ---------------------------
(***************************************************************************)
(* Proofs about X3DH and Handshake, for any number of initiators, first    *)
(* messages and batches, any sizes and periods, and first messages that    *)
(* arrive late, twice or not at all.                                       *)
(***************************************************************************)
EXTENDS Handshake, SequenceTheorems, TLAPS

USE RatchetAssumption, HandshakeAssumption

-----------------------------------------------------------------------------
(* The key agreement *)

\* The responder's secret is a list of DH outputs: three, or four with a one-time
\* prekey, the last one of which only the holder of that prekey computes.
LEMMA SecretShape ==
    ASSUME NEW from \in Party, NEW ek \in Keys, NEW k \in Keys, NEW o \in PreKeys \cup {None}
    PROVE  /\ accept_x3dh(Recipient, k, o, from, ek) \in RootKeys
           /\ o = None => Len(accept_x3dh(Recipient, k, o, from, ek)) = 3
           /\ o # None => /\ Len(accept_x3dh(Recipient, k, o, from, ek)) = 4
                          /\ accept_x3dh(Recipient, k, o, from, ek)[4] = {o.key, ek}
<1> DEFINE d1 == {k, Curve(from)}
           d2 == {Curve(Recipient), ek}
           d3 == {k, ek}
<1>1. Curve(from) \in Keys /\ Curve(Recipient) \in Keys
  BY DEF Curve, Keys
<1>2. d1 \in SUBSET Keys /\ d2 \in SUBSET Keys /\ d3 \in SUBSET Keys
  BY <1>1
<1>3. CASE o = None
  <2>1. accept_x3dh(Recipient, k, o, from, ek) = <<d1, d2, d3>> \o <<>>
    BY <1>3 DEF accept_x3dh, kdf, dh
  <2>2. <<d1, d2, d3>> \o <<>> = <<d1, d2, d3>>
    OBVIOUS
  <2> HIDE DEF d1, d2, d3
  <2>3. <<d1, d2, d3>> \in RootKeys /\ Len(<<d1, d2, d3>>) = 3
    BY <1>2 DEF RootKeys
  <2> QED BY <1>3, <2>1, <2>2, <2>3
<1>4. CASE o # None
  <2> DEFINE d4 == {o.key, ek}
  <2>1. d4 \in SUBSET Keys
    BY <1>4 DEF PreKeys
  <2>2. accept_x3dh(Recipient, k, o, from, ek) = <<d1, d2, d3>> \o <<d4>>
    BY <1>4 DEF accept_x3dh, kdf, dh
  <2> HIDE DEF d1, d2, d3, d4
  <2>3. /\ <<d1, d2, d3>> \in Seq(SUBSET Keys) /\ <<d4>> \in Seq(SUBSET Keys)
        /\ Len(<<d1, d2, d3>>) = 3 /\ Len(<<d4>>) = 1 /\ <<d4>>[1] = d4
    BY <1>2, <2>1
  <2>4. /\ <<d1, d2, d3>> \o <<d4>> \in RootKeys
        /\ Len(<<d1, d2, d3>> \o <<d4>>) = 4
        /\ (<<d1, d2, d3>> \o <<d4>>)[4] = d4
    <3> DEFINE x == <<d1, d2, d3>>
               y == <<d4>>
    <3> HIDE DEF x, y
    <3>1. /\ x \o y \in Seq(SUBSET Keys) /\ Len(x \o y) = Len(x) + Len(y)
          /\ \A i \in 1 .. Len(x) + Len(y) : (x \o y)[i] = IF i <= Len(x) THEN x[i] ELSE y[i - Len(x)]
      BY <2>3, ConcatProperties DEF x, y
    <3>2. Len(x) = 3 /\ Len(y) = 1 /\ y[1] = d4
      BY <2>3 DEF x, y
    <3> QED BY <3>1, <3>2 DEF RootKeys, x, y
  <2> QED BY <1>4, <2>2, <2>4 DEF d4
<1> QED BY <1>3, <1>4

\* Both sides of X3DH derive the same secret from the same prekeys, with and
\* without a one-time prekey.
THEOREM X3DHAgrees ==
    ASSUME NEW sender, NEW receiver, NEW prekey, NEW signature, NEW o, NEW ek
    PROVE  initiate_x3dh(sender, Bundle(receiver, prekey, signature, o), ek)
               = accept_x3dh(receiver, prekey, o, sender, ek)
<1>1. /\ dh(Curve(sender), prekey) = dh(prekey, Curve(sender))
      /\ dh(ek, Curve(receiver)) = dh(Curve(receiver), ek)
      /\ dh(ek, prekey) = dh(prekey, ek) /\ dh(ek, o.key) = dh(o.key, ek)
  BY DEF dh
<1> QED BY <1>1 DEF initiate_x3dh, accept_x3dh, Bundle

\* What decrypt does in a new session with the first message of a chain.
LEMMA FirstMessageOpens ==
    ASSUME NEW secret \in RootKeys, NEW k \in Keys, NEW h \in MessageHeader, NEW mk, NEW new_key,
           h.message_number = 0, h.previous_chain_length = 0, ~DhRejects(h.ratchet_public_key)
    PROVE  Opens(init_receiver(secret, k), h, mk, new_key)
               <=> mk = <<Append(secret, {k, h.ratchet_public_key}), 0>>
<1> DEFINE s == init_receiver(secret, k)
           t == AfterRatchet(s, h, new_key)
           pk == h.ratchet_public_key
<1>1. pk \in Keys /\ pk # None
  BY DEF MessageHeader
<1>2. /\ s.skipped_keys = {} /\ s.remote_ratchet_key = None /\ s.receiving_chain_key = None
      /\ s.root_key = secret /\ s.sending_keypair = k /\ s.send_message_number = 0
  BY DEF init_receiver
<1>3. CacheHits(s, h) = {} /\ NeedRatchet(s, h) /\ ~OldChainOpen(s, 0)
  BY <1>1, <1>2 DEF CacheHits, NeedRatchet, OldChainOpen
<1>4. ~RatchetRejects(s, h) /\ skip_message_keys_for_current_chain(s, 0) = s
  BY <1>3 DEF RatchetRejects, OldChainRejects, skip_message_keys_for_current_chain
<1>5. t = dh_ratchet_step(s, pk, new_key)
  BY <1>3, <1>4 DEF AfterRatchet
<1>6. /\ t.remote_ratchet_key = pk /\ t.recv_message_number = 0
      /\ t.receiving_chain_key = [chain |-> Append(secret, {k, pk}), n |-> 0]
  BY <1>5 DEF dh_ratchet_step, NewRootsAndChains, NewChain, kdf_rk, dh_exchange, init_receiver
<1>7. t.receiving_chain_key \in ChainKeys
  <2>1. {k, pk} \in SUBSET Keys
    BY <1>1
  <2>2. Append(secret, {k, pk}) \in RootKeys
    BY <2>1 DEF RootKeys
  <2> QED BY <1>6, <2>2 DEF ChainKeys
<1>8. ~SkipRejects(t, 0)
  <2> HIDE DEF t, pk
  <2>1. t.remote_ratchet_key # None /\ t.receiving_chain_key # None
    BY <1>1, <1>6, <1>7
  <2>2. t.recv_message_number = 0
    BY <1>6
  <2> QED BY <2>1, <2>2 DEF SkipRejects, TooManySkipped
<1>9. AdvanceKey(t, h) = <<Append(secret, {k, pk}), 0>>
  BY <1>6 DEF AdvanceKey, MessageKey
<1>10. ~StepFails(s, h)
  BY DEF StepFails
<1> QED BY <1>3, <1>4, <1>8, <1>9, <1>10 DEF Opens

-----------------------------------------------------------------------------
(* The inductive invariant *)

InitMessages ==
    [from : Initiators, ek : Keys, header : MessageHeader, mk : MsgKeys,
     otpk_id : Nat \cup {None}, at : Nat]

\* Message m was made with signed prekey k and one-time prekey o, if any.
MadeWith(m, k, o) ==
    /\ m.otpk_id = IF o = None THEN None ELSE o.id
    /\ m.header.message_number = 0 /\ m.header.previous_chain_length = 0
    /\ ~DhRejects(m.header.ratchet_public_key)
    /\ m.mk = <<Append(ReceiverSecret(m, k, o), {k, m.header.ratchet_public_key}), 0>>

\* The recipient has the signed prekey of m, or m is older than the grace period.
SignedHeld(m, k) ==
    \/ k = spk.key
    \/ \E r \in retired : r.key = k /\ m.at <= r.at
    \/ now - m.at >= SIGNED_PREKEY_GRACE_PERIOD

\* It has the one-time prekey of m until m has been processed.
OneTimeHeld(m, o) == o = None \/ o \in otpks \/ Processed(m)

InitsOK ==
    /\ inits \subseteq InitMessages
    /\ \A m \in inits :
          /\ m.at <= now
          /\ \E k \in Keys, o \in PreKeys \cup {None} :
                MadeWith(m, k, o) /\ SignedHeld(m, k) /\ OneTimeHeld(m, o)

\* A one-time prekey that a message names is not given out again, under any key.
NamedOnce ==
    /\ \A m \in inits : m.otpk_id # None =>
          m.otpk_id < nextId /\ \A o \in published : o.id # m.otpk_id
    /\ \A m, l \in inits : m.otpk_id = l.otpk_id /\ m.otpk_id # None => m = l

StoreOK ==
    /\ now \in Nat /\ nextId \in Nat
    /\ keygen \in [Party -> Nat]
    /\ spk \in [key : Keys, created : Nat]
    /\ retired \subseteq [key : Keys, at : Nat]
    /\ otpks \subseteq PreKeys
    /\ \A o \in otpks : /\ o.id < nextId
                        /\ o.key[1] = Recipient /\ o.key[2] < keygen[Recipient]
    /\ \A x, y \in otpks : x.key = y.key => x = y

\* The prekey of a session that used one is gone, and what it was is in the secret.
UsedUp(x) ==
    x.init.otpk_id # None =>
        /\ \A o \in otpks : o.id # x.init.otpk_id
        /\ \E key \in Keys :
              /\ key[1] = Recipient /\ key[2] < keygen[Recipient]
              /\ \A o \in otpks : o.key # key
              /\ Len(x.secret) = 4 /\ x.secret[4] = {key, x.init.ek}

AcceptedOK ==
    \A x \in accepted : x.init \in inits /\ x.secret \in RootKeys /\ UsedUp(x)

HandshakeInv ==
    /\ StoreOK
    /\ PublishedAreHeld
    /\ InitsOK
    /\ NamedOnce
    /\ AcceptedOK
    /\ OneTimeOnce

-----------------------------------------------------------------------------
(* The recipient's prekeys *)

\* A batch takes up the ids and the key pairs from the given numbers on, one each.
LEMMA BatchShape ==
    ASSUME NEW count \in Nat, NEW start \in Nat, NEW first \in Nat,
           NEW o \in generate_one_time_prekeys(count, start, first, Recipient)
    PROVE  /\ o \in PreKeys
           /\ start <= o.id /\ o.id < start + count
           /\ o.key[1] = Recipient /\ first <= o.key[2] /\ o.key[2] < first + count
           /\ o = [id |-> o.id, key |-> <<Recipient, first + (o.id - start)>>]
<1>1. PICK i \in 0 .. (count - 1) : o = [id |-> start + i, key |-> <<Recipient, first + i>>]
  BY DEF generate_one_time_prekeys
<1>2. start + i \in Nat /\ first + i \in Nat /\ <<Recipient, first + i>> \in Keys
  BY DEF Keys
<1> QED BY <1>1, <1>2 DEF PreKeys

\* In a batch, an id stands for one key and a key for one id.
LEMMA BatchUnique ==
    ASSUME NEW count \in Nat, NEW start \in Nat, NEW first \in Nat,
           NEW x \in generate_one_time_prekeys(count, start, first, Recipient),
           NEW y \in generate_one_time_prekeys(count, start, first, Recipient),
           x.id = y.id \/ x.key = y.key
    PROVE  x = y
<1>1. PICK i \in 0 .. (count - 1) : x = [id |-> start + i, key |-> <<Recipient, first + i>>]
  BY DEF generate_one_time_prekeys
<1>2. PICK j \in 0 .. (count - 1) : y = [id |-> start + j, key |-> <<Recipient, first + j>>]
  BY DEF generate_one_time_prekeys
<1>3. i = j
  <2>1. CASE x.id = y.id
    BY <1>1, <1>2, <2>1
  <2>2. CASE x.key = y.key
    <3>1. <<Recipient, first + i>>[2] = <<Recipient, first + j>>[2]
      BY <1>1, <1>2, <2>2
    <3> QED BY <3>1
  <2> QED BY <2>1, <2>2
<1> QED BY <1>1, <1>2, <1>3

\* At registration all of it holds.
LEMMA InitOK ==
    ASSUME Init
    PROVE  HandshakeInv
<1> DEFINE count == ONE_TIME_PREKEY_BATCH_SIZE
           batch == generate_one_time_prekeys(count, 0, 2, Recipient)
<1>1. /\ now = 0 /\ spk = [key |-> <<Recipient, 1>>, created |-> 0] /\ retired = {}
      /\ otpks = batch /\ nextId = count /\ published = batch
      /\ inits = {} /\ accepted = {}
      /\ keygen = [p \in Party |-> IF p = Recipient THEN 2 + count ELSE 2]
  BY DEF Init
<1>2. /\ keygen \in [Party -> Nat] /\ keygen[Recipient] = 2 + count
      /\ spk \in [key : Keys, created : Nat]
  BY <1>1 DEF Keys
<1>3. ASSUME NEW o \in otpks
      PROVE  /\ o \in PreKeys /\ o.id < nextId
             /\ o.key[1] = Recipient /\ o.key[2] < keygen[Recipient]
  <2>1. o \in generate_one_time_prekeys(count, 0, 2, Recipient)
    BY <1>1
  <2>2. /\ o \in PreKeys /\ o.id < 0 + count /\ o.key[1] = Recipient /\ o.key[2] < 2 + count
    <3>1. 0 \in Nat /\ 2 \in Nat /\ count \in Nat
      OBVIOUS
    <3> QED BY <2>1, <3>1, BatchShape
  <2>3. 0 + count = count
    OBVIOUS
  <2> QED BY <1>1, <1>2, <2>2, <2>3
<1>4. \A x, y \in otpks : x.id = y.id \/ x.key = y.key => x = y
  BY <1>1, BatchUnique
<1>5. StoreOK
  BY <1>1, <1>2, <1>3, <1>4 DEF StoreOK
<1>6. PublishedAreHeld
  BY <1>1, <1>4 DEF PublishedAreHeld
<1> QED BY <1>1, <1>5, <1>6 DEF HandshakeInv, InitsOK, NamedOnce, AcceptedOK, OneTimeOnce

\* The clock goes on, signed prekeys are rotated and dropped: no message that is
\* in time loses the signed prekey it was made with.
LEMMA SignedPreKeysKeep ==
    ASSUME HandshakeInv, RotateSignedPreKey \/ CleanupExpired \/ Tick
    PROVE  HandshakeInv'
<1>1. /\ UNCHANGED <<otpks, nextId, published, inits, accepted>>
      /\ now' \in Nat /\ now <= now'
      /\ keygen' \in [Party -> Nat] /\ keygen[Recipient] <= keygen'[Recipient]
      /\ spk' \in [key : Keys, created : Nat]
      /\ retired' \subseteq [key : Keys, at : Nat]
  <2>1. /\ now \in Nat /\ keygen \in [Party -> Nat] /\ keygen[Recipient] \in Nat
        /\ spk \in [key : Keys, created : Nat] /\ retired \subseteq [key : Keys, at : Nat]
    BY DEF HandshakeInv, StoreOK
  <2>2. CASE RotateSignedPreKey
    <3>1. <<Recipient, keygen[Recipient]>> \in Keys
      BY <2>1 DEF Keys
    <3>2. spk' \in [key : Keys, created : Nat] /\ retired' \subseteq [key : Keys, at : Nat]
      BY <2>1, <2>2, <3>1 DEF RotateSignedPreKey
    <3> QED BY <2>1, <2>2, <3>2 DEF RotateSignedPreKey
  <2>3. CASE CleanupExpired
    BY <2>1, <2>3 DEF CleanupExpired
  <2>4. CASE Tick
    BY <2>1, <2>4 DEF Tick
  <2> QED BY <2>2, <2>3, <2>4
<1>2. ASSUME NEW m \in inits, NEW k \in Keys, m.at <= now, SignedHeld(m, k)
      PROVE  SignedHeld(m, k)'
  <2>1. /\ m.at \in Nat /\ now \in Nat
        /\ \A r \in retired : r.at \in Nat
    BY DEF HandshakeInv, StoreOK, InitsOK, InitMessages
  <2>2. CASE RotateSignedPreKey
    <3>1. /\ retired' = retired \cup {[key |-> spk.key, at |-> now]} /\ now' = now
      BY <2>2 DEF RotateSignedPreKey
    <3>2. CASE k = spk.key
      <4> DEFINE r == [key |-> spk.key, at |-> now]
      <4>1. r \in retired' /\ r.key = k /\ m.at <= r.at
        BY <1>2, <3>1, <3>2
      <4> QED BY <4>1 DEF SignedHeld
    <3>3. CASE k # spk.key
      BY <1>2, <3>1, <3>3 DEF SignedHeld
    <3> QED BY <3>2, <3>3
  <2>3. CASE CleanupExpired
    <3>1. /\ retired' = {r \in retired : now - r.at < SIGNED_PREKEY_GRACE_PERIOD}
          /\ UNCHANGED <<now, spk>>
      BY <2>3 DEF CleanupExpired
    <3> QED BY <1>2, <2>1, <3>1 DEF SignedHeld
  <2>4. CASE Tick
    <3>1. now' = now + 1 /\ UNCHANGED <<spk, retired>>
      BY <2>4 DEF Tick
    <3> QED BY <1>2, <2>1, <3>1 DEF SignedHeld
  <2> QED BY <2>2, <2>3, <2>4
<1>3. InitsOK'
  <2>1. ASSUME NEW m \in inits
        PROVE  /\ m.at <= now'
               /\ \E k \in Keys, o \in PreKeys \cup {None} :
                     MadeWith(m, k, o) /\ SignedHeld(m, k)' /\ OneTimeHeld(m, o)
    <3>1. m.at \in Nat /\ now \in Nat /\ m.at <= now
      BY DEF HandshakeInv, StoreOK, InitsOK, InitMessages
    <3>2. m.at <= now'
      BY <1>1, <3>1
    <3> QED BY <1>2, <3>1, <3>2 DEF HandshakeInv, InitsOK
  <2> QED BY <1>1, <2>1 DEF HandshakeInv, InitsOK, MadeWith, OneTimeHeld, Processed
<1>4. ASSUME NEW n \in Nat, n < keygen[Recipient]
      PROVE  n < keygen'[Recipient]
  BY <1>1, <1>4 DEF HandshakeInv, StoreOK
<1>5. StoreOK'
  <2>1. \A o \in otpks : o.key[2] \in Nat
    BY DEF HandshakeInv, StoreOK, PreKeys, Keys
  <2> QED BY <1>1, <1>4, <2>1 DEF HandshakeInv, StoreOK
<1>6. AcceptedOK'
  <2>1. ASSUME NEW x, UsedUp(x) PROVE UsedUp(x)'
    <3>1. \A key \in Keys : key[2] \in Nat
      BY DEF Keys
    <3> QED BY <1>1, <1>4, <2>1, <3>1 DEF UsedUp
  <2> QED BY <1>1, <2>1 DEF HandshakeInv, AcceptedOK
<1> QED BY <1>1, <1>3, <1>5, <1>6 DEF HandshakeInv, PublishedAreHeld, NamedOnce, OneTimeOnce

\* A new batch has new ids and new keys.
LEMMA ReplenishKeeps ==
    ASSUME HandshakeInv, Replenish
    PROVE  HandshakeInv'
<1> DEFINE count == ONE_TIME_PREKEY_BATCH_SIZE
           batch == generate_one_time_prekeys(count, nextId, keygen[Recipient], Recipient)
<1>1. /\ otpks' = otpks \cup batch /\ published' = published \cup batch
      /\ nextId' = nextId + count
      /\ keygen' = [keygen EXCEPT ![Recipient] = @ + count]
      /\ UNCHANGED <<now, spk, retired, inits, accepted>>
  BY DEF Replenish
<1>2. /\ nextId \in Nat /\ keygen \in [Party -> Nat] /\ keygen[Recipient] \in Nat
      /\ nextId' \in Nat /\ keygen' \in [Party -> Nat]
      /\ keygen'[Recipient] = keygen[Recipient] + count
  BY <1>1 DEF HandshakeInv, StoreOK
<1>3. \A o \in otpks : /\ o \in PreKeys /\ o.id \in Nat /\ o.id < nextId /\ o.key[2] \in Nat
                       /\ o.key[1] = Recipient /\ o.key[2] < keygen[Recipient]
  BY DEF HandshakeInv, StoreOK, PreKeys, Keys
<1>4. \A o \in batch : /\ o \in PreKeys /\ o.id \in Nat /\ o.key[2] \in Nat
                       /\ nextId <= o.id /\ o.id < nextId + count
                       /\ o.key[1] = Recipient /\ keygen[Recipient] <= o.key[2]
                       /\ o.key[2] < keygen[Recipient] + count
  BY <1>2, BatchShape DEF PreKeys, Keys
<1>5. \A x, y \in batch : x.id = y.id \/ x.key = y.key => x = y
  BY <1>2, BatchUnique
<1> HIDE DEF batch
<1>6. \A x, y \in otpks' : x.id = y.id \/ x.key = y.key => x = y
  <2>1. \A x \in otpks, y \in batch : x.id # y.id /\ x.key[2] # y.key[2]
    BY <1>2, <1>3, <1>4
  <2> QED BY <1>1, <1>5, <2>1 DEF HandshakeInv, StoreOK, PublishedAreHeld
<1>7. \A o \in otpks' : /\ o \in PreKeys /\ o.id < nextId' /\ o.key[1] = Recipient
                        /\ o.key[2] < keygen'[Recipient]
  BY <1>1, <1>2, <1>3, <1>4
<1>8. StoreOK' /\ PublishedAreHeld'
  BY <1>1, <1>2, <1>6, <1>7 DEF HandshakeInv, StoreOK, PublishedAreHeld
<1>9. NamedOnce'
  <2>1. \A m \in inits : m.otpk_id # None =>
           /\ m.otpk_id \in Nat /\ m.otpk_id < nextId /\ m.otpk_id < nextId'
           /\ \A o \in published \cup batch : o.id # m.otpk_id
    BY <1>1, <1>2, <1>4 DEF HandshakeInv, NamedOnce, InitsOK, InitMessages
  <2> QED BY <1>1, <2>1 DEF HandshakeInv, NamedOnce
<1>10. InitsOK'
  <2>1. \A m, o : OneTimeHeld(m, o) => OneTimeHeld(m, o)'
    BY <1>1 DEF OneTimeHeld, Processed
  <2> QED BY <1>1, <2>1 DEF HandshakeInv, InitsOK, MadeWith, SignedHeld
<1>11. AcceptedOK'
  <2>1. ASSUME NEW x \in accepted PROVE UsedUp(x)'
    <3> SUFFICES ASSUME x.init.otpk_id # None
                 PROVE  /\ \A o \in otpks' : o.id # x.init.otpk_id
                        /\ \E key \in Keys :
                              /\ key[1] = Recipient /\ key[2] < keygen'[Recipient]
                              /\ \A o \in otpks' : o.key # key
                              /\ Len(x.secret) = 4 /\ x.secret[4] = {key, x.init.ek}
      BY DEF UsedUp
    <3>1. UsedUp(x) /\ x.init \in inits
      BY DEF HandshakeInv, AcceptedOK
    <3>2. x.init.otpk_id \in Nat /\ x.init.otpk_id < nextId
      BY <3>1 DEF HandshakeInv, NamedOnce, InitsOK, InitMessages
    <3>3. \A o \in otpks' : o.id # x.init.otpk_id
      BY <1>1, <1>2, <1>4, <3>1, <3>2 DEF UsedUp
    <3>4. PICK key \in Keys :
             /\ key[1] = Recipient /\ key[2] < keygen[Recipient]
             /\ \A o \in otpks : o.key # key
             /\ Len(x.secret) = 4 /\ x.secret[4] = {key, x.init.ek}
      BY <3>1 DEF UsedUp
    <3>5. key[2] \in Nat
      BY DEF Keys
    <3>6. key[2] < keygen'[Recipient] /\ \A o \in otpks' : o.key # key
      BY <1>1, <1>2, <1>4, <3>4, <3>5
    <3> QED BY <3>3, <3>4, <3>6
  <2> QED BY <1>1, <2>1 DEF HandshakeInv, AcceptedOK
<1> QED BY <1>1, <1>8, <1>9, <1>10, <1>11 DEF HandshakeInv, OneTimeOnce

-----------------------------------------------------------------------------
(* First messages *)

\* Whatever the server mixes up, an initiator that does not refuse the bundle has
\* the recipient's current signed prekey.
LEMMA TrueSignedPreKey ==
    ASSUME NEW x \in PublishedSignedPreKeys, NEW y \in PublishedSignedPreKeys, NEW o,
           ~InvalidPreKeySignature(Bundle(Recipient, x[2], sign(y[1], y[2]), o))
    PROVE  x[2] = spk.key
<1>1. sign(y[1], y[2]) = sign(Recipient, x[2])
  BY DEF InvalidPreKeySignature, verify_detached, Bundle
<1>2. y[1] = Recipient /\ y[2] = x[2]
  BY <1>1 DEF sign
<1>3. y = <<Recipient, spk.key>>
  BY <1>2 DEF PublishedSignedPreKeys
<1> QED BY <1>2, <1>3

\* Sending: the message is made with prekeys the recipient has, and takes its
\* one-time prekey from the server.
LEMMA InitiateKeeps ==
    ASSUME HandshakeInv, NEW p \in Initiators, NEW otpk \in published \cup {None},
           NEW signature, Initiate(p, otpk, spk.key, signature)
    PROVE  HandshakeInv'
<1> DEFINE k      == spk.key
           ek     == <<p, keygen[p]>>
           pk     == <<p, keygen[p] + 1>>
           secret == initiate_x3dh(p, Bundle(Recipient, k, signature, otpk), ek)
           state  == init_sender(secret, k, pk)
           m      == [from |-> p, ek |-> ek, header |-> EncryptHeader(state),
                      mk |-> EncryptKey(state),
                      otpk_id |-> IF otpk = None THEN None ELSE otpk.id, at |-> now]
<1>1. /\ published' = published \ {otpk}
      /\ inits' = inits \cup {m}
      /\ keygen' = [keygen EXCEPT ![p] = @ + 2]
      /\ UNCHANGED <<now, spk, retired, otpks, nextId, accepted>>
  BY DEF Initiate
<1>2. /\ p \in Party /\ p # Recipient /\ keygen \in [Party -> Nat] /\ keygen[p] \in Nat
      /\ k \in Keys /\ now \in Nat /\ nextId \in Nat
  BY DEF HandshakeInv, StoreOK
<1>3. ek \in Keys /\ pk \in Keys /\ keygen' \in [Party -> Nat]
      /\ keygen'[Recipient] = keygen[Recipient]
  BY <1>1, <1>2 DEF Keys
<1>4. otpk \in PreKeys \cup {None} /\ (otpk # None => otpk \in otpks /\ otpk \in published)
  BY DEF HandshakeInv, StoreOK, PublishedAreHeld
<1>5. secret = accept_x3dh(Recipient, k, otpk, p, ek)
  BY X3DHAgrees
<1>6. secret \in RootKeys
  BY <1>2, <1>3, <1>4, <1>5, SecretShape
<1> DEFINE root == Append(secret, {pk, k})
<1>7. root \in RootKeys
  <2>1. {pk, k} \in SUBSET Keys
    BY <1>2, <1>3
  <2> QED BY <1>6, <2>1 DEF RootKeys
<1>8. /\ EncryptHeader(state) = [ratchet_public_key |-> pk, previous_chain_length |-> 0,
                                 message_number |-> 0]
      /\ EncryptKey(state) = <<root, 0>>
  <2> HIDE DEF secret, pk, k
  <2> QED BY DEF EncryptHeader, EncryptKey, init_sender, MessageKey, NewChain, kdf_rk, dh_exchange
<1>9. m \in InitMessages
  <2>1. EncryptHeader(state) \in MessageHeader /\ EncryptKey(state) \in MsgKeys
    <3> HIDE DEF state, pk, root
    <3> QED BY <1>3, <1>7, <1>8 DEF MessageHeader, MsgKeys
  <2>2. (IF otpk = None THEN None ELSE otpk.id) \in Nat \cup {None}
    BY <1>4 DEF PreKeys
  <2> HIDE DEF ek, state
  <2> QED BY <1>2, <1>3, <2>1, <2>2 DEF InitMessages
<1>10. /\ m.from = p /\ m.ek = ek /\ m.header = EncryptHeader(state) /\ m.mk = EncryptKey(state)
       /\ m.otpk_id = IF otpk = None THEN None ELSE otpk.id
       /\ m.at = now
  OBVIOUS
<1>11. MadeWith(m, k, otpk)
  <2>1. ReceiverSecret(m, k, otpk) = secret
    BY <1>5, <1>10 DEF ReceiverSecret
  <2>2. {k, pk} = {pk, k}
    OBVIOUS
  <2>3. ~DhRejects(pk)
    BY <1>2 DEF DhRejects
  <2> HIDE DEF m, secret, state, pk
  <2> QED BY <1>8, <1>10, <2>1, <2>2, <2>3 DEF MadeWith
<1> HIDE DEF m
<1>12. SignedHeld(m, k) /\ OneTimeHeld(m, otpk) /\ m.at <= now
  BY <1>2, <1>4, <1>10 DEF SignedHeld, OneTimeHeld
<1>13. InitsOK'
  <2>1. ASSUME NEW l \in inits'
        PROVE  /\ l \in InitMessages /\ l.at <= now
               /\ \E j \in Keys, o \in PreKeys \cup {None} :
                     MadeWith(l, j, o) /\ SignedHeld(l, j) /\ OneTimeHeld(l, o)
    <3>1. CASE l = m
      BY <1>2, <1>4, <1>9, <1>11, <1>12, <3>1
    <3>2. CASE l \in inits
      BY <3>2 DEF HandshakeInv, InitsOK
    <3> QED BY <1>1, <2>1, <3>1, <3>2
  <2>2. \A l, j, o : /\ SignedHeld(l, j) => SignedHeld(l, j)'
                     /\ OneTimeHeld(l, o) => OneTimeHeld(l, o)'
    BY <1>1 DEF SignedHeld, OneTimeHeld, Processed
  <2> QED BY <1>1, <2>1, <2>2 DEF InitsOK, MadeWith
<1>14. NamedOnce'
  <2>1. ASSUME m.otpk_id # None
        PROVE  /\ otpk \in otpks /\ otpk \in published /\ m.otpk_id = otpk.id
               /\ m.otpk_id < nextId
               /\ \A o \in published' : o.id # m.otpk_id
               /\ \A l \in inits : l.otpk_id # m.otpk_id
    <3>1. otpk \in otpks /\ otpk \in published /\ m.otpk_id = otpk.id
      BY <1>4, <1>10, <2>1
    <3>2. m.otpk_id < nextId
      BY <3>1 DEF HandshakeInv, StoreOK
    <3>3. \A o \in published' : o.id # m.otpk_id
      BY <1>1, <3>1 DEF HandshakeInv, PublishedAreHeld
    <3>4. \A l \in inits : l.otpk_id # m.otpk_id
      BY <2>1, <3>1 DEF HandshakeInv, NamedOnce
    <3> QED BY <3>1, <3>2, <3>3, <3>4
  <2> QED BY <1>1, <2>1 DEF HandshakeInv, NamedOnce
<1>15. StoreOK' /\ PublishedAreHeld'
  BY <1>1, <1>3 DEF HandshakeInv, StoreOK, PublishedAreHeld
<1>16. AcceptedOK' /\ OneTimeOnce'
  BY <1>1, <1>3 DEF HandshakeInv, AcceptedOK, UsedUp, OneTimeOnce
<1> QED BY <1>13, <1>14, <1>15, <1>16 DEF HandshakeInv

\* What the recipient picks for a message: a prekey it has, by the id, or none.
LEMMA NamedTypes ==
    ASSUME HandshakeInv, NEW m \in inits, NEW o \in NamedPreKeys(m)
    PROVE  /\ o \in PreKeys \cup {None}
           /\ o = None <=> m.otpk_id = None
           /\ o # None => o \in otpks /\ o.id = m.otpk_id
<1>1. otpks \subseteq PreKeys
  BY DEF HandshakeInv, StoreOK
<1>2. None \notin PreKeys
  BY DEF PreKeys
<1> QED BY <1>1, <1>2 DEF NamedPreKeys

\* The signed prekeys the recipient has are keys.
LEMMA HeldTypes ==
    ASSUME HandshakeInv
    PROVE  HeldSignedPreKeys \subseteq Keys
BY DEF HandshakeInv, StoreOK, HeldSignedPreKeys

\* Processing: the one-time prekey goes, and with it the way to the secret.
LEMMA AcceptKeeps ==
    ASSUME HandshakeInv, NEW m \in inits, NEW k \in HeldSignedPreKeys, NEW o \in NamedPreKeys(m),
           Accept(m, k, o)
    PROVE  HandshakeInv'
<1> DEFINE secret == ReceiverSecret(m, k, o)
           new == [n |-> Cardinality(accepted), init |-> m, secret |-> secret]
<1>1. /\ accepted' = accepted \cup {new}
      /\ otpks' = otpks \ {o}
      /\ keygen' = [keygen EXCEPT ![Recipient] = @ + 1]
      /\ UNCHANGED <<now, spk, retired, nextId, published, inits>>
  BY DEF Accept, ConsumePreKey
<1>2. new.init = m /\ new.secret = secret
  OBVIOUS
<1>3. /\ o \in PreKeys \cup {None}
      /\ o = None <=> m.otpk_id = None
      /\ o # None => o \in otpks /\ o.id = m.otpk_id
  BY NamedTypes
<1>4. /\ m.from \in Party /\ m.ek \in Keys /\ k \in Keys
      /\ m.ek \in Keys
  BY HeldTypes DEF HandshakeInv, InitsOK, InitMessages
<1>5. /\ secret \in RootKeys
      /\ o # None => Len(secret) = 4 /\ secret[4] = {o.key, m.ek}
  BY <1>3, <1>4, SecretShape DEF ReceiverSecret
<1> HIDE DEF secret, new
<1>6. /\ keygen[Recipient] \in Nat /\ keygen' \in [Party -> Nat]
      /\ keygen'[Recipient] = keygen[Recipient] + 1
  BY <1>1 DEF HandshakeInv, StoreOK
<1>7. \A key \in Keys : key[2] \in Nat /\ (key[2] < keygen[Recipient] => key[2] < keygen'[Recipient])
  BY <1>6 DEF Keys
<1>8. StoreOK'
  <2>1. \A x \in otpks : x.key \in Keys
    BY DEF HandshakeInv, StoreOK, PreKeys
  <2> QED BY <1>1, <1>6, <1>7, <2>1 DEF HandshakeInv, StoreOK
<1>9. PublishedAreHeld'
  <2>1. o \notin published
    BY <1>3 DEF HandshakeInv, NamedOnce, PublishedAreHeld, StoreOK, PreKeys
  <2> QED BY <1>1, <2>1 DEF HandshakeInv, PublishedAreHeld
<1>10. \A x \in otpks' : x.id # m.otpk_id
  <2>1. \A x \in otpks : x.id \in Nat
    BY DEF HandshakeInv, StoreOK, PreKeys
  <2> QED BY <1>1, <1>3, <2>1 DEF HandshakeInv, PublishedAreHeld
<1>11. InitsOK'
  <2>1. ASSUME NEW l \in inits, NEW q \in PreKeys \cup {None}, OneTimeHeld(l, q),
               l.otpk_id = IF q = None THEN None ELSE q.id
        PROVE  OneTimeHeld(l, q)'
    <3>1. CASE q = None \/ Processed(l) \/ q # o
      BY <1>1, <2>1, <3>1 DEF OneTimeHeld, Processed
    <3>2. CASE q # None /\ q = o
      <4>1. l = m
        BY <1>3, <2>1, <3>2 DEF HandshakeInv, NamedOnce
      <4> QED BY <1>1, <1>2, <4>1 DEF OneTimeHeld, Processed
    <3> QED BY <3>1, <3>2
  <2> QED BY <1>1, <2>1 DEF HandshakeInv, InitsOK, MadeWith, SignedHeld
<1>12. AcceptedOK'
  <2>1. ASSUME NEW x \in accepted PROVE UsedUp(x)'
    <3>1. UsedUp(x)
      BY DEF HandshakeInv, AcceptedOK
    <3> QED BY <1>1, <1>7, <3>1 DEF UsedUp
  <2>2. ASSUME NEW x, x.init = m, x.secret = secret
        PROVE  UsedUp(x)'
    <3> SUFFICES ASSUME m.otpk_id # None
                 PROVE  \E key \in Keys :
                          /\ key[1] = Recipient /\ key[2] < keygen'[Recipient]
                          /\ \A q \in otpks' : q.key # key
                          /\ Len(secret) = 4 /\ secret[4] = {key, m.ek}
      BY <1>10, <2>2 DEF UsedUp
    <3>1. o # None /\ o \in otpks
      BY <1>3
    <3>2. /\ o.key \in Keys /\ o.key[1] = Recipient /\ o.key[2] < keygen[Recipient]
          /\ \A q \in otpks' : q.key # o.key
      BY <1>1, <3>1 DEF HandshakeInv, StoreOK, PreKeys
    <3>3. o.key[2] < keygen'[Recipient]
      BY <1>7, <3>2
    <3>4. Len(secret) = 4 /\ secret[4] = {o.key, m.ek}
      BY <1>5, <3>1
    <3> QED BY <3>2, <3>3, <3>4
  <2> QED BY <1>1, <1>2, <1>5, <2>1, <2>2 DEF HandshakeInv, AcceptedOK
<1>13. OneTimeOnce'
  <2>1. ASSUME NEW x \in accepted, x.init = m, m.otpk_id # None
        PROVE  FALSE
    BY <1>3, <2>1 DEF HandshakeInv, AcceptedOK, UsedUp
  <2> QED BY <1>1, <1>2, <2>1 DEF HandshakeInv, OneTimeOnce
<1>14. NamedOnce'
  BY <1>1 DEF HandshakeInv, NamedOnce
<1> QED BY <1>8, <1>9, <1>11, <1>12, <1>13, <1>14 DEF HandshakeInv

\* HandshakeInv is an invariant of recipient, initiators and server.
THEOREM HandshakeInvariance == Spec => []HandshakeInv
<1>1. Init => HandshakeInv
  BY InitOK
<1>2. HandshakeInv /\ [Next]_vars => HandshakeInv'
  <2> SUFFICES ASSUME HandshakeInv, [Next]_vars
               PROVE  HandshakeInv'
    OBVIOUS
  <2>1. CASE RotateSignedPreKey \/ CleanupExpired \/ Tick
    BY <2>1, SignedPreKeysKeep
  <2>2. CASE Replenish
    BY <2>2, ReplenishKeeps
  <2>3. ASSUME NEW p \in Initiators, NEW otpk \in published \cup {None},
               NEW x \in PublishedSignedPreKeys, NEW y \in PublishedSignedPreKeys,
               Initiate(p, otpk, x[2], sign(y[1], y[2]))
        PROVE  HandshakeInv'
    <3>1. x[2] = spk.key
      BY <2>3, TrueSignedPreKey DEF Initiate
    <3>2. Initiate(p, otpk, spk.key, sign(y[1], y[2]))
      BY <2>3, <3>1
    <3> QED BY <3>2, InitiateKeeps
  <2>4. CASE \E m \in inits : \E k \in HeldSignedPreKeys, o \in NamedPreKeys(m) : Accept(m, k, o)
    BY <2>4, AcceptKeeps
  <2>5. CASE UNCHANGED vars
    <3>1. StoreOK' /\ PublishedAreHeld'
      BY <2>5 DEF vars, HandshakeInv, StoreOK, PublishedAreHeld
    <3>2. NamedOnce'
      BY <2>5 DEF vars, HandshakeInv, NamedOnce
    <3>3. InitsOK'
      <4>1. \A m, k, o : MadeWith(m, k, o)' = MadeWith(m, k, o)
        BY <2>5 DEF vars, MadeWith
      <4>2. \A m, k : SignedHeld(m, k)' = SignedHeld(m, k)
        BY <2>5 DEF vars, SignedHeld
      <4>3. \A m, o : OneTimeHeld(m, o)' = OneTimeHeld(m, o)
        BY <2>5 DEF vars, OneTimeHeld, Processed
      <4> QED BY <2>5, <4>1, <4>2, <4>3 DEF vars, HandshakeInv, InitsOK
    <3>4. AcceptedOK' /\ OneTimeOnce'
      BY <2>5 DEF vars, HandshakeInv, AcceptedOK, UsedUp, OneTimeOnce
    <3> QED BY <3>1, <3>2, <3>3, <3>4 DEF HandshakeInv
  <2> QED BY <2>1, <2>2, <2>3, <2>4, <2>5 DEF Next
<1> QED BY <1>1, <1>2, PTL DEF Spec

-----------------------------------------------------------------------------
(* What follows from it *)

\* Prekeys, messages and sessions keep their types.
THEOREM HandshakeTypeCorrect == Spec => []TypeOK
<1>1. HandshakeInv => TypeOK
  BY DEF HandshakeInv, StoreOK, PublishedAreHeld, InitsOK, InitMessages, AcceptedOK, TypeOK
<1> QED BY <1>1, HandshakeInvariance, PTL

\* The server gives out no one-time prekey whose secret half is gone.
THEOREM PublishedHeld == Spec => []PublishedAreHeld
<1>1. HandshakeInv => PublishedAreHeld
  BY DEF HandshakeInv
<1> QED BY <1>1, HandshakeInvariance, PTL

\* A first message with a one-time prekey starts one session at most, however
\* often it is delivered.
THEOREM OneSession == Spec => []OneTimeOnce
<1>1. HandshakeInv => OneTimeOnce
  BY DEF HandshakeInv
<1> QED BY <1>1, HandshakeInvariance, PTL

\* Once such a session has started, the keys the recipient kept do not lead to
\* its secret.
THEOREM SecretGone == Spec => []OneTimeForwardSecrecy
<1>1. HandshakeInv => OneTimeForwardSecrecy
  <2> SUFFICES ASSUME HandshakeInv, NEW x \in accepted, x.init.otpk_id # None,
                      NEW k \in HeldSignedPreKeys, NEW o \in otpks \cup {None},
                      ReceiverSecret(x.init, k, o) = x.secret
               PROVE  FALSE
    BY DEF OneTimeForwardSecrecy, RecipientDerives
  <2>1. x.init \in inits /\ UsedUp(x)
    BY DEF HandshakeInv, AcceptedOK
  <2>2. /\ x.init.from \in Party /\ x.init.ek \in Keys /\ k \in Keys
        /\ o \in PreKeys \cup {None}
    BY <2>1, HeldTypes DEF HandshakeInv, InitsOK, InitMessages, StoreOK
  <2>3. PICK key \in Keys :
           /\ \A q \in otpks : q.key # key
           /\ key[1] = Recipient
           /\ Len(x.secret) = 4 /\ x.secret[4] = {key, x.init.ek}
    BY <2>1 DEF UsedUp
  <2>4. o # None /\ x.secret[4] = {o.key, x.init.ek}
    BY <2>2, <2>3, SecretShape DEF ReceiverSecret
  <2>5. o \in otpks /\ o.key # key
    BY <2>3, <2>4
  <2> QED BY <2>3, <2>4, <2>5
<1> QED BY <1>1, HandshakeInvariance, PTL

\* A first message that is in transit for less than the grace period opens.
THEOREM TimelyOpens == Spec => []TimelyInitOpens
<1>1. HandshakeInv => TimelyInitOpens
  <2> SUFFICES ASSUME HandshakeInv, NEW m \in inits, ~Processed(m),
                      now - m.at < SIGNED_PREKEY_GRACE_PERIOD
               PROVE  Acceptable(m)
    BY DEF TimelyInitOpens
  <2>1. PICK k \in Keys, o \in PreKeys \cup {None} :
           MadeWith(m, k, o) /\ SignedHeld(m, k) /\ OneTimeHeld(m, o)
    BY DEF HandshakeInv, InitsOK
  <2>2. now \in Nat /\ m.at \in Nat /\ m.from \in Party /\ m.ek \in Keys /\ m.header \in MessageHeader
    BY DEF HandshakeInv, StoreOK, InitsOK, InitMessages
  <2>3. k \in HeldSignedPreKeys
    BY <2>1, <2>2 DEF SignedHeld, HeldSignedPreKeys
  <2>4. o \in NamedPreKeys(m)
    <3>1. CASE o = None
      BY <2>1, <3>1 DEF MadeWith, NamedPreKeys
    <3>2. CASE o # None
      <4>1. o \in otpks /\ m.otpk_id = o.id /\ o.id # None
        BY <2>1, <3>2 DEF OneTimeHeld, MadeWith, PreKeys
      <4> QED BY <4>1 DEF NamedPreKeys
    <3> QED BY <3>1, <3>2
  <2>5. ReceiverSecret(m, k, o) \in RootKeys
    BY <2>1, <2>2, SecretShape DEF ReceiverSecret
  <2>6. OpensWith(m, k, o)
    BY <2>1, <2>2, <2>5, FirstMessageOpens DEF OpensWith, MadeWith
  <2> QED BY <2>3, <2>4, <2>6 DEF Acceptable
<1> QED BY <1>1, HandshakeInvariance, PTL
=============================================================================
