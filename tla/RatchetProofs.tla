---------------------------- MODULE RatchetProofs ----------------------------
(***************************************************************************)
(* Proofs about RatchetSession, for any number of messages and key pairs,  *)
(* and any MAX_SKIP.  The first part is about a relay that reorders,       *)
(* loses, redelivers and damages messages, headers included, as it likes;  *)
(* the second, from Line on, about one that reorders, loses and delivers   *)
(* again what decrypt refused, and shows where the two sides stand.        *)
(***************************************************************************)
EXTENDS RatchetSession, FiniteSetTheorems, SequenceTheorems, TLAPS

USE RatchetAssumption, SessionAssumption

-----------------------------------------------------------------------------
(* Types of the operators of DoubleRatchet *)

\* kdf_rk and dh_exchange yield a root key one DH output longer.
LEMMA RootTypes ==
    ASSUME NEW r \in RootKeys, NEW k1 \in Keys, NEW k2 \in Keys
    PROVE  /\ kdf_rk(r, dh_exchange(k1, k2)) \in RootKeys
           /\ Len(kdf_rk(r, dh_exchange(k1, k2))) = Len(r) + 1
BY DEF RootKeys, kdf_rk, dh_exchange

\* encrypt yields a header and a message key of their types, and a RatchetState.
LEMMA EncryptTypes ==
    ASSUME NEW s \in RatchetState, CanEncrypt(s)
    PROVE  /\ EncryptHeader(s) \in MessageHeader
           /\ EncryptKey(s) \in MsgKeys
           /\ AfterEncrypt(s) \in RatchetState
<1>1. s.sending_chain_key \in ChainKeys
  BY DEF RatchetState, CanEncrypt
<1>2. EncryptHeader(s) \in MessageHeader
  BY DEF RatchetState, EncryptHeader, MessageHeader
<1>3. EncryptKey(s) \in MsgKeys
  BY <1>1 DEF EncryptKey, MessageKey, MsgKeys, ChainKeys
<1>4. kdf_ck(s.sending_chain_key, 1) \in ChainKeys
  BY <1>1 DEF kdf_ck, ChainKeys
<1>5. s.send_message_number + 1 \in Nat
  BY DEF RatchetState
<1>6. AfterEncrypt(s) \in RatchetState
  BY <1>4, <1>5 DEF AfterEncrypt, RatchetState
<1> QED BY <1>2, <1>3, <1>6

\* The skipping loop keeps the state a RatchetState.
LEMMA CacheSkippedType ==
    ASSUME NEW s \in RatchetState, NEW until \in Nat,
           s.receiving_chain_key # None, s.remote_ratchet_key # None,
           until >= s.recv_message_number
    PROVE  CacheSkipped(s, until) \in RatchetState
<1> DEFINE ck  == s.receiving_chain_key
           new == {[pk |-> s.remote_ratchet_key, n |-> i,
                    mk |-> MessageKey(ck, i - s.recv_message_number)] : i \in Skipped(s, until)}
<1>1. ck \in ChainKeys /\ s.remote_ratchet_key \in Keys /\ s.recv_message_number \in Nat
  BY DEF RatchetState
<1>2. new \subseteq SkippedKeys
  <2> SUFFICES ASSUME NEW i \in Skipped(s, until)
               PROVE  [pk |-> s.remote_ratchet_key, n |-> i,
                       mk |-> MessageKey(ck, i - s.recv_message_number)] \in SkippedKeys
    OBVIOUS
  <2>1. i \in Nat /\ i - s.recv_message_number \in Nat
    BY <1>1 DEF Skipped
  <2>2. MessageKey(ck, i - s.recv_message_number) \in MsgKeys
    BY <1>1, <2>1 DEF MessageKey, MsgKeys, ChainKeys
  <2> QED BY <1>1, <2>1, <2>2 DEF SkippedKeys
<1>3. kdf_ck(ck, until - s.recv_message_number) \in ChainKeys
  BY <1>1 DEF kdf_ck, ChainKeys
<1> QED BY <1>2, <1>3 DEF CacheSkipped, RatchetState

-----------------------------------------------------------------------------
(* What every RatchetState a party can reach satisfies *)

\* Alice's sending chains hang off roots of odd length, Bob's off even ones.
Par(p) == IF p = Alice THEN 1 ELSE 0

\* Neighbouring lengths differ in parity, lengths one DH step apart do not.
LEMMA ParityFlips ==
    ASSUME NEW n \in Nat
    PROVE  (n + 1) % 2 # n % 2
OBVIOUS

\* The two KDF steps of a DH ratchet step keep a party's parity.
LEMMA ParityStays ==
    ASSUME NEW n \in Nat
    PROVE  (n + 2) % 2 = n % 2
OBVIOUS

\* Message key mk belongs to a position that s's receiving chain has left behind.
Past(s, mk) ==
    \/ Len(mk[1]) + 1 < Len(s.root_key)
    \/ /\ Len(mk[1]) + 1 = Len(s.root_key)
       /\ s.receiving_chain_key # None
       /\ mk[2] < s.receiving_chain_key.n

\* The sending chain is the newest root's.  Its position need not be the number of
\* the next header: a DH step that fails resets the numbers and leaves the chains.
SendingOK(p, s) ==
    /\ Len(s.root_key) % 2 = Par(p)
    /\ s.sending_chain_key # None => s.sending_chain_key.chain = s.root_key

\* The receiving chain is the second newest root's; everything cached lies behind it.
ReceivingOK(p, s) ==
    /\ s.receiving_chain_key # None => Len(s.receiving_chain_key.chain) + 1 = Len(s.root_key)
    /\ \A e \in s.skipped_keys : Past(s, e.mk) /\ Len(e.mk[1]) % 2 # Par(p)
    /\ \A e, f \in s.skipped_keys : e.mk = f.mk => e = f

\* The keys in K are spent: behind the chain and not cached.
SpentOK(s, K) == \A k \in K : Past(s, k) /\ \A e \in s.skipped_keys : e.mk # k

GoodState(p, s, K) ==
    s \in RatchetState /\ SendingOK(p, s) /\ ReceivingOK(p, s) /\ SpentOK(s, K)

\* The fields of the state the skipping loop leaves.
LEMMA CacheSkippedFields ==
    ASSUME NEW s \in RatchetState, NEW until \in Nat
    PROVE  LET c == CacheSkipped(s, until)
           IN  /\ c.root_key = s.root_key
               /\ c.sending_chain_key = s.sending_chain_key
               /\ c.sending_keypair = s.sending_keypair
               /\ c.remote_ratchet_key = s.remote_ratchet_key
               /\ c.send_message_number = s.send_message_number
               /\ c.recv_message_number = s.recv_message_number
               /\ c.receiving_chain_key =
                      kdf_ck(s.receiving_chain_key, until - s.recv_message_number)
               /\ \A e \in c.skipped_keys :
                      \/ e \in s.skipped_keys
                      \/ \E i \in Skipped(s, until) :
                            e = [pk |-> s.remote_ratchet_key, n |-> i,
                                 mk |-> MessageKey(s.receiving_chain_key,
                                                   i - s.recv_message_number)]
BY DEF CacheSkipped, RatchetState

\* Moving the receiving chain to a later position, caching what is passed over,
\* keeps a state good; the keys passed over were not spent.
LEMMA SkipGood ==
    ASSUME NEW p \in Party, NEW s, NEW K \in SUBSET MsgKeys, NEW until \in Nat,
           GoodState(p, s, K),
           s.receiving_chain_key # None, s.remote_ratchet_key # None,
           until >= s.recv_message_number
    PROVE  GoodState(p, [CacheSkipped(s, until) EXCEPT !.recv_message_number = until], K)
<1> DEFINE c == CacheSkipped(s, until)
           t == [c EXCEPT !.recv_message_number = until]
           ck == s.receiving_chain_key
<1>1. s \in RatchetState /\ SendingOK(p, s) /\ ReceivingOK(p, s) /\ SpentOK(s, K)
  BY DEF GoodState
<1>2. c \in RatchetState
  BY <1>1, CacheSkippedType
<1>3. t \in RatchetState
  BY <1>2 DEF RatchetState
<1>4. /\ t.root_key = s.root_key
      /\ t.sending_chain_key = s.sending_chain_key
      /\ t.send_message_number = s.send_message_number
      /\ t.recv_message_number = until
      /\ t.receiving_chain_key = kdf_ck(ck, until - s.recv_message_number)
      /\ t.skipped_keys = c.skipped_keys
  BY <1>1, <1>2, CacheSkippedFields DEF RatchetState
<1>5. /\ ck \in ChainKeys
      /\ Len(ck.chain) + 1 = Len(s.root_key)
      /\ ck.n \in Nat
      /\ s.recv_message_number \in Nat
      /\ s.root_key \in RootKeys
  BY <1>1 DEF ReceivingOK, RatchetState, ChainKeys
<1>6. /\ t.receiving_chain_key.chain = ck.chain
      /\ t.receiving_chain_key.n = ck.n + (until - s.recv_message_number)
      /\ t.receiving_chain_key # None
      /\ t.receiving_chain_key.n \in Nat
      /\ ck.n <= t.receiving_chain_key.n
  <2> DEFINE d == until - s.recv_message_number
  <2>1. d \in Nat /\ ck.n + d \in Nat /\ ck.n <= ck.n + d
    BY <1>5
  <2> HIDE DEF d
  <2>2. kdf_ck(ck, d) \in ChainKeys /\ kdf_ck(ck, d).chain = ck.chain /\ kdf_ck(ck, d).n = ck.n + d
    BY <1>5, <2>1 DEF kdf_ck, ChainKeys
  <2>3. t.receiving_chain_key = kdf_ck(ck, d)
    BY <1>4 DEF d
  <2> HIDE DEF t, ck
  <2> QED BY <2>1, <2>2, <2>3 DEF d
<1>7. ASSUME NEW e \in t.skipped_keys, e \notin s.skipped_keys
      PROVE  \E i \in Nat :
                /\ s.recv_message_number <= i
                /\ e = [pk |-> s.remote_ratchet_key, n |-> i, mk |-> e.mk]
                /\ e.mk[1] = ck.chain
                /\ e.mk[2] = ck.n + (i - s.recv_message_number)
                /\ e.mk = <<e.mk[1], e.mk[2]>>
                /\ ck.n <= e.mk[2]
                /\ e.mk[2] < t.receiving_chain_key.n
  <2>1. PICK i \in Skipped(s, until) :
           e = [pk |-> s.remote_ratchet_key, n |-> i,
                mk |-> MessageKey(ck, i - s.recv_message_number)]
    BY <1>1, <1>4, <1>7, CacheSkippedFields
  <2>2. i \in Nat /\ s.recv_message_number <= i /\ i < until
    BY <1>5 DEF Skipped
  <2>3. e.mk = <<ck.chain, ck.n + (i - s.recv_message_number)>>
    BY <2>1 DEF MessageKey
  <2>4. /\ ck.n <= ck.n + (i - s.recv_message_number)
        /\ ck.n + (i - s.recv_message_number) < ck.n + (until - s.recv_message_number)
    BY <1>5, <2>2
  <2> QED BY <1>6, <2>1, <2>2, <2>3, <2>4
<1>8. ASSUME NEW k \in MsgKeys, Past(s, k)
      PROVE  Past(t, k)
  BY <1>4, <1>5, <1>6, <1>8 DEF Past, MsgKeys
<1>9. \A e \in s.skipped_keys : e \in SkippedKeys /\ e.mk \in MsgKeys
  BY <1>1 DEF RatchetState, SkippedKeys
<1>10. SendingOK(p, t)
  BY <1>1, <1>4 DEF SendingOK
<1>11. ReceivingOK(p, t)
  <2>1. ASSUME NEW e \in t.skipped_keys
        PROVE  Past(t, e.mk) /\ Len(e.mk[1]) % 2 # Par(p)
    <3>1. CASE e \in s.skipped_keys
      BY <1>1, <1>8, <1>9, <3>1 DEF ReceivingOK
    <3>2. CASE e \notin s.skipped_keys
      <4>1. Past(t, e.mk)
        BY <1>4, <1>5, <1>6, <1>7, <3>2 DEF Past
      <4>2. Len(e.mk[1]) = Len(ck.chain)
        BY <1>7, <3>2
      <4>3. Len(ck.chain) \in Nat
        <5>1. ck.chain \in RootKeys
          BY <1>5 DEF ChainKeys
        <5> QED BY <5>1 DEF RootKeys
      <4>4. (Len(ck.chain) + 1) % 2 = Par(p)
        BY <1>1, <1>5 DEF SendingOK
      <4>5. Len(ck.chain) % 2 # Par(p)
        BY <4>3, <4>4, ParityFlips
      <4> QED BY <4>1, <4>2, <4>5
    <3> QED BY <3>1, <3>2
  <2>2. ASSUME NEW e \in t.skipped_keys, NEW f \in t.skipped_keys, e.mk = f.mk
        PROVE  e = f
    <3>1. ASSUME NEW x \in s.skipped_keys, NEW y \in t.skipped_keys, y \notin s.skipped_keys
          PROVE  x.mk # y.mk
      <4>1. Past(s, x.mk)
        BY <1>1 DEF ReceivingOK
      <4> QED BY <1>5, <1>7, <3>1, <4>1 DEF Past
    <3>2. CASE e \in s.skipped_keys /\ f \in s.skipped_keys
      BY <1>1, <2>2, <3>2 DEF ReceivingOK
    <3>3. CASE e \notin s.skipped_keys /\ f \notin s.skipped_keys
      <4>1. PICK i \in Nat :
               /\ s.recv_message_number <= i
               /\ e = [pk |-> s.remote_ratchet_key, n |-> i, mk |-> e.mk]
               /\ e.mk[2] = ck.n + (i - s.recv_message_number)
        BY <1>7, <3>3
      <4>2. PICK j \in Nat :
               /\ s.recv_message_number <= j
               /\ f = [pk |-> s.remote_ratchet_key, n |-> j, mk |-> f.mk]
               /\ f.mk[2] = ck.n + (j - s.recv_message_number)
        BY <1>7, <3>3
      <4>3. i = j
        BY <1>5, <2>2, <4>1, <4>2
      <4> QED BY <2>2, <4>1, <4>2, <4>3
    <3> QED BY <2>2, <3>1, <3>2, <3>3
  <2> QED BY <1>4, <1>5, <1>6, <2>1, <2>2 DEF ReceivingOK
<1>12. SpentOK(t, K)
  <2> SUFFICES ASSUME NEW k \in K
               PROVE  Past(t, k) /\ \A e \in t.skipped_keys : e.mk # k
    BY DEF SpentOK
  <2>1. Past(s, k) /\ \A e \in s.skipped_keys : e.mk # k
    BY <1>1 DEF SpentOK
  <2>2. ASSUME NEW e \in t.skipped_keys, e \notin s.skipped_keys
        PROVE  e.mk # k
    <3>1. e.mk[1] = ck.chain /\ ck.n <= e.mk[2] /\ e.mk[2] \in Nat
      <4> HIDE DEF t, ck
      <4> QED BY <1>5, <1>7, <2>2
    <3>2. k[1] = ck.chain => k[2] < ck.n
      <4>1. ck.chain \in RootKeys
        BY <1>5 DEF ChainKeys
      <4>2. Len(ck.chain) \in Nat
        BY <4>1 DEF RootKeys
      <4> QED BY <1>5, <2>1, <4>2 DEF Past
    <3> HIDE DEF ck
    <3> QED BY <1>5, <3>1, <3>2
  <2> QED BY <1>8, <2>1, <2>2
<1> QED BY <1>3, <1>10, <1>11, <1>12 DEF GoodState

\* Fewer spent keys: a weaker claim.
LEMMA GoodWithLess ==
    ASSUME NEW p, NEW s, NEW K, NEW L \in SUBSET K, GoodState(p, s, K)
    PROVE  GoodState(p, s, L)
BY DEF GoodState, SpentOK

\* encrypt keeps a state good and its root as it was.
LEMMA EncryptGood ==
    ASSUME NEW p \in Party, NEW s, NEW K \in SUBSET MsgKeys,
           GoodState(p, s, K), CanEncrypt(s)
    PROVE  /\ GoodState(p, AfterEncrypt(s), K)
           /\ AfterEncrypt(s).root_key = s.root_key
           /\ AfterEncrypt(s).sending_chain_key # None
           /\ AfterEncrypt(s).sending_chain_key.n = s.sending_chain_key.n + 1
<1> DEFINE t == AfterEncrypt(s)
<1>1. s \in RatchetState /\ t \in RatchetState
  BY EncryptTypes DEF GoodState
<1>2. /\ t.root_key = s.root_key
      /\ t.sending_chain_key = kdf_ck(s.sending_chain_key, 1)
      /\ t.receiving_chain_key = s.receiving_chain_key
      /\ t.skipped_keys = s.skipped_keys
  BY <1>1 DEF AfterEncrypt, RatchetState
<1>3. /\ t.sending_chain_key.chain = s.sending_chain_key.chain
      /\ t.sending_chain_key.n = s.sending_chain_key.n + 1
      /\ t.sending_chain_key # None
  <2>1. s.sending_chain_key \in ChainKeys
    BY <1>1 DEF CanEncrypt, RatchetState
  <2>2. kdf_ck(s.sending_chain_key, 1) \in ChainKeys
    BY <2>1 DEF kdf_ck, ChainKeys
  <2> QED BY <1>2, <2>1, <2>2 DEF kdf_ck, ChainKeys
<1>4. SendingOK(p, t)
  BY <1>2, <1>3 DEF SendingOK, GoodState, CanEncrypt
<1>5. ReceivingOK(p, t) /\ SpentOK(t, K)
  BY <1>2 DEF GoodState, ReceivingOK, SpentOK, Past
<1> QED BY <1>1, <1>2, <1>3, <1>4, <1>5 DEF GoodState

\* A DH ratchet step keeps a state good, leaves a receiving chain to use, and
\* makes the root two DH outputs longer.
LEMMA StepGood ==
    ASSUME NEW p \in Party, NEW s, NEW K \in SUBSET MsgKeys,
           GoodState(p, s, K), NEW pk \in Keys, NEW nk \in Keys
    PROVE  /\ GoodState(p, dh_ratchet_step(s, pk, nk), K)
           /\ Len(dh_ratchet_step(s, pk, nk).root_key) = Len(s.root_key) + 2
<1> DEFINE t  == dh_ratchet_step(s, pk, nk)
           r1 == kdf_rk(s.root_key, dh_exchange(s.sending_keypair, pk))
           r2 == kdf_rk(r1, dh_exchange(nk, pk))
<1>1. s \in RatchetState /\ s.root_key \in RootKeys /\ s.sending_keypair \in Keys
  BY DEF GoodState, RatchetState
<1>2. r1 \in RootKeys /\ Len(r1) = Len(s.root_key) + 1
  BY <1>1, RootTypes
<1>3. r2 \in RootKeys /\ Len(r2) = Len(r1) + 1
  BY <1>2, RootTypes
<1>4. /\ t.root_key = r2
      /\ t.sending_chain_key = NewChain(r2)
      /\ t.receiving_chain_key = NewChain(r1)
      /\ t.skipped_keys = s.skipped_keys
  BY <1>1 DEF dh_ratchet_step, NewRootsAndChains, RatchetState
<1>5. NewChain(r1) \in ChainKeys /\ NewChain(r2) \in ChainKeys
  BY <1>2, <1>3 DEF NewChain, ChainKeys
<1>6. t \in RatchetState
  BY <1>1, <1>2, <1>3, <1>5 DEF dh_ratchet_step, NewRootsAndChains, RatchetState
<1>7. Len(s.root_key) \in Nat /\ Len(r2) = Len(s.root_key) + 2 /\ Len(r1) + 1 = Len(r2)
  BY <1>1, <1>2, <1>3 DEF RootKeys
<1>8. ASSUME NEW k \in MsgKeys, Past(s, k)
      PROVE  Past(t, k)
  <2>1. Len(k[1]) \in Nat
    BY DEF MsgKeys, RootKeys
  <2> QED BY <1>4, <1>7, <1>8, <2>1 DEF Past
<1>9. \A e \in s.skipped_keys : e.mk \in MsgKeys
  BY <1>1 DEF RatchetState, SkippedKeys
<1>10. SendingOK(p, t)
  <2>1. Len(r2) % 2 = Len(s.root_key) % 2
    BY <1>7, ParityStays
  <2>2. NewChain(r2).chain = r2
    BY DEF NewChain
  <2>3. Len(s.root_key) % 2 = Par(p)
    BY DEF SendingOK, GoodState
  <2> QED BY <1>4, <2>1, <2>2, <2>3 DEF SendingOK
<1>11. ReceivingOK(p, t)
  <2>1. NewChain(r1).chain = r1
    BY DEF NewChain
  <2>2. ReceivingOK(p, s)
    BY DEF GoodState
  <2>3. \A e \in t.skipped_keys : Past(t, e.mk) /\ Len(e.mk[1]) % 2 # Par(p)
    BY <1>4, <1>8, <1>9, <2>2 DEF ReceivingOK
  <2>4. \A e, f \in t.skipped_keys : e.mk = f.mk => e = f
    BY <1>4, <2>2 DEF ReceivingOK
  <2> QED BY <1>4, <1>7, <2>1, <2>3, <2>4 DEF ReceivingOK
<1>12. SpentOK(t, K)
  BY <1>4, <1>8 DEF SpentOK, GoodState
<1> QED BY <1>4, <1>6, <1>7, <1>10, <1>11, <1>12 DEF GoodState

\* What is left of the old chain is cached before a DH step: a good state with the same root.
LEMMA OldChainGood ==
    ASSUME NEW p \in Party, NEW s, NEW K \in SUBSET MsgKeys,
           GoodState(p, s, K), NEW until \in Nat
    PROVE  LET u == skip_message_keys_for_current_chain(s, until)
           IN  /\ GoodState(p, u, K)
               /\ u.root_key = s.root_key
               /\ u.sending_chain_key = s.sending_chain_key
<1> DEFINE u == skip_message_keys_for_current_chain(s, until)
<1>1. CASE OldChainOpen(s, until)
  <2>1. /\ s.receiving_chain_key # None
        /\ s.remote_ratchet_key # None
        /\ until >= s.recv_message_number
    BY <1>1 DEF OldChainOpen
  <2>2. u = [CacheSkipped(s, until) EXCEPT !.recv_message_number = until]
    BY <1>1 DEF skip_message_keys_for_current_chain
  <2>3. GoodState(p, u, K)
    BY <2>1, <2>2, SkipGood
  <2>4. s \in RatchetState /\ CacheSkipped(s, until) \in RatchetState
    BY <2>1, CacheSkippedType DEF GoodState
  <2>5. /\ CacheSkipped(s, until).root_key = s.root_key
        /\ CacheSkipped(s, until).sending_chain_key = s.sending_chain_key
    BY <2>4, CacheSkippedFields
  <2>6. /\ u.root_key = CacheSkipped(s, until).root_key
        /\ u.sending_chain_key = CacheSkipped(s, until).sending_chain_key
    BY <2>2, <2>4 DEF RatchetState
  <2> QED BY <2>3, <2>5, <2>6
<1>2. CASE ~OldChainOpen(s, until)
  BY <1>2 DEF skip_message_keys_for_current_chain
<1> QED BY <1>1, <1>2

\* Stage 2 of decrypt: either no ratchet step, or a good state with a longer root.
LEMMA RatchetGood ==
    ASSUME NEW p \in Party, NEW s, NEW K \in SUBSET MsgKeys,
           GoodState(p, s, K), NEW h \in MessageHeader, NEW nk \in Keys
    PROVE  /\ GoodState(p, AfterRatchet(s, h, nk), K)
           /\ \/ AfterRatchet(s, h, nk) = s
              \/ Len(AfterRatchet(s, h, nk).root_key) = Len(s.root_key) + 2
<1>1. CASE ~NeedRatchet(s, h)
  BY <1>1 DEF AfterRatchet
<1>2. CASE NeedRatchet(s, h)
  <2> DEFINE u == skip_message_keys_for_current_chain(s, h.previous_chain_length)
             pk == h.ratchet_public_key
  <2>1. h.previous_chain_length \in Nat /\ pk \in Keys
    BY DEF MessageHeader
  <2>2. GoodState(p, u, K) /\ u.root_key = s.root_key
    BY <2>1, OldChainGood
  <2>3. AfterRatchet(s, h, nk) = dh_ratchet_step(u, pk, nk)
    BY <1>2 DEF AfterRatchet
  <2> HIDE DEF u, pk
  <2>4. /\ GoodState(p, dh_ratchet_step(u, pk, nk), K)
        /\ Len(dh_ratchet_step(u, pk, nk).root_key) = Len(u.root_key) + 2
    BY <2>1, <2>2, StepGood
  <2> QED BY <2>2, <2>3, <2>4
<1> QED BY <1>1, <1>2

\* A DH step that fails resets the numbers and leaves the chains and the root.
LEMMA FailedStepGood ==
    ASSUME NEW p \in Party, NEW s, NEW K \in SUBSET MsgKeys,
           GoodState(p, s, K), NEW h \in MessageHeader
    PROVE  /\ GoodState(p, AfterFailedStep(s, h), K)
           /\ AfterFailedStep(s, h).root_key = s.root_key
           /\ AfterFailedStep(s, h).sending_chain_key = s.sending_chain_key
<1> DEFINE u == skip_message_keys_for_current_chain(s, h.previous_chain_length)
           pk == h.ratchet_public_key
           t == StepBegun(u, pk)
<1>1. h.previous_chain_length \in Nat /\ pk \in Keys
  BY DEF MessageHeader
<1>2. /\ GoodState(p, u, K) /\ u.root_key = s.root_key
      /\ u.sending_chain_key = s.sending_chain_key
  BY <1>1, OldChainGood
<1>3. AfterFailedStep(s, h) = t
  BY DEF AfterFailedStep
<1> HIDE DEF u, pk
<1>4. /\ u \in RatchetState /\ SendingOK(p, u) /\ ReceivingOK(p, u) /\ SpentOK(u, K)
  BY <1>2 DEF GoodState
<1>5. /\ t \in RatchetState
      /\ t.root_key = u.root_key
      /\ t.sending_chain_key = u.sending_chain_key
      /\ t.receiving_chain_key = u.receiving_chain_key
      /\ t.skipped_keys = u.skipped_keys
  BY <1>1, <1>4 DEF StepBegun, RatchetState
<1>6. \A k : Past(t, k) <=> Past(u, k)
  BY <1>5 DEF Past
<1>7. SendingOK(p, t) /\ ReceivingOK(p, t) /\ SpentOK(t, K)
  BY <1>4, <1>5, <1>6 DEF SendingOK, ReceivingOK, SpentOK
<1> QED BY <1>2, <1>3, <1>5, <1>7 DEF GoodState

\* K and the message keys stage 1 takes out of the cache.
WithHits(K, s, h) == K \cup {e.mk : e \in CacheHits(s, h)}

\* Stage 1 of decrypt: the keys it takes out of the cache are spent for good.
LEMMA CacheHitGood ==
    ASSUME NEW p \in Party, NEW s, NEW K \in SUBSET MsgKeys,
           GoodState(p, s, K), NEW h
    PROVE  /\ GoodState(p, AfterCacheHit(s, h), WithHits(K, s, h))
           /\ AfterCacheHit(s, h).root_key = s.root_key
           /\ AfterCacheHit(s, h).sending_chain_key = s.sending_chain_key
<1> DEFINE t == AfterCacheHit(s, h)
           L == WithHits(K, s, h)
<1>1. s \in RatchetState /\ SendingOK(p, s) /\ ReceivingOK(p, s) /\ SpentOK(s, K)
  BY DEF GoodState
<1>2. /\ t \in RatchetState
      /\ t.skipped_keys = s.skipped_keys \ CacheHits(s, h)
      /\ t.root_key = s.root_key
      /\ t.sending_chain_key = s.sending_chain_key
      /\ t.receiving_chain_key = s.receiving_chain_key
  BY <1>1 DEF AfterCacheHit, RatchetState
<1>3. CacheHits(s, h) \subseteq s.skipped_keys
  BY DEF CacheHits
<1>4. \A k : Past(t, k) <=> Past(s, k)
  BY <1>2 DEF Past
<1>5. SendingOK(p, t) /\ ReceivingOK(p, t)
  BY <1>1, <1>2, <1>4 DEF SendingOK, ReceivingOK
<1>6. SpentOK(t, L)
  <2> SUFFICES ASSUME NEW k \in L
               PROVE  Past(t, k) /\ \A e \in t.skipped_keys : e.mk # k
    BY DEF SpentOK
  <2>1. CASE k \in K
    BY <1>1, <1>2, <1>4, <2>1 DEF SpentOK
  <2>2. CASE k \notin K
    <3>1. PICK f \in CacheHits(s, h) : f.mk = k
      BY <2>2 DEF WithHits
    <3> QED BY <1>1, <1>2, <1>3, <1>4, <3>1 DEF ReceivingOK
  <2> QED BY <2>1, <2>2
<1> QED BY <1>2, <1>5, <1>6 DEF GoodState

\* The key stage 3 tries lies ahead in the receiving chain, so no spent key is ever
\* tried again.
LEMMA AdvanceKeyFresh ==
    ASSUME NEW p \in Party, NEW s, NEW K \in SUBSET MsgKeys,
           GoodState(p, s, K), NEW h \in MessageHeader,
           ~SkipRejects(s, h.message_number)
    PROVE  /\ AdvanceKey(s, h) = <<s.receiving_chain_key.chain,
                                   s.receiving_chain_key.n + (h.message_number - s.recv_message_number)>>
           /\ AdvanceKey(s, h) \in MsgKeys
           /\ AdvanceKey(s, h) \notin K
<1> DEFINE ck == s.receiving_chain_key
           d == h.message_number - s.recv_message_number
<1>1. /\ s \in RatchetState /\ ReceivingOK(p, s) /\ SpentOK(s, K)
      /\ h.message_number \in Nat
  BY DEF GoodState, MessageHeader
<1>2. /\ ck # None
      /\ ~(h.message_number < s.recv_message_number)
  BY DEF SkipRejects
<1>3. /\ ck \in ChainKeys /\ s.recv_message_number \in Nat
      /\ Len(ck.chain) + 1 = Len(s.root_key)
  BY <1>1, <1>2 DEF RatchetState, ReceivingOK
<1>4. AdvanceKey(s, h) = <<ck.chain, ck.n + d>>
  BY DEF AdvanceKey, MessageKey
<1>5. ck.chain \in RootKeys /\ ck.n \in Nat
  BY <1>3 DEF ChainKeys
<1>6. d \in Nat /\ ck.n + d \in Nat /\ ~(ck.n + d < ck.n)
  BY <1>1, <1>2, <1>3, <1>5
<1> HIDE DEF d
<1>7. ~Past(s, AdvanceKey(s, h))
  <2>1. Len(ck.chain) \in Nat
    BY <1>5 DEF RootKeys
  <2> QED BY <1>3, <1>4, <1>6, <2>1 DEF Past
<1>8. AdvanceKey(s, h) \in MsgKeys
  BY <1>4, <1>5, <1>6 DEF MsgKeys
<1> QED BY <1>1, <1>4, <1>7, <1>8 DEF SpentOK, d

\* K and the message key stage 3 derives.
WithTried(K, s, h) == K \cup {AdvanceKey(s, h)}

\* Stage 3 of decrypt keeps a state good and spends the key it tried.
LEMMA AdvanceGood ==
    ASSUME NEW p \in Party, NEW s, NEW K \in SUBSET MsgKeys,
           GoodState(p, s, K), NEW h \in MessageHeader,
           ~SkipRejects(s, h.message_number)
    PROVE  /\ GoodState(p, AfterAdvance(s, h), WithTried(K, s, h))
           /\ AfterAdvance(s, h).root_key = s.root_key
           /\ AfterAdvance(s, h).sending_chain_key = s.sending_chain_key
<1> DEFINE n == h.message_number
           c == CacheSkipped(s, n)
           u == [c EXCEPT !.recv_message_number = n]
           t == AfterAdvance(s, h)
           ck == s.receiving_chain_key
           k == AdvanceKey(s, h)
<1>1. n \in Nat /\ s \in RatchetState
  BY DEF GoodState, MessageHeader
<1>2. /\ ck # None
      /\ s.remote_ratchet_key # None
      /\ n >= s.recv_message_number
  BY <1>1 DEF SkipRejects, RatchetState
<1>3. GoodState(p, u, K)
  BY <1>1, <1>2, SkipGood
<1>4. c \in RatchetState
  BY <1>1, <1>2, CacheSkippedType
<1>5. c.root_key = s.root_key /\ c.sending_chain_key = s.sending_chain_key
  BY <1>1, CacheSkippedFields
<1>6. c.receiving_chain_key = kdf_ck(ck, n - s.recv_message_number)
  BY <1>1, CacheSkippedFields
<1>7. /\ u.root_key = c.root_key
      /\ u.sending_chain_key = c.sending_chain_key
      /\ u.receiving_chain_key = c.receiving_chain_key
      /\ u.skipped_keys = c.skipped_keys
  BY <1>4 DEF RatchetState
<1>8. /\ t.root_key = u.root_key
      /\ t.sending_chain_key = u.sending_chain_key
      /\ t.receiving_chain_key = kdf_ck(u.receiving_chain_key, 1)
      /\ t.skipped_keys = u.skipped_keys
  BY <1>4, <1>7 DEF AfterAdvance, RatchetState
<1>9. ck \in ChainKeys /\ s.recv_message_number \in Nat
  BY <1>1, <1>2 DEF RatchetState
<1>10. u.receiving_chain_key \in ChainKeys /\ u.receiving_chain_key # None
  <2>1. kdf_ck(ck, n - s.recv_message_number) \in ChainKeys
    BY <1>1, <1>2, <1>9 DEF kdf_ck, ChainKeys
  <2> QED BY <1>6, <1>7, <2>1
<1>11. kdf_ck(u.receiving_chain_key, 1) \in ChainKeys
  BY <1>10 DEF kdf_ck, ChainKeys
<1>12. t \in RatchetState
  <2>1. n + 1 \in Nat /\ kdf_ck(c.receiving_chain_key, 1) \in ChainKeys
    BY <1>1, <1>7, <1>11
  <2> QED BY <1>4, <2>1 DEF AfterAdvance, RatchetState
<1>13. /\ Len(u.receiving_chain_key.chain) + 1 = Len(u.root_key)
       /\ u.receiving_chain_key.n \in Nat
  BY <1>3, <1>7, <1>10 DEF GoodState, ReceivingOK, ChainKeys
<1>14. /\ t.receiving_chain_key.chain = u.receiving_chain_key.chain
       /\ t.receiving_chain_key.n = u.receiving_chain_key.n + 1
       /\ t.receiving_chain_key # None
  BY <1>8, <1>10, <1>11, <1>13 DEF kdf_ck, ChainKeys
<1>15. ASSUME NEW x \in MsgKeys, Past(u, x)
       PROVE  Past(t, x)
  BY <1>8, <1>10, <1>13, <1>14, <1>15 DEF Past, MsgKeys
<1>16. \A e \in u.skipped_keys : e.mk \in MsgKeys
  BY <1>3 DEF GoodState, RatchetState, SkippedKeys
<1>17. SendingOK(p, t)
  BY <1>3, <1>8 DEF SendingOK, GoodState
<1>18. ReceivingOK(p, t)
  <2>1. ReceivingOK(p, u)
    BY <1>3 DEF GoodState
  <2>2. \A e \in t.skipped_keys : Past(t, e.mk) /\ Len(e.mk[1]) % 2 # Par(p)
    BY <1>8, <1>15, <1>16, <2>1 DEF ReceivingOK
  <2>3. \A e, f \in t.skipped_keys : e.mk = f.mk => e = f
    BY <1>8, <2>1 DEF ReceivingOK
  <2> QED BY <1>8, <1>13, <1>14, <2>2, <2>3 DEF ReceivingOK
<1>19. k = <<u.receiving_chain_key.chain, u.receiving_chain_key.n>>
  <2>1. k = <<ck.chain, ck.n + (n - s.recv_message_number)>>
    BY AdvanceKeyFresh
  <2>2. /\ u.receiving_chain_key.chain = ck.chain
        /\ u.receiving_chain_key.n = ck.n + (n - s.recv_message_number)
    BY <1>6, <1>7, <1>9 DEF kdf_ck, ChainKeys
  <2> QED BY <2>1, <2>2
<1>20. Past(t, k) /\ ~Past(u, k)
  <2>1. u.receiving_chain_key.chain \in RootKeys
    BY <1>10 DEF ChainKeys
  <2>2. Len(u.receiving_chain_key.chain) \in Nat
    BY <2>1 DEF RootKeys
  <2> QED BY <1>8, <1>10, <1>13, <1>14, <1>19, <2>2 DEF Past
<1>21. SpentOK(t, WithTried(K, s, h))
  <2>1. ASSUME NEW x \in K
        PROVE  Past(t, x) /\ \A e \in t.skipped_keys : e.mk # x
    BY <1>3, <1>8, <1>15 DEF SpentOK, GoodState
  <2>2. \A e \in t.skipped_keys : e.mk # k
    BY <1>3, <1>8, <1>20 DEF GoodState, ReceivingOK
  <2> QED BY <1>20, <2>1, <2>2 DEF SpentOK, WithTried
<1> QED BY <1>5, <1>7, <1>8, <1>12, <1>17, <1>18, <1>21 DEF GoodState

-----------------------------------------------------------------------------
(* The inductive invariant *)

AcceptedKeys(p) == {m.mk : m \in accepted[p]}

\* A sent message is numbered, and its key lies before its sender's next one.
SentOK(m) ==
    /\ m.seq < sends[m.from]
    /\ Len(m.mk[1]) % 2 = Par(m.from)
    /\ Len(m.mk[1]) <= Len(session[m.from].root_key)
    /\ Len(m.mk[1]) = Len(session[m.from].root_key)
          => /\ session[m.from].sending_chain_key # None
             /\ m.mk[2] < session[m.from].sending_chain_key.n

UniqueNumbers ==
    \A m1, m2 \in network : m1.from = m2.from /\ m1.seq = m2.seq => m1 = m2

RatchetInv ==
    /\ TypeOK
    /\ \A p \in Party : GoodState(p, session[p], AcceptedKeys(p))
    /\ \A p \in Party : \A m \in accepted[p] : m.from = Peer(p)
    /\ \A m \in network : SentOK(m)
    /\ UniqueMessageKeys
    /\ UniqueNumbers

\* The states init_sender and init_receiver build are good.
LEMMA InitInv == Init => RatchetInv
<1> SUFFICES ASSUME Init PROVE RatchetInv
  OBVIOUS
<1>1. Alice \in Party /\ Bob \in Party
  OBVIOUS
<1>2. /\ shared_secret \in RootKeys /\ Len(shared_secret) = 0
      /\ SignedPreKey \in Keys /\ <<Alice, 0>> \in Keys
  BY DEF shared_secret, SignedPreKey, RootKeys, Keys
<1> DEFINE root == kdf_rk(shared_secret, dh_exchange(<<Alice, 0>>, SignedPreKey))
           sa == init_sender(shared_secret, SignedPreKey, <<Alice, 0>>)
           sb == init_receiver(shared_secret, SignedPreKey)
<1>3. root \in RootKeys /\ Len(root) = 1
  <2>1. root \in RootKeys /\ Len(root) = Len(shared_secret) + 1
    BY <1>2, RootTypes
  <2> QED BY <1>2, <2>1
<1>4. sa \in RatchetState
  <2>1. NewChain(root) \in ChainKeys
    BY <1>3 DEF NewChain, ChainKeys
  <2> QED BY <1>2, <1>3, <2>1 DEF init_sender, RatchetState
<1>5. sb \in RatchetState
  BY <1>2 DEF init_receiver, RatchetState
<1>6. GoodState(Alice, sa, {})
  <2>1. /\ sa.root_key = root
        /\ sa.sending_chain_key = NewChain(root)
        /\ sa.receiving_chain_key = None
        /\ sa.skipped_keys = {}
    BY DEF init_sender
  <2>2. NewChain(root).chain = root
    BY DEF NewChain
  <2>3. 1 % 2 = 1
    OBVIOUS
  <2>4. SendingOK(Alice, sa)
    BY <1>3, <2>1, <2>2, <2>3 DEF SendingOK, Par
  <2>5. ReceivingOK(Alice, sa) /\ SpentOK(sa, {})
    BY <2>1 DEF ReceivingOK, SpentOK
  <2> QED BY <1>4, <2>4, <2>5 DEF GoodState
<1>7. GoodState(Bob, sb, {})
  <2>1. /\ sb.root_key = shared_secret
        /\ sb.sending_chain_key = None
        /\ sb.receiving_chain_key = None
        /\ sb.skipped_keys = {}
    BY DEF init_receiver
  <2>2. 0 % 2 = 0
    OBVIOUS
  <2>3. SendingOK(Bob, sb)
    BY <1>2, <2>1, <2>2 DEF SendingOK, Par
  <2>4. ReceivingOK(Bob, sb) /\ SpentOK(sb, {})
    BY <2>1 DEF ReceivingOK, SpentOK
  <2> QED BY <1>5, <2>3, <2>4 DEF GoodState
<1>8. session[Alice] = sa /\ session[Bob] = sb
  BY <1>1 DEF Init
<1>9. TypeOK
  <2>1. session \in [Party -> RatchetState]
    BY <1>4, <1>5 DEF Init
  <2> QED BY <2>1 DEF Init, TypeOK
<1>10. \A p \in Party : AcceptedKeys(p) = {}
  BY DEF Init, AcceptedKeys
<1>11. \A p \in Party : GoodState(p, session[p], AcceptedKeys(p))
  BY <1>6, <1>7, <1>8, <1>10
<1> QED BY <1>9, <1>11 DEF RatchetInv, Init, UniqueMessageKeys, UniqueNumbers

\* encrypt preserves the invariant: its message key is one nobody used before.
LEMMA EncryptInv ==
    ASSUME RatchetInv, NEW p \in Party, Encrypt(p)
    PROVE  RatchetInv'
<1> DEFINE s == session[p]
           t == AfterEncrypt(s)
           n == s.sending_chain_key.n
           new == [from |-> p, seq |-> sends[p],
                   header |-> EncryptHeader(s), mk |-> EncryptKey(s)]
<1>1. /\ CanEncrypt(s)
      /\ network' = network \cup {new}
      /\ session' = [session EXCEPT ![p] = t]
      /\ sends' = [sends EXCEPT ![p] = @ + 1]
      /\ UNCHANGED <<keygen, delivered, accepted, returned>>
  BY DEF Encrypt
<1>2. TypeOK /\ GoodState(p, s, AcceptedKeys(p)) /\ s \in RatchetState
  BY DEF RatchetInv, GoodState
<1>3. \A q \in Party : AcceptedKeys(q) \in SUBSET MsgKeys
  BY <1>2 DEF TypeOK, AcceptedKeys, Messages
<1>4. /\ GoodState(p, t, AcceptedKeys(p))
      /\ t.root_key = s.root_key
      /\ t.sending_chain_key # None /\ t.sending_chain_key.n = n + 1
      /\ t \in RatchetState
  BY <1>1, <1>2, <1>3, EncryptGood DEF GoodState
<1>5. new \in Messages
  BY <1>1, <1>2, EncryptTypes DEF Messages, TypeOK
<1>6. TypeOK'
  <2>1. session' \in [Party -> RatchetState]
    BY <1>1, <1>2, <1>4 DEF TypeOK
  <2>2. sends' \in [Party -> Nat]
    BY <1>1, <1>2 DEF TypeOK
  <2> QED BY <1>1, <1>2, <1>5, <2>1, <2>2 DEF TypeOK
<1>7. \A q \in Party : session'[q] = IF q = p THEN t ELSE session[q]
  BY <1>1, <1>2 DEF TypeOK
<1>8. \A q \in Party : GoodState(q, session'[q], AcceptedKeys(q)')
  BY <1>1, <1>4, <1>7 DEF RatchetInv, AcceptedKeys
<1>9. /\ new.mk[1] = s.root_key /\ new.mk[2] = n
      /\ new.from = p /\ new.seq = sends[p] /\ n \in Nat
  <2>1. s.sending_chain_key.chain = s.root_key
    BY <1>1, <1>2 DEF GoodState, SendingOK, CanEncrypt
  <2>2. n \in Nat
    BY <1>1, <1>2 DEF CanEncrypt, RatchetState, ChainKeys
  <2> QED BY <2>1, <2>2 DEF EncryptKey, MessageKey
<1>10. /\ Len(s.root_key) \in Nat
       /\ Len(s.root_key) % 2 = Par(p) /\ sends[p] \in Nat
  <2>1. s.root_key \in RootKeys
    BY <1>2 DEF RatchetState
  <2>2. Len(s.root_key) \in Nat
    BY <2>1 DEF RootKeys
  <2>3. Len(s.root_key) % 2 = Par(p)
    BY <1>2 DEF GoodState, SendingOK
  <2>4. sends[p] \in Nat
    BY <1>2 DEF TypeOK
  <2> QED BY <2>1, <2>2, <2>3, <2>4
<1>11. ASSUME NEW m \in network
       PROVE  SentOK(m)'
  <2>1. m \in Messages /\ SentOK(m) /\ m.from \in Party /\ m.seq \in Nat /\ m.mk[2] \in Nat
    BY <1>2 DEF RatchetInv, TypeOK, Messages, MsgKeys
  <2>2. sends'[m.from] = IF m.from = p THEN sends[p] + 1 ELSE sends[m.from]
    BY <1>1, <1>2, <2>1 DEF TypeOK
  <2>3. m.seq < sends'[m.from]
    BY <1>10, <2>1, <2>2 DEF SentOK
  <2>4. session'[m.from].root_key = session[m.from].root_key
    BY <1>4, <1>7, <2>1
  <2>5. m.mk[2] < session[m.from].sending_chain_key.n
           => m.mk[2] < session'[m.from].sending_chain_key.n
    BY <1>4, <1>7, <1>9, <2>1
  <2>6. session[m.from].sending_chain_key # None => session'[m.from].sending_chain_key # None
    BY <1>4, <1>7, <2>1
  <2> QED BY <2>1, <2>3, <2>4, <2>5, <2>6 DEF SentOK
<1>12. ASSUME NEW m, m = new
       PROVE  SentOK(m)'
  <2>1. sends'[p] = sends[p] + 1 /\ session'[p] = t
    BY <1>1, <1>2, <1>7 DEF TypeOK
  <2>2. /\ m.from = p /\ m.seq = sends[p]
        /\ m.mk[1] = s.root_key /\ m.mk[2] = n
    BY <1>9, <1>12
  <2>3. m.seq < sends'[m.from]
    BY <1>10, <2>1, <2>2
  <2>4. session'[m.from].root_key = m.mk[1]
    BY <1>4, <2>1, <2>2
  <2>5. m.mk[2] < session'[m.from].sending_chain_key.n /\ session'[m.from].sending_chain_key # None
    BY <1>4, <1>9, <2>1, <2>2
  <2>6. Len(m.mk[1]) \in Nat /\ Len(m.mk[1]) % 2 = Par(m.from)
    BY <1>10, <2>2
  <2>7. Len(m.mk[1]) <= Len(session'[m.from].root_key)
    BY <2>4, <2>6
  <2> QED BY <2>3, <2>5, <2>6, <2>7 DEF SentOK
<1>13. ASSUME NEW m \in network
       PROVE  m.mk # new.mk /\ ~(m.from = new.from /\ m.seq = new.seq)
  <2>1. SentOK(m) /\ m.from \in Party /\ m.seq \in Nat /\ m.mk[2] \in Nat
    BY <1>2 DEF RatchetInv, TypeOK, Messages, MsgKeys
  <2>2. m.from = p => m.seq < sends[p]
    BY <2>1 DEF SentOK
  <2>3. m.mk[1] = s.root_key => m.from = p
    <3>1. ASSUME m.mk[1] = s.root_key PROVE Par(m.from) = Par(p)
      BY <1>10, <2>1, <3>1 DEF SentOK
    <3> QED BY <2>1, <3>1 DEF Par
  <2>4. m.from = p /\ m.mk[1] = s.root_key => m.mk[2] < n
    BY <2>1 DEF SentOK
  <2> QED BY <1>9, <1>10, <2>1, <2>2, <2>3, <2>4
<1>14. UniqueMessageKeys'
  BY <1>1, <1>13 DEF RatchetInv, UniqueMessageKeys
<1>15. UniqueNumbers'
  BY <1>1, <1>13 DEF RatchetInv, UniqueNumbers
<1>16. \A q \in Party : \A m \in accepted'[q] : m.from = Peer(q)
  BY <1>1 DEF RatchetInv
<1>17. \A m \in network' : SentOK(m)'
  BY <1>1, <1>11, <1>12
<1> QED BY <1>6, <1>8, <1>14, <1>15, <1>16, <1>17 DEF RatchetInv

\* What every call of decrypt does to the state, in whichever stage it ends:
\* t is the new RatchetState, spent all keys used up so far, ok its answer.
Outcome(p, m, t, spent, ok) ==
    /\ session' = [session EXCEPT ![p] = t]
    /\ keygen' \in [Party -> Nat]
    /\ Deliver(p, m, ok)
    /\ AcceptedKeys(p) \subseteq spent
    /\ GoodState(p, t, spent)
    /\ ok => m.mk \in spent /\ m.mk \notin AcceptedKeys(p)
    /\ \/ /\ t.root_key = session[p].root_key
          /\ t.sending_chain_key = session[p].sending_chain_key
       \/ Len(t.root_key) = Len(session[p].root_key) + 2

\* Every disjunct of Decrypt has such an outcome.
LEMMA DecryptOutcome ==
    ASSUME RatchetInv, NEW p \in Party, NEW m \in network,
           NEW h \in MessageHeader, NEW intact \in BOOLEAN, Decrypt(p, m, h, intact)
    PROVE  \E t, spent : \E ok \in BOOLEAN : Outcome(p, m, t, spent, ok)
<1> DEFINE s == session[p]
           K == AcceptedKeys(p)
           r == AfterRatchet(s, h, FreshKey(p))
<1>1. TypeOK /\ GoodState(p, s, K) /\ s \in RatchetState
  BY DEF RatchetInv, GoodState
<1>2. K \in SUBSET MsgKeys
  BY <1>1 DEF TypeOK, AcceptedKeys, Messages
<1>4. FreshKey(p) \in Keys
  BY <1>1 DEF FreshKey, TypeOK, Keys
<1>5. GenKeyFor(p, h) \/ UNCHANGED keygen => keygen' \in [Party -> Nat]
  BY <1>1 DEF GenKeyFor, TypeOK
<1>6. GoodState(p, r, K) /\ (r = s \/ Len(r.root_key) = Len(s.root_key) + 2)
  BY <1>1, <1>2, <1>4, RatchetGood
<1>7. CASE DecryptCached(p, m, h, intact)
  <2> DEFINE t == AfterCacheHit(s, h)
             spent == WithHits(K, s, h)
             ok == intact /\ \E e \in CacheHits(s, h) : e.mk = m.mk
  <2>1. session' = [session EXCEPT ![p] = t] /\ UNCHANGED keygen /\ Deliver(p, m, ok)
    BY <1>7 DEF DecryptCached
  <2>2. /\ GoodState(p, t, spent)
        /\ t.root_key = s.root_key /\ t.sending_chain_key = s.sending_chain_key
    BY <1>1, <1>2, CacheHitGood
  <2>3. ASSUME ok PROVE m.mk \in spent /\ m.mk \notin K
    <3>1. PICK e \in CacheHits(s, h) : e.mk = m.mk
      BY <2>3
    <3>2. e \in s.skipped_keys
      BY DEF CacheHits
    <3> QED BY <1>1, <3>1, <3>2 DEF GoodState, SpentOK, WithHits
  <2>4. Outcome(p, m, t, spent, ok)
    BY <1>5, <2>1, <2>2, <2>3 DEF Outcome, WithHits
  <2>5. ok \in BOOLEAN
    OBVIOUS
  <2> QED BY <2>4, <2>5
<1>8. CASE DecryptOldChainTooLong(p, m, h)
  <2>1. UNCHANGED <<session, keygen>> /\ Deliver(p, m, FALSE)
    BY <1>8 DEF DecryptOldChainTooLong
  <2>2. session' = [session EXCEPT ![p] = s]
    BY <1>1, <2>1 DEF TypeOK
  <2>3. GoodState(p, s, K)
    BY <1>1
  <2>4. Outcome(p, m, s, K, FALSE)
    BY <1>5, <2>1, <2>2, <2>3 DEF Outcome
  <2> QED BY <2>4
<1>9. CASE DecryptSkipRejected(p, m, h)
  <2>1. /\ session' = [session EXCEPT ![p] = r] /\ GenKeyFor(p, h) /\ Deliver(p, m, FALSE)
    BY <1>9 DEF DecryptSkipRejected
  <2>2. GoodState(p, r, K)
    BY <1>6
  <2>3. Outcome(p, m, r, K, FALSE)
    BY <1>5, <1>6, <2>1, <2>2 DEF Outcome
  <2> QED BY <2>3
<1>10. CASE DecryptAdvance(p, m, h, intact)
  <2> DEFINE t == AfterAdvance(r, h)
             spent == WithTried(K, r, h)
             ok == intact /\ AdvanceKey(r, h) = m.mk
  <2>1. /\ ~SkipRejects(r, h.message_number)
        /\ session' = [session EXCEPT ![p] = t] /\ GenKeyFor(p, h) /\ Deliver(p, m, ok)
    BY <1>10 DEF DecryptAdvance
  <2>2. GoodState(p, r, K)
    BY <1>6
  <2>3. /\ GoodState(p, t, spent)
        /\ t.root_key = r.root_key /\ t.sending_chain_key = r.sending_chain_key
    BY <1>2, <2>1, <2>2, AdvanceGood
  <2>4. AdvanceKey(r, h) \notin K
    BY <1>2, <2>1, <2>2, AdvanceKeyFresh
  <2>5. Outcome(p, m, t, spent, ok)
    BY <1>5, <1>6, <2>1, <2>3, <2>4 DEF Outcome, WithTried
  <2>6. ok \in BOOLEAN
    OBVIOUS
  <2> QED BY <2>5, <2>6
<1>11. CASE DecryptStepFails(p, m, h)
  <2> DEFINE t == AfterFailedStep(s, h)
  <2>1. session' = [session EXCEPT ![p] = t] /\ UNCHANGED keygen /\ Deliver(p, m, FALSE)
    BY <1>11 DEF DecryptStepFails
  <2>2. /\ GoodState(p, t, K)
        /\ t.root_key = s.root_key /\ t.sending_chain_key = s.sending_chain_key
    BY <1>1, <1>2, FailedStepGood
  <2>3. Outcome(p, m, t, K, FALSE)
    BY <1>5, <2>1, <2>2 DEF Outcome
  <2> QED BY <2>3
<1> QED BY <1>7, <1>8, <1>9, <1>10, <1>11 DEF Decrypt

\* decrypt preserves the invariant.
LEMMA DecryptInv ==
    ASSUME RatchetInv, NEW p \in Party, NEW m \in network,
           NEW h \in MessageHeader, NEW intact \in BOOLEAN, Decrypt(p, m, h, intact)
    PROVE  RatchetInv'
<1>0. PICK t, spent : \E ok \in BOOLEAN : Outcome(p, m, t, spent, ok)
  BY DecryptOutcome
<1>1. PICK ok \in BOOLEAN : Outcome(p, m, t, spent, ok)
  BY <1>0
<1>2. TypeOK
  BY DEF RatchetInv
<1>3. /\ m.from = Peer(p)
      /\ delivered' = [delivered EXCEPT ![p] = @ \cup {m}]
      /\ accepted' = IF ok THEN [accepted EXCEPT ![p] = @ \cup {m}] ELSE accepted
      /\ returned' = IF ok THEN [returned EXCEPT ![p] = @ + 1] ELSE returned
      /\ sends' = sends /\ network' = network
  BY <1>1 DEF Outcome, Deliver
<1>4. t \in RatchetState /\ session' = [session EXCEPT ![p] = t]
  BY <1>1 DEF Outcome, GoodState
<1>5. TypeOK'
  <2>1. session' \in [Party -> RatchetState]
    BY <1>2, <1>4 DEF TypeOK
  <2>2. delivered' \in [Party -> SUBSET network]
    BY <1>2, <1>3 DEF TypeOK
  <2>3. accepted' \in [Party -> SUBSET network]
    BY <1>2, <1>3 DEF TypeOK
  <2>4. returned' \in [Party -> Nat]
    BY <1>2, <1>3 DEF TypeOK
  <2>5. keygen' \in [Party -> Nat]
    BY <1>1 DEF Outcome
  <2> QED BY <1>2, <1>3, <2>1, <2>2, <2>3, <2>4, <2>5 DEF TypeOK
<1>6. \A q \in Party : session'[q] = IF q = p THEN t ELSE session[q]
  BY <1>2, <1>4 DEF TypeOK
<1>7. \A q \in Party : accepted'[q] = IF q = p /\ ok THEN accepted[p] \cup {m} ELSE accepted[q]
  BY <1>2, <1>3 DEF TypeOK
<1>8. ASSUME NEW q \in Party
      PROVE  GoodState(q, session'[q], AcceptedKeys(q)')
  <2>1. CASE q = p
    <3>1. AcceptedKeys(p)' \in SUBSET spent
      BY <1>1, <1>7 DEF Outcome, AcceptedKeys
    <3>2. GoodState(p, t, spent)
      BY <1>1 DEF Outcome
    <3>3. GoodState(p, t, AcceptedKeys(p)')
      BY <3>1, <3>2, GoodWithLess
    <3> QED BY <1>6, <2>1, <3>3
  <2>2. CASE q # p
    BY <1>6, <1>7, <2>2 DEF RatchetInv, AcceptedKeys
  <2> QED BY <2>1, <2>2
<1>9. \A q \in Party : \A x \in accepted'[q] : x.from = Peer(q)
  BY <1>3, <1>7 DEF RatchetInv
<1>10. ASSUME NEW x \in network
       PROVE  SentOK(x)'
  <2>1. SentOK(x) /\ x.from \in Party /\ x.mk[1] \in RootKeys
    BY <1>2 DEF RatchetInv, TypeOK, Messages, MsgKeys
  <2>2. Len(x.mk[1]) \in Nat
    BY <2>1 DEF RootKeys
  <2>3. CASE x.from # p
    BY <1>3, <1>6, <2>1, <2>3 DEF SentOK
  <2>4. CASE x.from = p
    <3>1. session'[x.from] = t
      BY <1>6, <2>4
    <3>2. session[p].root_key \in RootKeys
      BY <1>2 DEF TypeOK, RatchetState
    <3>3. Len(session[p].root_key) \in Nat
      BY <3>2 DEF RootKeys
    <3>4. CASE t.root_key = session[p].root_key
                 /\ t.sending_chain_key = session[p].sending_chain_key
      BY <1>3, <2>1, <2>4, <3>1, <3>4 DEF SentOK
    <3>5. CASE Len(t.root_key) = Len(session[p].root_key) + 2
      <4>1. Len(x.mk[1]) < Len(session'[x.from].root_key)
        BY <2>1, <2>2, <2>4, <3>1, <3>3, <3>5 DEF SentOK
      <4>2. Len(x.mk[1]) <= Len(session'[x.from].root_key)
        BY <2>2, <3>1, <3>3, <3>5, <4>1
      <4>3. Len(x.mk[1]) # Len(session'[x.from].root_key)
        BY <2>2, <3>1, <3>3, <3>5, <4>1
      <4> QED BY <1>3, <2>1, <4>2, <4>3 DEF SentOK
    <3> QED BY <1>1, <3>4, <3>5 DEF Outcome
  <2> QED BY <2>3, <2>4
<1>11. (\A x \in network : SentOK(x))'
  BY <1>3, <1>10
<1>12. UniqueMessageKeys' /\ UniqueNumbers'
  BY <1>3 DEF RatchetInv, UniqueMessageKeys, UniqueNumbers
<1> QED BY <1>5, <1>8, <1>9, <1>11, <1>12 DEF RatchetInv

\* A message arrives with a header of the right form, damaged or not.
LEMMA SomeDecrypt ==
    ASSUME TypeOK, NEW p \in Party, NEW m \in network,
           \/ Decrypt(p, m, m.header, TRUE)
           \/ Damage /\ \E h \in DamagedHeaders, intact \in BOOLEAN : Decrypt(p, m, h, intact)
    PROVE  \E h \in MessageHeader, intact \in BOOLEAN : Decrypt(p, m, h, intact)
<1>1. m.header \in MessageHeader /\ \A x \in network : x.header \in MessageHeader
  BY DEF TypeOK, Messages
<1>2. DamagedHeaders \subseteq MessageHeader
  BY <1>1 DEF DamagedHeaders, MessageHeader, Keys
<1>3. CASE Decrypt(p, m, m.header, TRUE)
  BY <1>1, <1>3
<1>4. CASE \E h \in DamagedHeaders, intact \in BOOLEAN : Decrypt(p, m, h, intact)
  BY <1>2, <1>4
<1> QED BY <1>3, <1>4

\* A step is a call of encrypt or a call of decrypt.
LEMMA Steps ==
    ASSUME TypeOK, Next
    PROVE  \E p \in Party :
              \/ Encrypt(p)
              \/ \E m \in network, h \in MessageHeader, intact \in BOOLEAN : Decrypt(p, m, h, intact)
<1>1. PICK p \in Party :
         \/ Encrypt(p)
         \/ \E m \in network :
               \/ Decrypt(p, m, m.header, TRUE)
               \/ Damage /\ \E h \in DamagedHeaders, intact \in BOOLEAN : Decrypt(p, m, h, intact)
  BY DEF Next
<1> QED BY <1>1, SomeDecrypt

\* RatchetInv holds throughout every behaviour.
THEOREM Invariance == Spec => []RatchetInv
<1>1. ASSUME RatchetInv, [Next]_vars
      PROVE  RatchetInv'
  <2>1. CASE Next
    <3>1. PICK p \in Party :
             \/ Encrypt(p)
             \/ \E m \in network, h \in MessageHeader, intact \in BOOLEAN : Decrypt(p, m, h, intact)
      BY <1>1, <2>1, Steps DEF RatchetInv
    <3>2. CASE Encrypt(p)
      BY <1>1, <3>2, EncryptInv
    <3>3. CASE \E m \in network, h \in MessageHeader, intact \in BOOLEAN : Decrypt(p, m, h, intact)
      BY <1>1, <3>3, DecryptInv
    <3> QED BY <3>1, <3>2, <3>3
  <2>2. CASE UNCHANGED vars
    BY <1>1, <2>2 DEF vars, RatchetInv, TypeOK, GoodState, SendingOK, ReceivingOK,
                      SpentOK, Past, AcceptedKeys, SentOK, UniqueMessageKeys, UniqueNumbers
  <2> QED BY <1>1, <2>1, <2>2
<1> QED BY <1>1, InitInv, PTL DEF Spec

\* Both RatchetStates, and all bookkeeping, keep their types.
THEOREM TypeCorrect == Spec => []TypeOK
<1>1. RatchetInv => TypeOK
  BY DEF RatchetInv
<1> QED BY <1>1, Invariance, PTL

\* encrypt never seals two messages with the same key, on either side, however
\* often either side has ratcheted.
THEOREM NoKeyReuse == Spec => []UniqueMessageKeys
<1>1. RatchetInv => UniqueMessageKeys
  BY DEF RatchetInv
<1> QED BY <1>1, Invariance, PTL

\* In a good state decrypt does not open what is sealed with a spent key.
LEMMA SpentNeverOpens ==
    ASSUME NEW p \in Party, NEW s, NEW K \in SUBSET MsgKeys, GoodState(p, s, K),
           NEW h \in MessageHeader, NEW k \in K, NEW nk \in Keys
    PROVE  ~Opens(s, h, k, nk)
<1>1. CASE CacheHits(s, h) # {}
  BY <1>1 DEF Opens, CacheHits, GoodState, SpentOK
<1>2. CASE CacheHits(s, h) = {}
  <2> DEFINE t == AfterRatchet(s, h, nk)
  <2> SUFFICES ASSUME ~SkipRejects(t, h.message_number)
               PROVE  AdvanceKey(t, h) # k
    BY <1>2 DEF Opens
  <2>1. GoodState(p, t, K)
    BY RatchetGood
  <2> QED BY <2>1, AdvanceKeyFresh
<1> QED BY <1>1, <1>2

\* A message decrypt has accepted is never accepted again.
THEOREM ReplaySafe == Spec => []ReplayRejected
<1>1. RatchetInv => ReplayRejected
  <2> SUFFICES ASSUME RatchetInv, NEW p \in Party, NEW m \in accepted[p]
               PROVE  ~Opens(session[p], m.header, m.mk, FreshKey(p))
    BY DEF ReplayRejected
  <2>1. TypeOK /\ GoodState(p, session[p], AcceptedKeys(p))
    BY DEF RatchetInv
  <2>2. m \in Messages /\ m.header \in MessageHeader /\ m.mk \in AcceptedKeys(p)
    BY <2>1 DEF TypeOK, Messages, AcceptedKeys
  <2>3. AcceptedKeys(p) \in SUBSET MsgKeys
    BY <2>1 DEF TypeOK, AcceptedKeys, Messages
  <2>4. FreshKey(p) \in Keys
    BY <2>1 DEF FreshKey, TypeOK, Keys
  <2> QED BY <2>1, <2>2, <2>3, <2>4, SpentNeverOpens
<1> QED BY <1>1, Invariance, PTL

\* The state kept after a message was sent or accepted does not yield its key.
THEOREM ForwardSecret == Spec => []ForwardSecrecy
<1>1. RatchetInv => ForwardSecrecy
  <2> SUFFICES ASSUME RatchetInv, NEW p \in Party, NEW m \in network,
                      m.from = p \/ m \in accepted[p]
               PROVE  ~Derivable(session[p], m.mk)
    BY DEF ForwardSecrecy
  <2> DEFINE s == session[p]
             L == Len(m.mk[1])
             R == Len(s.root_key)
  <2>1. TypeOK /\ SentOK(m) /\ s \in RatchetState
    BY DEF RatchetInv, TypeOK
  <2>2. SendingOK(p, s) /\ ReceivingOK(p, s) /\ SpentOK(s, AcceptedKeys(p))
    BY DEF RatchetInv, GoodState
  <2>3. m.from \in Party /\ m.mk[1] \in RootKeys /\ m.mk[2] \in Nat /\ s.root_key \in RootKeys
    BY <2>1 DEF TypeOK, Messages, MsgKeys, RatchetState
  <2>4. L \in Nat /\ R \in Nat
    BY <2>3 DEF RootKeys
  <2>5. R % 2 = Par(p) /\ L % 2 = Par(m.from)
    BY <2>1, <2>2 DEF SendingOK, SentOK
  <2>6. /\ s.sending_chain_key # None => s.sending_chain_key.n \in Nat
        /\ s.receiving_chain_key # None => s.receiving_chain_key.n \in Nat
    BY <2>1 DEF RatchetState, ChainKeys
  <2>7. CASE m.from = p
    <3>1. \A e \in s.skipped_keys : e.mk # m.mk
      BY <2>2, <2>5, <2>7 DEF ReceivingOK
    <3>2. ASSUME s.sending_chain_key # None, s.sending_chain_key.chain = m.mk[1],
                 s.sending_chain_key.n <= m.mk[2]
          PROVE  FALSE
      <4>1. s.root_key = m.mk[1]
        BY <2>2, <3>2 DEF SendingOK
      <4>2. m.mk[2] < s.sending_chain_key.n
        BY <2>1, <2>7, <4>1 DEF SentOK
      <4> QED BY <2>3, <2>6, <3>2, <4>2
    <3>3. ASSUME s.receiving_chain_key # None, s.receiving_chain_key.chain = m.mk[1]
          PROVE  FALSE
      <4>1. L + 1 = R
        BY <2>2, <3>3 DEF ReceivingOK
      <4>2. (L + 1) % 2 # L % 2
        BY <2>4, ParityFlips
      <4> QED BY <2>5, <2>7, <4>1, <4>2
    <3> QED BY <3>1, <3>2, <3>3 DEF Derivable
  <2>8. CASE m.from # p
    <3>1. m \in accepted[p] /\ m.mk \in AcceptedKeys(p)
      BY <2>8 DEF AcceptedKeys
    <3>2. Past(s, m.mk) /\ \A e \in s.skipped_keys : e.mk # m.mk
      BY <2>2, <3>1 DEF SpentOK
    <3>3. ASSUME s.sending_chain_key # None, s.sending_chain_key.chain = m.mk[1]
          PROVE  FALSE
      <4>1. L = R
        BY <2>2, <3>3 DEF SendingOK
      <4> QED BY <2>4, <3>2, <4>1 DEF Past
    <3>4. ASSUME s.receiving_chain_key # None, s.receiving_chain_key.chain = m.mk[1],
                 s.receiving_chain_key.n <= m.mk[2]
          PROVE  FALSE
      <4>1. L + 1 = R
        BY <2>2, <3>4 DEF ReceivingOK
      <4> QED BY <2>3, <2>4, <2>6, <3>2, <3>4, <4>1 DEF Past
    <3> QED BY <3>2, <3>3, <3>4 DEF Derivable
  <2> QED BY <2>7, <2>8
<1> QED BY <1>1, Invariance, PTL

-----------------------------------------------------------------------------
(* Refinement *)

\* The session is an at-most-once channel: a call of encrypt is a Send, a call
\* of decrypt is the first Read of a message that was sent, or nothing.
THEOREM Refinement == Spec => ImplementsChannel
<1> DEFINE got == [p \in Party |-> {<<m.from, m.seq>> : m \in accepted[p]}]
<1>1. Init => Channel!ChanInit
  BY DEF Init, Channel!ChanInit, Channel!Ends
<1>2. ASSUME RatchetInv, [Next]_vars
      PROVE  [Channel!ChanNext]_(Channel!chanVars)
  <2>1. TypeOK
    BY <1>2 DEF RatchetInv
  <2>2. ASSUME NEW p \in Party, Encrypt(p)
        PROVE  Channel!Send(p)
    BY <2>2 DEF Encrypt, Channel!Send
  <2>3. ASSUME NEW p \in Party, NEW m \in network, NEW h \in MessageHeader,
               NEW intact \in BOOLEAN, Decrypt(p, m, h, intact)
        PROVE  \/ UNCHANGED Channel!chanVars
               \/ \E q \in Channel!Ends : \E i \in 0 .. (sends[q] - 1) : Channel!Read(p, q, i)
    <3>0. PICK t, spent : \E ok \in BOOLEAN : Outcome(p, m, t, spent, ok)
      BY <1>2, <2>3, DecryptOutcome
    <3>1. PICK ok \in BOOLEAN : Outcome(p, m, t, spent, ok)
      BY <3>0
    <3>2. CASE ~ok
      BY <3>1, <3>2 DEF Outcome, Deliver, Channel!chanVars
    <3>3. CASE ok
      <4>1. /\ m.from = Peer(p)
            /\ accepted' = [accepted EXCEPT ![p] = @ \cup {m}]
            /\ returned' = [returned EXCEPT ![p] = @ + 1]
            /\ sends' = sends
        BY <3>1, <3>3 DEF Outcome, Deliver
      <4>2. m.from \in Party /\ m.from # p /\ m.seq \in Nat
        BY <2>1, <4>1 DEF Peer, TypeOK, Messages
      <4>3. m.seq < sends[m.from] /\ sends[m.from] \in Nat
        BY <1>2, <2>1, <4>2 DEF RatchetInv, SentOK, TypeOK
      <4>4. <<m.from, m.seq>> \notin got[p]
        <5> SUFFICES ASSUME NEW x \in accepted[p], <<x.from, x.seq>> = <<m.from, m.seq>>
                     PROVE  FALSE
          OBVIOUS
        <5>1. x \in network
          BY <2>1 DEF TypeOK
        <5>2. x = m
          BY <1>2, <5>1 DEF RatchetInv, UniqueNumbers
        <5> QED BY <3>1, <3>3, <5>2 DEF Outcome, AcceptedKeys
      <4>5. got' = [got EXCEPT ![p] = @ \cup {<<m.from, m.seq>>}]
        <5>1. accepted \in [Party -> SUBSET network]
          BY <2>1 DEF TypeOK
        <5> QED BY <4>1, <5>1
      <4>6. Channel!Read(p, m.from, m.seq)
        BY <4>1, <4>2, <4>3, <4>4, <4>5 DEF Channel!Read
      <4>7. m.from \in Channel!Ends /\ m.seq \in 0 .. (sends[m.from] - 1)
        BY <4>2, <4>3 DEF Channel!Ends
      <4> QED BY <4>6, <4>7
    <3> QED BY <3>2, <3>3
  <2>4. CASE UNCHANGED vars
    BY <2>4 DEF vars, Channel!chanVars
  <2>5. CASE Next
    <3>1. PICK p \in Party :
             \/ Encrypt(p)
             \/ \E m \in network, h \in MessageHeader, intact \in BOOLEAN : Decrypt(p, m, h, intact)
      BY <2>1, <2>5, Steps
    <3>2. p \in Channel!Ends
      BY DEF Channel!Ends
    <3>3. CASE Encrypt(p)
      BY <2>2, <3>2, <3>3 DEF Channel!ChanNext
    <3>4. CASE \E m \in network, h \in MessageHeader, intact \in BOOLEAN : Decrypt(p, m, h, intact)
      <4>1. \/ UNCHANGED Channel!chanVars
            \/ \E q \in Channel!Ends : \E i \in 0 .. (sends[q] - 1) : Channel!Read(p, q, i)
        BY <2>3, <3>4
      <4> QED BY <3>2, <4>1 DEF Channel!ChanNext
    <3> QED BY <3>1, <3>3, <3>4
  <2> QED BY <1>2, <2>4, <2>5
<1> QED BY <1>1, <1>2, Invariance, PTL DEF Spec, ImplementsChannel, Channel!ChanSpec

-----------------------------------------------------------------------------
(* A relay that neither damages messages nor delivers again what was read. *)
(* The chains of the session form one line: chain k hangs off the k-th     *)
(* root key, sent on by Bob if k is even and by Alice if it is odd.  Below *)
(* K is the line of their ratchet keys and N a set of messages, all that   *)
(* were sent on these chains.                                              *)

\* No two chains have the same key, and every key is one a party generated.
Line(K) ==
    /\ K \in [Nat -> Party \X Nat]
    /\ \A i, j \in Nat : K[i] = K[j] => i = j

\* The line of a session whose processes never end: Bob's signed prekey, then
\* Alice's first key, Bob's second one, and so on in turn.
Turns == [k \in Nat |-> <<IF k % 2 = 1 THEN Alice ELSE Bob, k \div 2>>]

\* The k-th root key, if each DH output mixes the keys of two neighbouring chains.
Root(K, k) == [i \in 1 .. k |-> {K[i - 1], K[i]}]

\* The number of the chain that message m was sent on.
Chain(m) == Len(m.mk[1])

\* The messages on the k-th chain with numbers from a on and below b.
OnChain(N, k, i, j) == {m \in N : Chain(m) = k /\ i <= m.mk[2] /\ m.mk[2] < j}

\* The messages numbered below n on the k-th chain are all there is of it.
ChainIs(N, K, k, n) ==
    /\ \A m \in N : Chain(m) = k => m.mk[2] < n
    /\ \A i \in 0 .. (n - 1) : \E m \in N : m.mk = <<Root(K, k), i>>

\* Both chains are at the position of their next message's number.
Aligned(s) ==
    /\ s.sending_chain_key # None => s.sending_chain_key.n = s.send_message_number
    /\ s.receiving_chain_key # None => s.receiving_chain_key.n = s.recv_message_number

\* s is the state of a party with the k-th root key.
Tracks(K, s, k) ==
    /\ s.root_key = Root(K, k)
    /\ s.sending_keypair = K[k]
    /\ s.remote_ratchet_key = IF k = 0 THEN None ELSE K[k - 1]
    /\ s.sending_chain_key = None <=> k = 0
    /\ s.receiving_chain_key = None <=> k < 2
    /\ k >= 2 => s.receiving_chain_key.chain = Root(K, k - 1)
    /\ k < 2 => s.recv_message_number = 0
    /\ Aligned(s)

\* The chain s receives on has every message s has counted.
Counted(N, K, s, k) ==
    \A i \in 0 .. (s.recv_message_number - 1) : \E m \in N : m.mk = <<Root(K, k - 1), i>>

\* The cache entry for message m.
CacheEntry(m) == [pk |-> m.header.ratchet_public_key, n |-> m.header.message_number, mk |-> m.mk]

\* Message key mk comes before the next one s expects.
Behind(s, mk) ==
    \/ Len(mk[1]) + 1 < Len(s.root_key)
    \/ Len(mk[1]) + 1 = Len(s.root_key) /\ mk[2] < s.recv_message_number

\* The messages for p that the state s has moved past.
Passed(N, p, s) == {m \in N : m.from = Peer(p) /\ Behind(s, m.mk)}

\* The cache of s is that of the messages passed over and not in A.
Pending(N, p, s, A) == s.skipped_keys = {CacheEntry(m) : m \in Passed(N, p, s) \ A}

\* The header says where the message is, and how long the chain before it is.
HeaderOK(N, K, m) ==
    /\ Chain(m) >= 1 /\ m.mk[1] = Root(K, Chain(m))
    /\ m.header.ratchet_public_key = K[Chain(m)]
    /\ m.header.message_number = m.mk[2]
    /\ Chain(m) >= 2 => ChainIs(N, K, Chain(m) - 2, m.header.previous_chain_length)
    /\ \A i \in 0 .. (m.mk[2] - 1) : \E x \in N : x.mk = <<m.mk[1], i>>

\* How many DH outputs p's root key has.
Depth(p) == Len(session[p].root_key)

\* p's chains, counters and cache are those of the Depth(p)-th root key.
PartyOK(p) ==
    /\ Tracks(Turns, session[p], Depth(p))
    /\ Counted(network, Turns, session[p], Depth(p))
    /\ keygen[p] = (Depth(p) \div 2) + 1
    /\ ChainIs(network, Turns, Depth(p), session[p].send_message_number)
    /\ Depth(p) >= 2 => ChainIs(network, Turns, Depth(p) - 2, session[p].previous_chain_length)
    /\ Pending(network, p, session[p], accepted[p])
    /\ accepted[p] \subseteq delivered[p]

\* Both parties are where the chains say, one of them one DH output ahead.
HonestInv ==
    /\ RatchetInv
    /\ \E p \in Party : Depth(p) = Depth(Peer(p)) + 1
    /\ \A m \in network : HeaderOK(network, Turns, m)
    /\ \A p \in Party : PartyOK(p)

-----------------------------------------------------------------------------
(* Keys and roots *)

\* The turns of the two parties are such a line.
LEMMA TurnsLine == Line(Turns)
<1>1. ASSUME NEW k \in Nat PROVE Turns[k] \in Party \X Nat
  <2>1. k \div 2 \in Nat
    OBVIOUS
  <2> QED BY <2>1 DEF Turns
<1>2. ASSUME NEW i \in Nat, NEW j \in Nat, Turns[i] = Turns[j]
      PROVE  i = j
  <2>1. i \div 2 = j \div 2 /\ (i % 2 = 1 <=> j % 2 = 1)
    BY <1>2 DEF Turns
  <2>2. \A n \in Nat : n % 2 \in {0, 1} /\ n = 2 * (n \div 2) + (n % 2)
    OBVIOUS
  <2> QED BY <2>1, <2>2
<1>3. Turns = [k \in Nat |-> Turns[k]]
  BY DEF Turns
<1> QED BY <1>1, <1>2, <1>3 DEF Line

\* In turn, the keys of p's chains are the ones p generates, in order.
LEMMA OwnKeys ==
    ASSUME NEW p \in Party, NEW k \in Nat, k % 2 = Par(p)
    PROVE  Turns[k] = <<p, k \div 2>> /\ Turns[k + 2] = <<p, (k \div 2) + 1>>
<1>1. (k + 2) % 2 = k % 2 /\ (k + 2) \div 2 = (k \div 2) + 1
  OBVIOUS
<1>2. (k % 2 = 1) <=> p = Alice
  BY DEF Par
<1>3. p = Alice \/ p = Bob
  OBVIOUS
<1> QED BY <1>1, <1>2, <1>3 DEF Turns

\* The keys of a line are ratchet keys, which every DH accepts.
LEMMA LineTypes ==
    ASSUME NEW K, Line(K), NEW k \in Nat
    PROVE  K[k] \in Keys /\ ~DhRejects(K[k])
BY DEF Line, Keys, DhRejects

\* Each of them belongs to one chain.
LEMMA LineNames ==
    ASSUME NEW K, Line(K), NEW i \in Nat, NEW j \in Nat, K[i] = K[j]
    PROVE  i = j
BY DEF Line

\* Root(K, k) is a root key that k DH outputs were mixed into.
LEMMA RootType ==
    ASSUME NEW K, Line(K), NEW k \in Nat
    PROVE  Root(K, k) \in RootKeys /\ Len(Root(K, k)) = k
<1>1. \A i \in 1 .. k : {K[i - 1], K[i]} \in SUBSET Keys
  <2> SUFFICES ASSUME NEW i \in 1 .. k PROVE K[i - 1] \in Keys /\ K[i] \in Keys
    OBVIOUS
  <2>1. i \in Nat /\ i - 1 \in Nat
    OBVIOUS
  <2> QED BY <2>1, LineTypes
<1>2. Root(K, k) \in [1 .. k -> SUBSET Keys]
  BY <1>1 DEF Root
<1> QED BY <1>2 DEF RootKeys

\* One KDF step with the keys of the next two chains, whoever computes it, gives the next root.
LEMMA NextRoot ==
    ASSUME NEW K, Line(K), NEW k \in Nat
    PROVE  /\ kdf_rk(Root(K, k), dh_exchange(K[k], K[k + 1])) = Root(K, k + 1)
           /\ kdf_rk(Root(K, k), dh_exchange(K[k + 1], K[k])) = Root(K, k + 1)
<1> DEFINE S == SUBSET Keys
           r == Root(K, k)
           t == Root(K, k + 1)
           d == {K[k], K[k + 1]}
           u == Append(r, d)
<1>1. r \in Seq(S) /\ Len(r) = k /\ t \in Seq(S) /\ Len(t) = k + 1
  <2>1. k + 1 \in Nat
    OBVIOUS
  <2> QED BY <2>1, RootType DEF RootKeys
<1>2. d \in S
  BY LineTypes
<1>3. /\ \A i \in 1 .. k : r[i] = {K[i - 1], K[i]}
      /\ \A i \in 1 .. (k + 1) : t[i] = {K[i - 1], K[i]}
  BY DEF Root
<1>4. t[k + 1] = d
  <2>1. k + 1 \in 1 .. (k + 1) /\ (k + 1) - 1 = k
    OBVIOUS
  <2> QED BY <1>3, <2>1
<1>5. ASSUME NEW i \in 1 .. k PROVE t[i] = r[i]
  <2>1. i \in 1 .. (k + 1)
    OBVIOUS
  <2> QED BY <1>3, <2>1
<1> HIDE DEF r, t, d, S
<1>6. /\ u \in Seq(S) /\ Len(u) = k + 1
      /\ \A i \in 1 .. k : u[i] = r[i]
      /\ u[k + 1] = d
  BY <1>1, <1>2, AppendProperties
<1>7. \A i \in 1 .. Len(u) : u[i] = t[i]
  <2>1. \A i \in 1 .. (k + 1) : i \in 1 .. k \/ i = k + 1
    OBVIOUS
  <2> HIDE DEF u
  <2> QED BY <1>4, <1>5, <1>6, <2>1
<1>8. u = t
  <2> HIDE DEF u
  <2> QED BY <1>1, <1>6, <1>7, SeqEqual
<1>9. {K[k], K[k + 1]} = {K[k + 1], K[k]}
  OBVIOUS
<1> QED BY <1>8, <1>9 DEF kdf_rk, dh_exchange, r, t, d

-----------------------------------------------------------------------------
(* What a state of decrypt knows of the chains, and what each stage of decrypt does to it *)

\* What N looks like if every chain is the expected one.
NetworkOK(N, K) ==
    /\ N \subseteq Messages
    /\ \A x, y \in N : x.mk = y.mk => x = y
    /\ \A m \in N : HeaderOK(N, K, m) /\ Chain(m) % 2 = Par(m.from)

\* The state s of party p, which has the k-th root key and has accepted A.
View(N, K, p, s, k, A) ==
    /\ GoodState(p, s, {})
    /\ k \in Nat
    /\ Tracks(K, s, k)
    /\ Counted(N, K, s, k)
    /\ A \subseteq Passed(N, p, s)
    /\ Pending(N, p, s, A)

\* Types of what N holds.
LEMMA NetworkTypes ==
    ASSUME NEW N, NEW K, Line(K), NetworkOK(N, K), NEW m \in N
    PROVE  /\ m \in Messages /\ m.from \in Party /\ m.header \in MessageHeader
           /\ m.mk \in MsgKeys /\ Chain(m) \in Nat /\ m.mk[2] \in Nat
           /\ m.mk = <<Root(K, Chain(m)), m.mk[2]>>
           /\ Chain(m) >= 1 /\ Chain(m) % 2 = Par(m.from)
           /\ CacheEntry(m).pk = K[Chain(m)] /\ CacheEntry(m).n = m.mk[2] /\ CacheEntry(m).mk = m.mk
           /\ m.header.ratchet_public_key = K[Chain(m)] /\ m.header.message_number = m.mk[2]
<1>1. m \in Messages /\ HeaderOK(N, K, m) /\ Chain(m) % 2 = Par(m.from)
  BY DEF NetworkOK
<1>2. m.from \in Party /\ m.header \in MessageHeader /\ m.mk \in MsgKeys
  BY <1>1 DEF Messages
<1>3. m.mk[1] \in RootKeys /\ m.mk[2] \in Nat /\ m.mk = <<m.mk[1], m.mk[2]>>
  BY <1>2 DEF MsgKeys
<1>4. Chain(m) \in Nat
  BY <1>3 DEF Chain, RootKeys
<1>5. /\ m.mk[1] = Root(K, Chain(m)) /\ Chain(m) >= 1
      /\ m.header.ratchet_public_key = K[Chain(m)] /\ m.header.message_number = m.mk[2]
  BY <1>1 DEF HeaderOK
<1> QED BY <1>1, <1>2, <1>3, <1>4, <1>5 DEF CacheEntry

\* A header names one message.
LEMMA HeaderNames ==
    ASSUME NEW N, NEW K, Line(K), NetworkOK(N, K), NEW x \in N, NEW y \in N,
           CacheEntry(x).pk = CacheEntry(y).pk, CacheEntry(x).n = CacheEntry(y).n
    PROVE  x = y
<1>1. K[Chain(x)] = K[Chain(y)] /\ x.mk[2] = y.mk[2]
  BY NetworkTypes
<1>2. Chain(x) = Chain(y)
  BY <1>1, NetworkTypes, LineNames
<1>3. x.mk = y.mk
  BY <1>1, <1>2, NetworkTypes
<1> QED BY <1>3 DEF NetworkOK

\* So does a position on a chain.
LEMMA PlaceNames ==
    ASSUME NEW N, NEW K, Line(K), NetworkOK(N, K), NEW x \in N, NEW y \in N,
           Chain(x) = Chain(y), x.mk[2] = y.mk[2]
    PROVE  x = y
<1>1. x.mk = y.mk
  BY NetworkTypes
<1> QED BY <1>1 DEF NetworkOK

\* The messages on a chain are those of one party.
LEMMA ChainOwner ==
    ASSUME NEW N, NEW K, Line(K), NetworkOK(N, K),
           NEW p \in Party, NEW m \in N, NEW k \in Nat, k % 2 = Par(p),
           Chain(m) + 1 = k \/ Chain(m) = k + 1
    PROVE  m.from = Peer(p)
<1>1. Chain(m) \in Nat /\ Chain(m) % 2 = Par(m.from) /\ m.from \in Party
  BY NetworkTypes
<1>2. Chain(m) % 2 # k % 2
  <2>1. CASE Chain(m) + 1 = k
    BY <1>1, <2>1, ParityFlips
  <2>2. CASE Chain(m) = k + 1
    BY <1>1, <2>2, ParityFlips
  <2> QED BY <2>1, <2>2
<1>3. m.from # p
  BY <1>1, <1>2
<1> QED BY <1>1, <1>3 DEF Peer

\* A message for p that s has moved past is in the cache, or was accepted; one that
\* is still ahead is not in the cache.
LEMMA Hits ==
    ASSUME NEW N, NEW K, Line(K), NetworkOK(N, K),
           NEW p \in Party, NEW s, NEW k, NEW A, View(N, K, p, s, k, A),
           NEW m \in N, m.from = Peer(p), m \notin A
    PROVE  CacheHits(s, m.header) = IF m \in Passed(N, p, s) THEN {CacheEntry(m)} ELSE {}
<1>1. s.skipped_keys = {CacheEntry(x) : x \in Passed(N, p, s) \ A}
  BY DEF View, Pending
<1>2. m.header.ratchet_public_key = CacheEntry(m).pk /\ m.header.message_number = CacheEntry(m).n
  BY DEF CacheEntry
<1>3. ASSUME NEW e \in CacheHits(s, m.header)
      PROVE  e = CacheEntry(m) /\ m \in Passed(N, p, s)
  <2>1. e \in s.skipped_keys /\ e.pk = CacheEntry(m).pk /\ e.n = CacheEntry(m).n
    BY <1>2 DEF CacheHits
  <2>2. PICK x \in Passed(N, p, s) \ A : e = CacheEntry(x)
    BY <1>1, <2>1
  <2>3. x = m
    BY <2>1, <2>2, HeaderNames DEF Passed
  <2> QED BY <2>2, <2>3
<1>4. m \in Passed(N, p, s) => CacheEntry(m) \in CacheHits(s, m.header)
  BY <1>1, <1>2 DEF CacheHits
<1> QED BY <1>3, <1>4

\* Which messages a state with the k-th root key has moved past.
LEMMA BehindAt ==
    ASSUME NEW K, Line(K), NEW s, NEW k \in Nat, s.root_key = Root(K, k), NEW m
    PROVE  Behind(s, m.mk) <=> \/ Chain(m) + 1 < k
                               \/ Chain(m) + 1 = k /\ m.mk[2] < s.recv_message_number
BY RootType DEF Behind, Chain

\* What lies behind the receiving chain comes before the next message expected.
LEMMA PastBehind ==
    ASSUME NEW K, NEW s, NEW k, Tracks(K, s, k), NEW mk, Past(s, mk)
    PROVE  Behind(s, mk)
BY DEF Past, Behind, Tracks, Aligned

\* Skipping ahead on a chain whose messages are there: the cache gets the entries of
\* those passed over.
LEMMA SkipView ==
    ASSUME NEW N, NEW K, Line(K), NetworkOK(N, K),
           NEW p \in Party, NEW s, NEW k, NEW A, View(N, K, p, s, k, A), k >= 2,
           NEW until \in Nat, until >= s.recv_message_number,
           \A i \in s.recv_message_number .. (until - 1) :
              \E m \in N : m.mk = <<Root(K, k - 1), i>>
    PROVE  View(N, K, p, [CacheSkipped(s, until) EXCEPT !.recv_message_number = until], k, A)
<1> DEFINE c == CacheSkipped(s, until)
           t == [c EXCEPT !.recv_message_number = until]
           ck == s.receiving_chain_key
           recv == s.recv_message_number
           NewEntry(i) == [pk |-> s.remote_ratchet_key, n |-> i, mk |-> MessageKey(ck, i - recv)]
           new == {NewEntry(i) : i \in Skipped(s, until)}
           replaced == {e \in s.skipped_keys : e.pk = s.remote_ratchet_key /\ e.n \in Skipped(s, until)}
<1>1. /\ GoodState(p, s, {}) /\ k \in Nat /\ Tracks(K, s, k) /\ Counted(N, K, s, k)
      /\ A \subseteq Passed(N, p, s) /\ Pending(N, p, s, A) /\ s \in RatchetState
  BY DEF View, GoodState
<1>2. /\ s.root_key = Root(K, k) /\ s.remote_ratchet_key = K[k - 1]
      /\ ck # None /\ ck.chain = Root(K, k - 1) /\ recv \in Nat /\ ck.n = recv /\ ck \in ChainKeys
      /\ k - 1 \in Nat
  <2>1. k - 1 \in Nat /\ k # 0 /\ ~(k < 2)
    BY <1>1
  <2>2. ck # None
    BY <1>1, <2>1 DEF Tracks
  <2>3. ck \in ChainKeys /\ recv \in Nat
    BY <1>1, <2>2 DEF RatchetState
  <2> QED BY <1>1, <2>1, <2>2, <2>3 DEF Tracks, Aligned
<1>3. s.remote_ratchet_key # None
  BY <1>2, LineTypes
<1>4. GoodState(p, t, {})
  BY <1>1, <1>2, <1>3, SkipGood
<1>5. c \in RatchetState
  BY <1>1, <1>2, <1>3, CacheSkippedType
<1>6. /\ t.root_key = s.root_key /\ t.sending_chain_key = s.sending_chain_key
      /\ t.sending_keypair = s.sending_keypair /\ t.remote_ratchet_key = s.remote_ratchet_key
      /\ t.recv_message_number = until /\ t.send_message_number = s.send_message_number
      /\ t.receiving_chain_key = kdf_ck(ck, until - recv)
  BY <1>1, <1>5, CacheSkippedFields DEF RatchetState
<1>7. t.skipped_keys = (s.skipped_keys \ replaced) \cup new
  <2>1. t.skipped_keys = c.skipped_keys
    BY <1>5 DEF RatchetState
  <2>2. c.skipped_keys = (s.skipped_keys \ replaced) \cup new
    BY <1>1 DEF CacheSkipped, RatchetState
  <2> QED BY <2>1, <2>2
<1>8. Tracks(K, t, k)
  <2>1. /\ kdf_ck(ck, until - recv) \in ChainKeys /\ kdf_ck(ck, until - recv).chain = ck.chain
        /\ kdf_ck(ck, until - recv).n = until
    BY <1>2 DEF kdf_ck, ChainKeys
  <2>2. /\ t.receiving_chain_key # None /\ t.receiving_chain_key.chain = ck.chain
        /\ t.receiving_chain_key.n = until
    BY <1>6, <2>1
  <2> HIDE DEF t
  <2>3. Aligned(t)
    BY <1>1, <1>6, <2>2 DEF Tracks, Aligned
  <2> QED BY <1>1, <1>2, <1>6, <2>2, <2>3 DEF Tracks
<1>9. Counted(N, K, t, k)
  <2> SUFFICES ASSUME NEW i \in 0 .. (until - 1)
               PROVE  \E m \in N : m.mk = <<Root(K, k - 1), i>>
    BY <1>6 DEF Counted
  <2>1. CASE i \in 0 .. (recv - 1)
    BY <1>1, <2>1 DEF Counted
  <2>2. CASE i \in recv .. (until - 1)
    BY <2>2
  <2> QED BY <1>2, <2>1, <2>2
<1>10. ASSUME NEW m \in N
       PROVE  Behind(t, m.mk) <=> \/ Behind(s, m.mk)
                                  \/ Chain(m) + 1 = k /\ recv <= m.mk[2] /\ m.mk[2] < until
  <2>1. Chain(m) \in Nat /\ m.mk[2] \in Nat
    BY NetworkTypes
  <2>2. Behind(s, m.mk) <=> Chain(m) + 1 < k \/ (Chain(m) + 1 = k /\ m.mk[2] < recv)
    BY <1>1, <1>2, BehindAt
  <2>3. Behind(t, m.mk) <=> Chain(m) + 1 < k \/ (Chain(m) + 1 = k /\ m.mk[2] < until)
    <3> HIDE DEF t
    <3> QED BY <1>1, <1>2, <1>6, BehindAt
  <2> QED BY <1>1, <1>2, <2>1, <2>2, <2>3
<1>11. A \subseteq Passed(N, p, t)
  BY <1>1, <1>10 DEF Passed
<1>12. ASSUME NEW i \in Skipped(s, until), NEW m \in N, m.mk = <<Root(K, k - 1), i>>
       PROVE  /\ NewEntry(i) = CacheEntry(m) /\ m.from = Peer(p)
              /\ Chain(m) + 1 = k /\ recv <= m.mk[2] /\ m.mk[2] < until
  <2>1. i \in Nat /\ recv <= i /\ i < until
    BY <1>2 DEF Skipped
  <2>2. MessageKey(ck, i - recv) = <<Root(K, k - 1), i>>
    BY <1>2, <2>1 DEF MessageKey
  <2>3. m.mk[1] = Root(K, k - 1) /\ m.mk[2] = i
    BY <1>12
  <2>4. Chain(m) = k - 1
    BY <1>2, <2>3, RootType DEF Chain
  <2>5. m.header.ratchet_public_key = K[k - 1] /\ m.header.message_number = i
    BY <2>3, <2>4, NetworkTypes
  <2>6. NewEntry(i) = CacheEntry(m)
    BY <1>2, <1>12, <2>2, <2>5 DEF CacheEntry
  <2>7. k % 2 = Par(p)
    BY <1>1, <1>2, RootType DEF GoodState, SendingOK
  <2>8. Chain(m) + 1 = k
    BY <1>1, <2>4
  <2>9. m.from = Peer(p)
    BY <1>1, <2>7, <2>8, ChainOwner
  <2> QED BY <2>1, <2>3, <2>6, <2>8, <2>9
<1>13. s.skipped_keys = {CacheEntry(m) : m \in Passed(N, p, s) \ A}
  BY <1>1 DEF Pending
<1>14. ASSUME NEW e \in t.skipped_keys
       PROVE  \E m \in Passed(N, p, t) \ A : e = CacheEntry(m)
  <2>1. CASE e \in s.skipped_keys
    <3>1. PICK m \in Passed(N, p, s) \ A : e = CacheEntry(m)
      BY <1>13, <2>1
    <3>2. m \in Passed(N, p, t)
      BY <1>10 DEF Passed
    <3> QED BY <3>1, <3>2
  <2>2. CASE e \in new
    <3>1. PICK i \in Skipped(s, until) : e = NewEntry(i)
      BY <2>2
    <3>2. PICK m \in N : m.mk = <<Root(K, k - 1), i>>
      BY <3>1 DEF Skipped
    <3>3. /\ NewEntry(i) = CacheEntry(m) /\ m.from = Peer(p)
          /\ Chain(m) + 1 = k /\ recv <= m.mk[2] /\ m.mk[2] < until
      BY <1>12, <3>2
    <3>4. m \in Passed(N, p, t)
      BY <1>10, <3>3 DEF Passed
    <3>5. ~Behind(s, m.mk)
      <4>1. Chain(m) \in Nat /\ m.mk[2] \in Nat
        BY NetworkTypes
      <4>2. Behind(s, m.mk) <=> Chain(m) + 1 < k \/ (Chain(m) + 1 = k /\ m.mk[2] < recv)
        BY <1>1, <1>2, BehindAt
      <4> QED BY <1>1, <1>2, <3>3, <4>1, <4>2
    <3>6. m \notin A
      BY <1>1, <3>5 DEF Passed
    <3> QED BY <3>1, <3>3, <3>4, <3>6
  <2> QED BY <1>7, <2>1, <2>2
<1>15. ASSUME NEW m \in Passed(N, p, t) \ A
       PROVE  CacheEntry(m) \in t.skipped_keys
  <2>1. m \in N /\ m.from = Peer(p) /\ Behind(t, m.mk)
    BY DEF Passed
  <2>2. /\ Chain(m) \in Nat /\ m.mk[2] \in Nat /\ m.mk = <<Root(K, Chain(m)), m.mk[2]>>
        /\ CacheEntry(m).pk = K[Chain(m)] /\ CacheEntry(m).n = m.mk[2] /\ CacheEntry(m).mk = m.mk
    BY <2>1, NetworkTypes
  <2>3. CASE Behind(s, m.mk)
    <3>1. CacheEntry(m) \in s.skipped_keys
      BY <1>13, <2>1, <2>3 DEF Passed
    <3>2. ASSUME CacheEntry(m).pk = s.remote_ratchet_key, CacheEntry(m).n \in Skipped(s, until)
          PROVE  FALSE
      <4>1. Chain(m) = k - 1
        <5>1. K[Chain(m)] = K[k - 1]
          BY <1>2, <2>2, <3>2
        <5> QED BY <1>2, <2>2, <5>1, LineNames
      <4>2. m.mk[2] >= recv
        BY <1>2, <2>2, <3>2 DEF Skipped
      <4>3. Chain(m) + 1 < k \/ (Chain(m) + 1 = k /\ m.mk[2] < recv)
        BY <1>1, <1>2, <2>3, BehindAt
      <4> QED BY <1>1, <1>2, <2>2, <4>1, <4>2, <4>3
    <3> QED BY <1>7, <3>1, <3>2
  <2>4. CASE ~Behind(s, m.mk)
    <3>1. Chain(m) + 1 = k /\ recv <= m.mk[2] /\ m.mk[2] < until
      BY <1>10, <2>1, <2>4
    <3>2. m.mk[2] \in Skipped(s, until)
      BY <1>2, <2>2, <3>1 DEF Skipped
    <3>3. m.mk = <<Root(K, k - 1), m.mk[2]>>
      <4>1. Chain(m) = k - 1
        BY <1>1, <2>2, <3>1
      <4> QED BY <2>2, <4>1
    <3>4. NewEntry(m.mk[2]) = CacheEntry(m)
      BY <1>12, <2>1, <3>2, <3>3
    <3> QED BY <1>7, <3>2, <3>4
  <2> QED BY <2>3, <2>4
<1>16. Pending(N, p, t, A)
  BY <1>14, <1>15 DEF Pending
<1> QED BY <1>1, <1>4, <1>8, <1>9, <1>11, <1>16 DEF View

\* A DH step to the peer's next chain, once all of the chain before it is behind.
LEMMA StepView ==
    ASSUME NEW N, NEW K, Line(K), NetworkOK(N, K),
           NEW p \in Party, NEW s, NEW k, NEW A, View(N, K, p, s, k, A),
           \A m \in N : Chain(m) + 1 = k => m.mk[2] < s.recv_message_number
    PROVE  View(N, K, p, dh_ratchet_step(s, K[k + 1], K[k + 2]), k + 2, A)
<1> DEFINE t == dh_ratchet_step(s, K[k + 1], K[k + 2])
           r1 == kdf_rk(s.root_key, dh_exchange(s.sending_keypair, K[k + 1]))
           r2 == kdf_rk(r1, dh_exchange(K[k + 2], K[k + 1]))
<1>1. /\ GoodState(p, s, {}) /\ k \in Nat /\ Tracks(K, s, k)
      /\ A \subseteq Passed(N, p, s) /\ Pending(N, p, s, A) /\ s \in RatchetState
  BY DEF View, GoodState
<1>2. /\ k + 1 \in Nat /\ k + 2 \in Nat /\ (k + 1) + 1 = k + 2 /\ (k + 2) - 1 = k + 1
      /\ k + 2 >= 2 /\ k + 2 # 0 /\ ~(k + 2 < 2)
  BY <1>1
<1>3. K[k + 1] \in Keys /\ K[k + 2] \in Keys
  BY <1>2, LineTypes
<1>4. GoodState(p, t, {})
  BY <1>1, <1>3, StepGood
<1>5. r1 = Root(K, k + 1)
  BY <1>1, NextRoot DEF Tracks
<1>6. r2 = Root(K, k + 2)
  BY <1>2, <1>5, NextRoot
<1>7. /\ t.root_key = r2 /\ t.sending_keypair = K[k + 2]
      /\ t.remote_ratchet_key = K[k + 1]
      /\ t.sending_chain_key = NewChain(r2) /\ t.receiving_chain_key = NewChain(r1)
      /\ t.recv_message_number = 0 /\ t.send_message_number = 0 /\ t.skipped_keys = s.skipped_keys
  BY <1>1 DEF dh_ratchet_step, NewRootsAndChains, RatchetState
<1>8. NewChain(r2) \in ChainKeys /\ NewChain(r1) \in ChainKeys /\ NewChain(r1).chain = r1
  BY <1>2, <1>5, <1>6, RootType DEF NewChain, ChainKeys
<1>9. Tracks(K, t, k + 2)
  <2> HIDE DEF t, r1, r2
  <2>1. Aligned(t)
    BY <1>7 DEF Aligned, NewChain
  <2> QED BY <1>2, <1>5, <1>6, <1>7, <1>8, <2>1 DEF Tracks
<1>10. Counted(N, K, t, k + 2)
  BY <1>7 DEF Counted
<1>11. Passed(N, p, t) = Passed(N, p, s)
  <2> SUFFICES ASSUME NEW m \in N, m.from = Peer(p)
               PROVE  Behind(t, m.mk) <=> Behind(s, m.mk)
    BY DEF Passed
  <2>1. /\ Chain(m) \in Nat /\ m.mk[2] \in Nat /\ Chain(m) % 2 = Par(m.from)
    BY NetworkTypes
  <2>2. Behind(s, m.mk) <=> Chain(m) + 1 < k \/ (Chain(m) + 1 = k /\ m.mk[2] < s.recv_message_number)
    BY <1>1, BehindAt DEF Tracks
  <2>3. Behind(t, m.mk) <=> Chain(m) + 1 < k + 2 \/ (Chain(m) + 1 = k + 2 /\ m.mk[2] < 0)
    <3> HIDE DEF t
    <3> QED BY <1>2, <1>6, <1>7, BehindAt
  <2>4. Chain(m) # k
    <3>1. k % 2 = Par(p)
      BY <1>1, RootType DEF GoodState, SendingOK, Tracks
    <3>2. Par(Peer(p)) # Par(p)
      BY DEF Peer, Par
    <3> QED BY <2>1, <3>1, <3>2
  <2> QED BY <1>1, <2>1, <2>2, <2>3, <2>4
<1>12. A \subseteq Passed(N, p, t) /\ Pending(N, p, t, A)
  BY <1>1, <1>7, <1>11 DEF Pending
<1> QED BY <1>2, <1>4, <1>9, <1>10, <1>12 DEF View

\* Reading message m of the chain that s receives on.
LEMMA AdvanceView ==
    ASSUME NEW N, NEW K, Line(K), NetworkOK(N, K),
           NEW p \in Party, NEW s, NEW k, NEW A, View(N, K, p, s, k, A), k >= 2,
           NEW m \in N, m.from = Peer(p), Chain(m) + 1 = k,
           ~SkipRejects(s, m.header.message_number)
    PROVE  /\ AdvanceKey(s, m.header) = m.mk
           /\ View(N, K, p, AfterAdvance(s, m.header), k, A \cup {m})
<1> DEFINE h == m.header
           n == h.message_number
           c == CacheSkipped(s, n)
           u == [c EXCEPT !.recv_message_number = n]
           t == AfterAdvance(s, h)
           B == A \cup {m}
<1>1. /\ GoodState(p, s, {}) /\ k \in Nat /\ k - 1 \in Nat /\ Tracks(K, s, k) /\ s \in RatchetState
      /\ s.root_key = Root(K, k)
  BY DEF View, GoodState, Tracks
<1>2. /\ h \in MessageHeader /\ n \in Nat /\ n = m.mk[2] /\ m.mk = <<Root(K, k - 1), n>>
      /\ Chain(m) \in Nat
  <2>1. Chain(m) = k - 1 /\ Chain(m) \in Nat
    BY <1>1, NetworkTypes
  <2> QED BY <2>1, NetworkTypes
<1>3. s.receiving_chain_key.chain = Root(K, k - 1)
  BY <1>1 DEF Tracks
<1>4. AdvanceKey(s, h) = m.mk
  <2> DEFINE ck == s.receiving_chain_key
             recv == s.recv_message_number
  <2>1. AdvanceKey(s, h) = <<ck.chain, ck.n + (n - recv)>>
    BY <1>1, <1>2, AdvanceKeyFresh
  <2>2. ck.n = recv /\ recv \in Nat
    BY <1>1 DEF Tracks, Aligned, SkipRejects, RatchetState
  <2>3. recv + (n - recv) = n
    <3> HIDE DEF n
    <3> QED BY <1>2, <2>2
  <2> QED BY <1>2, <1>3, <2>1, <2>2, <2>3
<1>5. n >= s.recv_message_number /\ s.recv_message_number \in Nat
  BY <1>1, <1>2 DEF SkipRejects, RatchetState
<1>6. View(N, K, p, u, k, A)
  <2>1. \A i \in 0 .. (m.mk[2] - 1) : \E x \in N : x.mk = <<m.mk[1], i>>
    BY DEF NetworkOK, HeaderOK
  <2>2. m.mk[1] = Root(K, k - 1)
    BY <1>2
  <2> HIDE DEF n
  <2>3. \A i \in 0 .. (n - 1) : \E x \in N : x.mk = <<Root(K, k - 1), i>>
    BY <1>2, <2>1, <2>2
  <2>4. \A i \in s.recv_message_number .. (n - 1) : i \in 0 .. (n - 1)
    BY <1>2, <1>5
  <2>5. \A i \in s.recv_message_number .. (n - 1) : \E x \in N : x.mk = <<Root(K, k - 1), i>>
    BY <2>3, <2>4
  <2> QED BY <1>2, <1>5, <2>5, SkipView
<1>7. c \in RatchetState
  BY <1>1, <1>2, <1>5, CacheSkippedType DEF SkipRejects
<1>8. /\ u.root_key = c.root_key /\ u.sending_chain_key = c.sending_chain_key
      /\ u.sending_keypair = c.sending_keypair /\ u.remote_ratchet_key = c.remote_ratchet_key
      /\ u.receiving_chain_key = c.receiving_chain_key
      /\ u.recv_message_number = n /\ u.skipped_keys = c.skipped_keys
      /\ u.send_message_number = c.send_message_number
  BY <1>7 DEF RatchetState
<1>9. /\ t.root_key = u.root_key /\ t.sending_chain_key = u.sending_chain_key
      /\ t.sending_keypair = u.sending_keypair /\ t.remote_ratchet_key = u.remote_ratchet_key
      /\ t.receiving_chain_key = kdf_ck(u.receiving_chain_key, 1)
      /\ t.recv_message_number = n + 1 /\ t.skipped_keys = u.skipped_keys
      /\ t.send_message_number = u.send_message_number
  BY <1>7, <1>8 DEF AfterAdvance, RatchetState
<1>10. GoodState(p, t, {})
  <2>1. GoodState(p, t, WithTried({}, s, h))
    BY <1>1, <1>2, AdvanceGood
  <2> QED BY <2>1, GoodWithLess
<1>11. Tracks(K, u, k) /\ Counted(N, K, u, k) /\ A \subseteq Passed(N, p, u) /\ Pending(N, p, u, A)
       /\ u \in RatchetState
  BY <1>6 DEF View, GoodState
<1> HIDE DEF u, t, c
<1>12. Tracks(K, t, k)
  <2>1. u.receiving_chain_key # None /\ u.receiving_chain_key.chain = Root(K, k - 1)
    BY <1>1, <1>11 DEF Tracks
  <2>2. u.receiving_chain_key \in ChainKeys
    BY <1>11, <2>1 DEF RatchetState
  <2>3. /\ kdf_ck(u.receiving_chain_key, 1) \in ChainKeys
        /\ kdf_ck(u.receiving_chain_key, 1).chain = u.receiving_chain_key.chain
        /\ kdf_ck(u.receiving_chain_key, 1).n = u.receiving_chain_key.n + 1
    BY <2>2 DEF kdf_ck, ChainKeys
  <2>4. t.receiving_chain_key # None /\ t.receiving_chain_key.chain = Root(K, k - 1)
    BY <1>9, <2>1, <2>3
  <2>5. Aligned(t)
    BY <1>8, <1>9, <1>11, <2>1, <2>3 DEF Tracks, Aligned
  <2> QED BY <1>1, <1>9, <1>11, <2>4, <2>5 DEF Tracks
<1>13. Counted(N, K, t, k)
  <2>0. t.recv_message_number - 1 = n
    <3> HIDE DEF n
    <3> QED BY <1>2, <1>9
  <2> SUFFICES ASSUME NEW i \in 0 .. n
               PROVE  \E x \in N : x.mk = <<Root(K, k - 1), i>>
    BY <2>0 DEF Counted
  <2>1. CASE i = n
    BY <1>2, <2>1
  <2>2. CASE i # n
    <3>1. i \in 0 .. (n - 1)
      BY <1>2, <2>2
    <3> QED BY <1>8, <1>11, <3>1 DEF Counted
  <2> QED BY <2>1, <2>2
<1>14. Passed(N, p, t) = Passed(N, p, u) \cup {m} /\ m \notin Passed(N, p, u)
  <2>1. ASSUME NEW x \in N
        PROVE  /\ Behind(u, x.mk) <=> Chain(x) + 1 < k \/ (Chain(x) + 1 = k /\ x.mk[2] < n)
               /\ Behind(t, x.mk) <=> Chain(x) + 1 < k \/ (Chain(x) + 1 = k /\ x.mk[2] < n + 1)
    <3>1. u.root_key = Root(K, k) /\ t.root_key = Root(K, k)
      BY <1>9, <1>11 DEF Tracks
    <3> QED BY <1>1, <1>8, <1>9, <3>1, BehindAt
  <2>2. ASSUME NEW x \in N
        PROVE  Behind(t, x.mk) <=> Behind(u, x.mk) \/ (Chain(x) + 1 = k /\ x.mk[2] = n)
    <3>1. Chain(x) \in Nat /\ x.mk[2] \in Nat
      BY NetworkTypes
    <3> QED BY <1>1, <1>2, <2>1, <3>1
  <2>3. ASSUME NEW x \in N, Chain(x) + 1 = k, x.mk[2] = n
        PROVE  x = m
    <3>1. Chain(x) \in Nat
      BY NetworkTypes
    <3>2. Chain(x) = Chain(m) /\ x.mk[2] = m.mk[2]
      BY <1>1, <1>2, <2>3, <3>1
    <3> QED BY <3>2, PlaceNames
  <2>4. Behind(t, m.mk) /\ ~Behind(u, m.mk)
    <3>1. m.mk[2] = n /\ n \in Nat /\ Chain(m) + 1 = k
      BY <1>2
    <3>2. ~(Chain(m) + 1 < k) /\ ~(n < n) /\ n < n + 1
      <4> HIDE DEF n
      <4> QED BY <1>1, <1>2
    <3> QED BY <2>1, <3>1, <3>2
  <2> QED BY <2>2, <2>3, <2>4 DEF Passed
<1>15. B \subseteq Passed(N, p, t) /\ Pending(N, p, t, B)
  <2>1. Passed(N, p, t) \ B = Passed(N, p, u) \ A
    BY <1>14
  <2> QED BY <1>9, <1>11, <1>14, <2>1 DEF Pending
<1> QED BY <1>1, <1>4, <1>10, <1>12, <1>13, <1>15 DEF View, t

\* Reading message m with its key from the cache.
LEMMA HitView ==
    ASSUME NEW N, NEW K, Line(K), NetworkOK(N, K),
           NEW p \in Party, NEW s, NEW k, NEW A, View(N, K, p, s, k, A),
           NEW m \in N, m \in Passed(N, p, s), m \notin A
    PROVE  View(N, K, p, AfterCacheHit(s, m.header), k, A \cup {m})
<1> DEFINE h == m.header
           t == AfterCacheHit(s, h)
           B == A \cup {m}
<1>1. /\ GoodState(p, s, {}) /\ k \in Nat /\ Tracks(K, s, k) /\ Counted(N, K, s, k)
      /\ A \subseteq Passed(N, p, s) /\ Pending(N, p, s, A) /\ s \in RatchetState
  BY DEF View, GoodState
<1>2. CacheHits(s, h) = {CacheEntry(m)}
  <2>1. m.from = Peer(p)
    BY DEF Passed
  <2> QED BY <2>1, Hits
<1>3. /\ t.root_key = s.root_key /\ t.sending_chain_key = s.sending_chain_key
      /\ t.sending_keypair = s.sending_keypair /\ t.remote_ratchet_key = s.remote_ratchet_key
      /\ t.receiving_chain_key = s.receiving_chain_key
      /\ t.recv_message_number = s.recv_message_number
      /\ t.send_message_number = s.send_message_number
      /\ t.skipped_keys = s.skipped_keys \ {CacheEntry(m)}
  BY <1>1, <1>2 DEF AfterCacheHit, RatchetState
<1>4. GoodState(p, t, {})
  <2>1. GoodState(p, t, WithHits({}, s, h))
    BY <1>1, CacheHitGood
  <2> QED BY <2>1, GoodWithLess
<1> HIDE DEF t
<1>5. Tracks(K, t, k) /\ Counted(N, K, t, k) /\ Passed(N, p, t) = Passed(N, p, s)
  BY <1>1, <1>3 DEF Tracks, Aligned, Counted, Passed, Behind
<1>6. Pending(N, p, t, B)
  <2>1. s.skipped_keys = {CacheEntry(x) : x \in Passed(N, p, s) \ A}
    BY <1>1 DEF Pending
  <2>2. \A x \in Passed(N, p, s) : CacheEntry(x) = CacheEntry(m) => x = m
    BY HeaderNames DEF Passed
  <2>3. s.skipped_keys \ {CacheEntry(m)} = {CacheEntry(x) : x \in Passed(N, p, s) \ B}
    BY <2>1, <2>2
  <2> QED BY <1>3, <1>5, <2>3 DEF Pending
<1> QED BY <1>1, <1>4, <1>5, <1>6 DEF View, t

\* A DH step for message m of the peer's next chain: what is left of the old chain is
\* as long as the header says.
LEMMA RatchetView ==
    ASSUME NEW N, NEW K, Line(K), NetworkOK(N, K),
           NEW p \in Party, NEW s, NEW k, NEW A, View(N, K, p, s, k, A),
           NEW m \in N, m.from = Peer(p), Chain(m) = k + 1
    PROVE  /\ NeedRatchet(s, m.header)
           /\ RatchetRejects(s, m.header) <=>
                 k >= 2 /\ m.header.previous_chain_length - s.recv_message_number > MAX_SKIP
           /\ k >= 2 => /\ ChainIs(N, K, k - 1, m.header.previous_chain_length)
                        /\ m.header.previous_chain_length >= s.recv_message_number
           /\ View(N, K, p, AfterRatchet(s, m.header, K[k + 2]), k + 2, A)
<1> DEFINE h == m.header
           until == h.previous_chain_length
           recv == s.recv_message_number
           u == skip_message_keys_for_current_chain(s, until)
<1>1. /\ k \in Nat /\ k + 1 \in Nat /\ Tracks(K, s, k) /\ Counted(N, K, s, k) /\ s \in RatchetState
      /\ recv \in Nat
  BY DEF View, GoodState, RatchetState
<1>2. until \in Nat /\ h.ratchet_public_key = K[k + 1]
  BY NetworkTypes DEF MessageHeader
<1>3. NeedRatchet(s, h)
  <2>1. CASE k = 0
    <3>1. s.remote_ratchet_key = None
      BY <1>1, <2>1 DEF Tracks
    <3> QED BY <1>1, <1>2, <3>1, LineTypes DEF NeedRatchet
  <2>2. CASE k # 0
    <3>1. s.remote_ratchet_key = K[k - 1] /\ k - 1 \in Nat /\ k - 1 # k + 1
      BY <1>1, <2>2 DEF Tracks
    <3> QED BY <1>1, <1>2, <3>1, LineNames DEF NeedRatchet
  <2> QED BY <2>1, <2>2
<1>4. AfterRatchet(s, h, K[k + 2]) = dh_ratchet_step(u, K[k + 1], K[k + 2])
  BY <1>2, <1>3 DEF AfterRatchet
<1>5. CASE k < 2
  <2>1. s.receiving_chain_key = None
    BY <1>1, <1>5 DEF Tracks
  <2>2. ~OldChainOpen(s, until)
    BY <2>1 DEF OldChainOpen
  <2>3. u = s
    BY <2>2 DEF skip_message_keys_for_current_chain
  <2>4. \A x \in N : Chain(x) + 1 # k
    BY <1>1, <1>5, NetworkTypes
  <2>5. View(N, K, p, dh_ratchet_step(s, K[k + 1], K[k + 2]), k + 2, A)
    BY <2>4, StepView
  <2>6. ~RatchetRejects(s, h)
    BY <2>2 DEF RatchetRejects, OldChainRejects
  <2>7. ~(k >= 2)
    BY <1>1, <1>5
  <2> QED BY <1>3, <1>4, <2>3, <2>5, <2>6, <2>7
<1>6. CASE k >= 2
  <2>1. ChainIs(N, K, k - 1, until)
    <3>1. HeaderOK(N, K, m) /\ Chain(m) >= 2 /\ Chain(m) - 2 = k - 1
      BY <1>1, <1>6 DEF NetworkOK
    <3> QED BY <3>1 DEF HeaderOK
  <2>2. k - 1 \in Nat
    BY <1>1, <1>6
  <2>3. until >= recv
    <3> SUFFICES ASSUME until < recv PROVE FALSE
      BY <1>1, <1>2
    <3>1. until \in 0 .. (recv - 1)
      BY <1>1, <1>2
    <3>2. PICK x \in N : x.mk = <<Root(K, k - 1), until>>
      BY <1>1, <3>1 DEF Counted
    <3>3. Chain(x) = k - 1 /\ x.mk[2] = until
      BY <2>2, <3>2, RootType DEF Chain
    <3>4. x.mk[2] < until
      BY <2>1, <3>3 DEF ChainIs
    <3> QED BY <1>2, <3>3, <3>4
  <2>4. s.receiving_chain_key # None /\ s.remote_ratchet_key # None
    <3>1. k # 0 /\ ~(k < 2)
      BY <1>1, <1>6
    <3> QED BY <1>1, <2>2, <3>1, LineTypes DEF Tracks
  <2>5. OldChainOpen(s, until)
    BY <2>3, <2>4 DEF OldChainOpen
  <2>6. u = [CacheSkipped(s, until) EXCEPT !.recv_message_number = until]
    BY <2>5 DEF skip_message_keys_for_current_chain
  <2>7. View(N, K, p, u, k, A)
    <3>1. \A i \in recv .. (until - 1) : i \in 0 .. (until - 1)
      BY <1>1, <1>2
    <3>2. \A i \in recv .. (until - 1) : \E x \in N : x.mk = <<Root(K, k - 1), i>>
      BY <2>1, <3>1 DEF ChainIs
    <3> HIDE DEF until, u
    <3> QED BY <1>2, <1>6, <2>3, <2>6, <3>2, SkipView
  <2>8. u.recv_message_number = until
    <3>1. CacheSkipped(s, until) \in RatchetState
      BY <1>1, <1>2, <2>3, <2>4, CacheSkippedType
    <3> QED BY <2>6, <3>1 DEF RatchetState
  <2>9. \A x \in N : Chain(x) + 1 = k => x.mk[2] < u.recv_message_number
    <3>1. \A x \in N : Chain(x) + 1 = k => Chain(x) = k - 1
      BY <1>1, NetworkTypes
    <3> QED BY <2>1, <2>8, <3>1 DEF ChainIs
  <2>10. View(N, K, p, dh_ratchet_step(u, K[k + 1], K[k + 2]), k + 2, A)
    <3> HIDE DEF u
    <3> QED BY <2>7, <2>9, StepView
  <2>11. RatchetRejects(s, h) <=> until - recv > MAX_SKIP
    BY <1>3, <2>5 DEF RatchetRejects, OldChainRejects, TooManySkipped
  <2> QED BY <1>3, <1>4, <1>6, <2>1, <2>3, <2>10, <2>11
<1>7. k < 2 \/ k >= 2
  BY <1>1
<1> QED BY <1>5, <1>6, <1>7

\* The k-th chain has every message from the i-th on and before the j-th.
Filled(N, K, k, i, j) == \A a \in i .. (j - 1) : \E m \in N : m.mk = <<Root(K, k), a>>

\* A stretch of a chain without holes has as many messages as numbers.
LEMMA Stretch ==
    ASSUME NEW N, NEW K, Line(K), NetworkOK(N, K), NEW k \in Nat, NEW i \in Nat, NEW j \in Nat, i <= j,
           Filled(N, K, k, i, j)
    PROVE  Cardinality(OnChain(N, k, i, j)) = j - i
<1> DEFINE At(a) == CHOOSE m \in N : m.mk = <<Root(K, k), a>>
           I == i .. (j - 1)
           T == OnChain(N, k, i, j)
           f == [a \in I |-> At(a)]
<1>1. ASSUME NEW a \in I
      PROVE  At(a) \in N /\ At(a).mk = <<Root(K, k), a>> /\ At(a).mk[2] = a /\ Chain(At(a)) = k
             /\ i <= a /\ a < j
  <2>1. At(a) \in N /\ At(a).mk = <<Root(K, k), a>>
    BY DEF Filled
  <2>2. At(a).mk[1] = Root(K, k) /\ At(a).mk[2] = a
    BY <2>1
  <2>3. Chain(At(a)) = k
    BY <2>2, RootType DEF Chain
  <2>4. i <= a /\ a < j
    OBVIOUS
  <2> QED BY <2>1, <2>2, <2>3, <2>4
<1> HIDE DEF At
<1>2. f \in [I -> T]
  BY <1>1 DEF OnChain
<1>3. \A a, b \in I : f[a] = f[b] => a = b
  BY <1>1
<1>4. ASSUME NEW m \in T PROVE \E a \in I : f[a] = m
  <2>1. m \in N /\ Chain(m) = k /\ i <= m.mk[2] /\ m.mk[2] < j /\ m.mk[2] \in Nat
    BY NetworkTypes DEF OnChain
  <2>2. m.mk[2] \in I
    BY <2>1
  <2>3. At(m.mk[2]) = m
    BY <1>1, <2>1, <2>2, PlaceNames
  <2> QED BY <2>2, <2>3
<1>5. f \in Bijection(I, T)
  <2>1. DOMAIN f = I
    OBVIOUS
  <2> HIDE DEF f, I, T
  <2>2. IsInjective(f)
    BY <1>3, <2>1 DEF IsInjective
  <2> QED BY <1>2, <1>4, <2>2 DEF Bijection, Injection, Surjection
<1>6. ExistsBijection(I, T)
  BY <1>5 DEF ExistsBijection
<1>7. IsFiniteSet(I) /\ Cardinality(I) = j - i
  <2>0. i \in Int /\ j - 1 \in Int
    OBVIOUS
  <2>1. IsFiniteSet(I) /\ Cardinality(I) = IF i > j - 1 THEN 0 ELSE (j - 1) - i + 1
    BY <2>0, FS_Interval
  <2> QED BY <2>1
<1> HIDE DEF I, T
<1>8. Cardinality(T) = Cardinality(I)
  BY <1>6, <1>7, FS_Bijection
<1> QED BY <1>7, <1>8 DEF T

\* Whether decrypt opens a message of the chain that s receives on.
LEMMA AdvanceOpens ==
    ASSUME NEW N, NEW K, Line(K), NetworkOK(N, K),
           NEW p \in Party, NEW s, NEW k, NEW A, View(N, K, p, s, k, A), k >= 2,
           NEW m \in N, m.from = Peer(p), Chain(m) + 1 = k,
           m.header.message_number >= s.recv_message_number
    PROVE  (~SkipRejects(s, m.header.message_number) /\ AdvanceKey(s, m.header) = m.mk)
              <=> m.header.message_number - s.recv_message_number <= MAX_SKIP
<1> DEFINE n == m.header.message_number
<1>1. /\ k \in Nat /\ k - 1 \in Nat /\ k # 0 /\ ~(k < 2) /\ Tracks(K, s, k)
      /\ s.recv_message_number \in Nat /\ n \in Nat
  BY NetworkTypes DEF View, GoodState, RatchetState, MessageHeader
<1>2. s.remote_ratchet_key # None /\ s.receiving_chain_key # None
  BY <1>1, LineTypes DEF Tracks
<1>3. SkipRejects(s, n) <=> n - s.recv_message_number > MAX_SKIP
  BY <1>1, <1>2 DEF SkipRejects, TooManySkipped
<1>4. ASSUME ~SkipRejects(s, m.header.message_number)
      PROVE  AdvanceKey(s, m.header) = m.mk
  <2>1. GoodState(p, s, {}) /\ m.header \in MessageHeader
    BY NetworkTypes DEF View
  <2>2. AdvanceKey(s, m.header) = <<s.receiving_chain_key.chain, m.header.message_number>>
    <3> DEFINE ck == s.receiving_chain_key
               recv == s.recv_message_number
    <3>1. AdvanceKey(s, m.header) = <<ck.chain, ck.n + (n - recv)>>
      BY <1>4, <2>1, AdvanceKeyFresh
    <3>2. ck.n = recv
      BY <1>1, <1>2 DEF Tracks, Aligned
    <3>3. recv + (n - recv) = n
      <4> HIDE DEF n
      <4> QED BY <1>1
    <3> QED BY <3>1, <3>2, <3>3
  <2>3. m.mk = <<Root(K, Chain(m)), m.header.message_number>> /\ Chain(m) = k - 1
    BY <1>1, NetworkTypes
  <2> QED BY <1>1, <2>2, <2>3 DEF Tracks
<1> HIDE DEF n
<1>5. (n - s.recv_message_number > MAX_SKIP) <=> ~(n - s.recv_message_number <= MAX_SKIP)
  BY <1>1
<1> QED BY <1>3, <1>4, <1>5 DEF n

\* Which messages decrypt opens, in the numbers of their headers.
LEMMA OpensView ==
    ASSUME NEW N, NEW K, Line(K), NetworkOK(N, K),
           NEW p \in Party, NEW s, NEW k, NEW A, View(N, K, p, s, k, A),
           NEW m \in N, m.from = Peer(p), m \notin A
    PROVE  LET n == m.header.message_number
               pcl == m.header.previous_chain_length
               recv == s.recv_message_number
               opens == Opens(s, m.header, m.mk, K[k + 2])
           IN  /\ m \in Passed(N, p, s) => opens
               /\ m \notin Passed(N, p, s) /\ Chain(m) + 1 = k
                     => n >= recv /\ (opens <=> n - recv <= MAX_SKIP)
               /\ Chain(m) = k + 1
                     => (opens <=> n <= MAX_SKIP /\ (k >= 2 => pcl - recv <= MAX_SKIP))
<1>0. PICK h, n, recv, nk, pcl :
         /\ h = m.header /\ n = m.header.message_number /\ pcl = m.header.previous_chain_length
         /\ recv = s.recv_message_number /\ nk = K[k + 2]
  OBVIOUS
<1>1. /\ k \in Nat /\ k % 2 = Par(p) /\ Tracks(K, s, k) /\ s.root_key = Root(K, k)
      /\ s \in RatchetState /\ recv \in Nat
  BY <1>0, RootType DEF View, GoodState, SendingOK, RatchetState, Tracks
<1>2. /\ h \in MessageHeader /\ n \in Nat /\ n = m.mk[2] /\ n = h.message_number /\ pcl \in Nat
      /\ h.ratchet_public_key = K[Chain(m)] /\ Chain(m) \in Nat /\ Chain(m) >= 1
  BY <1>0, NetworkTypes DEF MessageHeader
<1>3. CacheHits(s, h) = IF m \in Passed(N, p, s) THEN {CacheEntry(m)} ELSE {}
  BY <1>0, Hits
<1>4. m \in Passed(N, p, s) <=> Chain(m) + 1 < k \/ (Chain(m) + 1 = k /\ n < recv)
  <2>1. m \in Passed(N, p, s) <=> Behind(s, m.mk)
    BY DEF Passed
  <2>2. Behind(s, m.mk) <=> Chain(m) + 1 < k \/ (Chain(m) + 1 = k /\ m.mk[2] < s.recv_message_number)
    BY <1>1, BehindAt
  <2> QED BY <1>0, <1>2, <2>1, <2>2
<1>5. ASSUME m \in Passed(N, p, s) PROVE Opens(s, h, m.mk, nk)
  <2>1. CacheHits(s, h) = {CacheEntry(m)} /\ CacheEntry(m).mk = m.mk
    BY <1>3, <1>5 DEF CacheEntry
  <2> QED BY <2>1 DEF Opens
<1>6. ASSUME m \notin Passed(N, p, s), Chain(m) + 1 = k
      PROVE  n >= recv /\ (Opens(s, h, m.mk, nk) <=> n - recv <= MAX_SKIP)
  <2>1. n >= recv
    BY <1>1, <1>2, <1>4, <1>6
  <2>2. k >= 2 /\ k - 1 = Chain(m) /\ k # 0
    BY <1>1, <1>2, <1>6
  <2>3. ~NeedRatchet(s, h)
    BY <1>1, <1>2, <2>2 DEF Tracks, NeedRatchet
  <2>4. AfterRatchet(s, h, nk) = s /\ ~RatchetRejects(s, h) /\ ~StepFails(s, h)
    BY <2>3 DEF AfterRatchet, RatchetRejects, StepFails
  <2>5. Opens(s, h, m.mk, nk) <=> ~SkipRejects(s, n) /\ AdvanceKey(s, h) = m.mk
    BY <1>2, <1>3, <1>6, <2>4 DEF Opens
  <2>6. (~SkipRejects(s, n) /\ AdvanceKey(s, h) = m.mk) <=> n - recv <= MAX_SKIP
    BY <1>0, <1>1, <1>6, <2>1, <2>2, AdvanceOpens
  <2> QED BY <2>1, <2>5, <2>6
<1>7. ASSUME Chain(m) = k + 1
      PROVE  Opens(s, h, m.mk, nk) <=> n <= MAX_SKIP /\ (k >= 2 => pcl - recv <= MAX_SKIP)
  <2>0. PICK t : t = AfterRatchet(s, h, nk)
    OBVIOUS
  <2>1. /\ NeedRatchet(s, h) /\ View(N, K, p, t, k + 2, A)
        /\ RatchetRejects(s, h) <=> k >= 2 /\ pcl - recv > MAX_SKIP
    BY <1>0, <1>1, <1>7, <2>0, RatchetView
  <2>2. t.recv_message_number = 0
    <3> DEFINE u == skip_message_keys_for_current_chain(s, h.previous_chain_length)
    <3>1. t = dh_ratchet_step(u, h.ratchet_public_key, nk)
      BY <2>0, <2>1 DEF AfterRatchet
    <3>2. u \in RatchetState
      <4>1. h.previous_chain_length \in Nat
        BY <1>2 DEF MessageHeader
      <4>2. CASE OldChainOpen(s, h.previous_chain_length)
        <5>1. CacheSkipped(s, h.previous_chain_length) \in RatchetState
          BY <1>1, <4>1, <4>2, CacheSkippedType DEF OldChainOpen
        <5> QED BY <4>1, <4>2, <5>1 DEF skip_message_keys_for_current_chain, RatchetState
      <4> QED BY <1>1, <4>2 DEF skip_message_keys_for_current_chain
    <3> HIDE DEF u
    <3> QED BY <3>1, <3>2 DEF dh_ratchet_step, NewRootsAndChains, RatchetState
  <2>3. k + 2 >= 2 /\ Chain(m) + 1 = k + 2 /\ n >= 0 /\ n - 0 = n
    BY <1>1, <1>2, <1>7
  <2>4. (~SkipRejects(t, n) /\ AdvanceKey(t, h) = m.mk) <=> n <= MAX_SKIP
    BY <1>0, <2>1, <2>2, <2>3, AdvanceOpens
  <2>5. m \notin Passed(N, p, s)
    BY <1>1, <1>2, <1>4, <1>7
  <2>6. Opens(s, h, m.mk, nk) <=> ~RatchetRejects(s, h) /\ n <= MAX_SKIP
    <3>1. ~StepFails(s, h)
      BY <1>2, LineTypes DEF StepFails
    <3> QED BY <1>2, <1>3, <2>0, <2>4, <2>5, <3>1 DEF Opens
  <2>7. (pcl - recv > MAX_SKIP) <=> ~(pcl - recv <= MAX_SKIP)
    BY <1>1, <1>2
  <2> QED BY <2>1, <2>6, <2>7
<1> QED BY <1>0, <1>5, <1>6, <1>7

\* No header names a number, or a chain length, above MaxSends.
Short(m) == m.header.message_number <= MaxSends /\ m.header.previous_chain_length <= MaxSends

\* Chains that are never longer than MAX_SKIP never make decrypt refuse a message.
LEMMA ShortOpens ==
    ASSUME NEW N, NEW K, Line(K), NetworkOK(N, K),
           NEW p \in Party, NEW s, NEW k, NEW A, View(N, K, p, s, k, A),
           NEW m \in N, m.from = Peer(p), m \notin A, Chain(m) <= k + 1,
           Short(m), MaxSends <= MAX_SKIP
    PROVE  Opens(s, m.header, m.mk, K[k + 2])
<1>0. PICK n, pcl, recv, c, opens :
         /\ n = m.header.message_number /\ pcl = m.header.previous_chain_length
         /\ recv = s.recv_message_number /\ c = Chain(m)
         /\ opens = Opens(s, m.header, m.mk, K[k + 2])
  OBVIOUS
<1>1. /\ k \in Nat /\ k % 2 = Par(p) /\ s \in RatchetState /\ s.root_key = Root(K, k)
  BY RootType DEF View, GoodState, SendingOK, Tracks
<1>2. m.header \in MessageHeader /\ c \in Nat /\ c % 2 = Par(m.from)
  BY <1>0, NetworkTypes
<1>3. n \in Nat /\ pcl \in Nat /\ recv \in Nat
  BY <1>0, <1>1, <1>2 DEF MessageHeader, RatchetState
<1>4. n <= MAX_SKIP /\ n - recv <= MAX_SKIP /\ pcl - recv <= MAX_SKIP
  <2>1. n <= MaxSends /\ pcl <= MaxSends
    BY <1>0 DEF Short
  <2> QED BY <1>3, <2>1
<1>5. c + 1 < k \/ c + 1 = k \/ c = k + 1
  <2>1. c # k
    BY <1>1, <1>2 DEF Par, Peer
  <2> QED BY <1>0, <1>1, <1>2, <2>1
<1>6. c + 1 < k => m \in Passed(N, p, s)
  BY <1>0, <1>1, BehindAt DEF Passed
<1>7. /\ m \in Passed(N, p, s) => opens
      /\ m \notin Passed(N, p, s) /\ c + 1 = k => (opens <=> n - recv <= MAX_SKIP)
      /\ c = k + 1 => (opens <=> n <= MAX_SKIP /\ (k >= 2 => pcl - recv <= MAX_SKIP))
  BY <1>0, OpensView
<1> QED BY <1>0, <1>4, <1>5, <1>6, <1>7

\* What a call of decrypt with message m does for party p with the d-th root key: its chains
\* stay the same ones, or m is the first to arrive of the next chain and p makes a DH step.
Reads(N, K, p, d, m) ==
    /\ m.from = Peer(p)
    /\ delivered' = [delivered EXCEPT ![p] = @ \cup {m}]
    /\ UNCHANGED <<network, sends>>
    /\ \E t, k, A :
          /\ session' = [session EXCEPT ![p] = t]
          /\ accepted' = [accepted EXCEPT ![p] = A]
          /\ A \subseteq accepted[p] \cup {m}
          /\ View(N, K, p, t, k, A)
          /\ \/ /\ k = d /\ UNCHANGED keygen
                /\ t.send_message_number = session[p].send_message_number
                /\ t.previous_chain_length = session[p].previous_chain_length
             \/ /\ k = d + 2 /\ Chain(m) = d + 1
                /\ keygen' = [keygen EXCEPT ![p] = @ + 1]
                /\ t.send_message_number = 0
                /\ t.previous_chain_length = session[p].send_message_number

\* That is what decrypt does with a message that p has not accepted.
LEMMA DecryptView ==
    ASSUME NEW N, NEW K, Line(K), NetworkOK(N, K), ~Redelivery, NEW p \in Party, NEW d,
           session \in [Party -> RatchetState], accepted = [q \in Party |-> accepted[q]],
           View(N, K, p, session[p], d, accepted[p]), accepted[p] \subseteq delivered[p],
           FreshKey(p) = K[d + 2],
           NEW m \in N, Chain(m) <= d + 1, Decrypt(p, m, m.header, TRUE)
    PROVE  Reads(N, K, p, d, m)
<1> DEFINE s == session[p]
           h == m.header
           n == h.message_number
           A == accepted[p]
           r == AfterRatchet(s, h, FreshKey(p))
<1>1. /\ View(N, K, p, s, d, A) /\ d \in Nat /\ d % 2 = Par(p)
      /\ Tracks(K, s, d) /\ s \in RatchetState
  BY RootType DEF View, GoodState, SendingOK, Tracks
<1>2. /\ m.from = Peer(p)
      /\ delivered' = [delivered EXCEPT ![p] = @ \cup {m}]
      /\ UNCHANGED <<network, sends>>
      /\ m \notin A
  <2>1. \E ok \in BOOLEAN : Deliver(p, m, ok)
    BY DEF Decrypt, DecryptCached, DecryptOldChainTooLong, DecryptStepFails, DecryptSkipRejected,
           DecryptAdvance
  <2> QED BY <2>1 DEF Deliver
<1>4. CacheHits(s, h) = IF m \in Passed(N, p, s) THEN {CacheEntry(m)} ELSE {}
  <2> HIDE DEF s, A
  <2> QED BY <1>1, <1>2, Hits
<1>5. h \in MessageHeader /\ n \in Nat /\ n = m.mk[2] /\ h.ratchet_public_key = K[Chain(m)]
      /\ Chain(m) \in Nat /\ Chain(m) >= 1
  BY <1>1, NetworkTypes DEF MessageHeader
<1>6. session' = [session EXCEPT ![p] = s] <=> session' = session
  OBVIOUS
<1>7. accepted = [accepted EXCEPT ![p] = A]
  OBVIOUS
<1>8. CASE DecryptCached(p, m, h, TRUE)
  <2> DEFINE t == AfterCacheHit(s, h)
             B == A \cup {m}
  <2>1. m \in Passed(N, p, s) /\ CacheHits(s, h) = {CacheEntry(m)}
    BY <1>4, <1>8 DEF DecryptCached
  <2>2. View(N, K, p, t, d, B)
    BY <1>1, <1>2, <2>1, HitView
  <2>3. CacheEntry(m).mk = m.mk
    BY DEF CacheEntry
  <2>4. /\ session' = [session EXCEPT ![p] = t] /\ UNCHANGED keygen
        /\ Deliver(p, m, TRUE)
    BY <1>8, <2>1, <2>3 DEF DecryptCached
  <2>5. accepted' = [accepted EXCEPT ![p] = B]
    BY <2>4 DEF Deliver
  <2>6. /\ t.send_message_number = s.send_message_number
        /\ t.previous_chain_length = s.previous_chain_length
    BY <1>1 DEF AfterCacheHit, RatchetState
  <2> HIDE DEF t
  <2> QED BY <1>2, <2>2, <2>4, <2>5, <2>6 DEF Reads
<1>9. CASE DecryptOldChainTooLong(p, m, h)
  <2>1. session' = [session EXCEPT ![p] = s] /\ UNCHANGED keygen /\ Deliver(p, m, FALSE)
    BY <1>6, <1>9 DEF DecryptOldChainTooLong
  <2>2. accepted' = [accepted EXCEPT ![p] = A]
    BY <1>7, <2>1 DEF Deliver
  <2> QED BY <1>1, <1>2, <2>1, <2>2 DEF Reads
<1>10. ASSUME CacheHits(s, h) = {}, ~RatchetRejects(s, h), GenKeyFor(p, h)
       PROVE  \E k : /\ View(N, K, p, r, k, A) /\ Chain(m) + 1 = k /\ k >= 2 /\ r \in RatchetState
                     /\ \/ /\ k = d /\ UNCHANGED keygen
                           /\ r.send_message_number = s.send_message_number
                           /\ r.previous_chain_length = s.previous_chain_length
                        \/ /\ k = d + 2 /\ Chain(m) = d + 1
                           /\ keygen' = [keygen EXCEPT ![p] = @ + 1]
                           /\ r.send_message_number = 0
                           /\ r.previous_chain_length = s.send_message_number
  <2>1. m \notin Passed(N, p, s)
    BY <1>4, <1>10
  <2>2. ~(Chain(m) + 1 < d)
    BY <1>1, <1>2, <2>1, BehindAt DEF Passed, Tracks
  <2>3. CASE Chain(m) + 1 = d
    <3>1. s.remote_ratchet_key = K[Chain(m)] /\ d >= 2
      BY <1>1, <1>5, <2>3 DEF Tracks
    <3>2. ~NeedRatchet(s, h)
      BY <1>5, <3>1 DEF NeedRatchet
    <3>3. r = s /\ UNCHANGED keygen
      BY <1>10, <3>2 DEF AfterRatchet, GenKeyFor
    <3> HIDE DEF r
    <3> QED BY <1>1, <2>3, <3>1, <3>3
  <2>4. CASE Chain(m) = d + 1
    <3>1. NeedRatchet(s, h) /\ View(N, K, p, r, d + 2, A)
      BY <1>1, <1>2, <2>4, RatchetView
    <3>2. keygen' = [keygen EXCEPT ![p] = @ + 1]
      BY <1>10, <3>1 DEF GenKeyFor
    <3>3. r \in RatchetState
      BY <3>1 DEF View, GoodState
    <3>4. r.send_message_number = 0 /\ r.previous_chain_length = s.send_message_number
      <4> DEFINE u == skip_message_keys_for_current_chain(s, h.previous_chain_length)
      <4>1. u.send_message_number = s.send_message_number /\ u \in RatchetState
        <5>1. CASE ~OldChainOpen(s, h.previous_chain_length)
          BY <1>1, <5>1 DEF skip_message_keys_for_current_chain
        <5>2. CASE OldChainOpen(s, h.previous_chain_length)
          <6>1. h.previous_chain_length \in Nat
            BY <1>5 DEF MessageHeader
          <6>2. CacheSkipped(s, h.previous_chain_length) \in RatchetState
            BY <1>1, <5>2, <6>1, CacheSkippedType DEF OldChainOpen
          <6>3. CacheSkipped(s, h.previous_chain_length).send_message_number = s.send_message_number
            BY <1>1, <6>1, CacheSkippedFields
          <6> QED BY <5>2, <6>1, <6>2, <6>3 DEF skip_message_keys_for_current_chain, RatchetState
        <5> QED BY <5>1, <5>2
      <4>2. r = dh_ratchet_step(u, h.ratchet_public_key, FreshKey(p))
        BY <3>1 DEF AfterRatchet
      <4> HIDE DEF u, r
      <4> QED BY <4>1, <4>2 DEF dh_ratchet_step, NewRootsAndChains, RatchetState
    <3>5. d + 2 >= 2 /\ Chain(m) + 1 = d + 2
      BY <1>1, <2>4
    <3> HIDE DEF r
    <3> QED BY <2>4, <3>1, <3>2, <3>3, <3>4, <3>5
  <2>5. Chain(m) # d
    <3>1. Chain(m) % 2 = Par(Peer(p)) /\ Par(Peer(p)) # Par(p)
      BY <1>2, NetworkTypes DEF Peer, Par
    <3> QED BY <1>1, <3>1
  <2>6. Chain(m) + 1 = d \/ Chain(m) = d + 1
    BY <1>1, <1>5, <2>2, <2>5
  <2> QED BY <2>3, <2>4, <2>6
<1>11. CASE DecryptSkipRejected(p, m, h)
  <2>1. /\ CacheHits(s, h) = {} /\ ~RatchetRejects(s, h) /\ GenKeyFor(p, h)
        /\ session' = [session EXCEPT ![p] = r] /\ Deliver(p, m, FALSE)
    BY <1>11 DEF DecryptSkipRejected
  <2>2. accepted' = [accepted EXCEPT ![p] = A]
    BY <1>7, <2>1 DEF Deliver
  <2> HIDE DEF r
  <2> QED BY <1>2, <1>10, <2>1, <2>2 DEF Reads
<1>12. CASE DecryptAdvance(p, m, h, TRUE)
  <2> DEFINE t == AfterAdvance(r, h)
             B == A \cup {m}
  <2>1. /\ CacheHits(s, h) = {} /\ ~RatchetRejects(s, h) /\ GenKeyFor(p, h)
        /\ ~SkipRejects(r, n)
        /\ session' = [session EXCEPT ![p] = t] /\ Deliver(p, m, AdvanceKey(r, h) = m.mk)
    BY <1>12 DEF DecryptAdvance
  <2>2. PICK k : /\ View(N, K, p, r, k, A) /\ Chain(m) + 1 = k /\ k >= 2 /\ r \in RatchetState
                 /\ \/ /\ k = d /\ UNCHANGED keygen
                       /\ r.send_message_number = s.send_message_number
                       /\ r.previous_chain_length = s.previous_chain_length
                    \/ /\ k = d + 2 /\ Chain(m) = d + 1
                       /\ keygen' = [keygen EXCEPT ![p] = @ + 1]
                       /\ r.send_message_number = 0
                       /\ r.previous_chain_length = s.send_message_number
    BY <1>10, <2>1
  <2> HIDE DEF r, s, A
  <2>3. AdvanceKey(r, h) = m.mk /\ View(N, K, p, t, k, B)
    <3>1. ~SkipRejects(r, m.header.message_number)
      BY <2>1
    <3>2. AdvanceKey(r, m.header) = m.mk /\ View(N, K, p, AfterAdvance(r, m.header), k, A \cup {m})
      BY <1>2, <2>2, <3>1, AdvanceView
    <3> QED BY <3>2
  <2>4. accepted' = [accepted EXCEPT ![p] = B]
    BY <2>1, <2>3 DEF Deliver, A
  <2>5. /\ t.send_message_number = r.send_message_number
        /\ t.previous_chain_length = r.previous_chain_length
    BY <2>2 DEF AfterAdvance, CacheSkipped, RatchetState
  <2> HIDE DEF t
  <2> QED BY <1>2, <2>1, <2>2, <2>3, <2>4, <2>5 DEF s, A, Reads
<1>13. ~DecryptStepFails(p, m, h)
  BY <1>5, LineTypes DEF DecryptStepFails, StepFails
<1> HIDE DEF s, h, n, A, r
<1> QED BY <1>8, <1>9, <1>11, <1>12, <1>13 DEF Decrypt, h

\* The chain s sends on, and its previous one, are as long as s says.
SendsOn(N, K, s, k) ==
    /\ ChainIs(N, K, k, s.send_message_number)
    /\ k >= 2 => ChainIs(N, K, k - 2, s.previous_chain_length)

\* Messages of other chains do not change a chain.
LEMMA ChainGrows ==
    ASSUME NEW N, NEW X, NEW K, NEW c, NEW j, ChainIs(N, K, c, j), \A x \in X : Chain(x) # c
    PROVE  ChainIs(N \cup X, K, c, j)
BY DEF ChainIs

\* Messages that are not behind a state do not change its view.
LEMMA ViewGrows ==
    ASSUME NEW N, NEW X, NEW K, NEW p, NEW s, NEW k, NEW A, View(N, K, p, s, k, A),
           \A x \in X : x.from = Peer(p) => ~Behind(s, x.mk)
    PROVE  View(N \cup X, K, p, s, k, A)
<1>1. Passed(N \cup X, p, s) = Passed(N, p, s)
  BY DEF Passed
<1>2. Counted(N \cup X, K, s, k)
  BY DEF View, Counted
<1> QED BY <1>1, <1>2 DEF View, Pending

\* A state has not moved past the end of a chain of its peer's.
LEMMA EndNotPassed ==
    ASSUME NEW N, NEW K, Line(K), NEW p, NEW s, NEW k, NEW A, View(N, K, p, s, k, A),
           NEW c \in Nat, NEW n \in Nat, ChainIs(N, K, c, n), k <= c + 1,
           NEW x, Chain(x) \in Nat, x.mk[2] \in Nat, Chain(x) >= c, Chain(x) = c => x.mk[2] >= n
    PROVE  ~Behind(s, x.mk)
<1> SUFFICES ASSUME Behind(s, x.mk) PROVE FALSE
  OBVIOUS
<1>1. k \in Nat /\ s.root_key = Root(K, k) /\ s.recv_message_number \in Nat /\ Counted(N, K, s, k)
  BY DEF View, Tracks, GoodState, RatchetState
<1>2. Chain(x) + 1 < k \/ (Chain(x) + 1 = k /\ x.mk[2] < s.recv_message_number)
  BY <1>1, BehindAt
<1>3. Chain(x) = c /\ k - 1 = c /\ x.mk[2] < s.recv_message_number /\ x.mk[2] >= n
  BY <1>1, <1>2
<1>4. x.mk[2] \in 0 .. (s.recv_message_number - 1)
  BY <1>1, <1>3
<1>5. PICK y \in N : y.mk = <<Root(K, c), x.mk[2]>>
  BY <1>1, <1>3, <1>4 DEF Counted
<1>6. Chain(y) = c /\ y.mk[2] = x.mk[2]
  BY <1>5, RootType DEF Chain
<1> QED BY <1>3, <1>6 DEF ChainIs

\* A call of encrypt leaves the view alone.
LEMMA SealedView ==
    ASSUME NEW N, NEW K, Line(K), NEW p \in Party, NEW s, NEW k, NEW A, View(N, K, p, s, k, A),
           CanEncrypt(s)
    PROVE  View(N, K, p, AfterEncrypt(s), k, A)
<1>0. PICK t : t = AfterEncrypt(s)
  OBVIOUS
<1>1. GoodState(p, s, {}) /\ s \in RatchetState /\ k \in Nat /\ Tracks(K, s, k)
  BY DEF View, GoodState
<1>2. /\ t.root_key = s.root_key /\ t.sending_keypair = s.sending_keypair
      /\ t.remote_ratchet_key = s.remote_ratchet_key
      /\ t.receiving_chain_key = s.receiving_chain_key
      /\ t.recv_message_number = s.recv_message_number
      /\ t.skipped_keys = s.skipped_keys
      /\ t.sending_chain_key = kdf_ck(s.sending_chain_key, 1)
      /\ t.send_message_number = s.send_message_number + 1
  BY <1>0, <1>1 DEF AfterEncrypt, RatchetState
<1>3. s.sending_chain_key \in ChainKeys
  BY <1>1 DEF CanEncrypt, RatchetState
<1>4. t.sending_chain_key # None /\ t.sending_chain_key.n = s.sending_chain_key.n + 1
  <2>1. /\ kdf_ck(s.sending_chain_key, 1) \in ChainKeys
        /\ kdf_ck(s.sending_chain_key, 1).n = s.sending_chain_key.n + 1
    BY <1>3 DEF kdf_ck, ChainKeys
  <2> QED BY <1>2, <2>1
<1>5. GoodState(p, t, {})
  BY <1>0, <1>1, EncryptGood
<1>6. Tracks(K, t, k)
  BY <1>1, <1>2, <1>4 DEF CanEncrypt, Tracks, Aligned
<1>7. Counted(N, K, t, k) /\ Passed(N, p, t) = Passed(N, p, s)
  BY <1>2 DEF View, Counted, Passed, Behind
<1> QED BY <1>0, <1>2, <1>5, <1>6, <1>7 DEF View, Pending

\* Message new is at the end of the chain that s sends on, and is part of it.
EncryptedView(N, K, p, s, k, A, new) ==
    /\ new.from = p /\ Chain(new) = k /\ new.mk[2] = s.send_message_number
    /\ NetworkOK(N \cup {new}, K)
    /\ View(N \cup {new}, K, p, AfterEncrypt(s), k, A)
    /\ SendsOn(N \cup {new}, K, AfterEncrypt(s), k)

\* That is where a call of encrypt puts its message.
LEMMA EncryptView ==
    ASSUME NEW N, NEW K, Line(K), NetworkOK(N, K),
           NEW p \in Party, NEW s, NEW k, NEW A, View(N, K, p, s, k, A),
           SendsOn(N, K, s, k), \A x \in N : x.from = p => Chain(x) <= k,
           CanEncrypt(s), NEW i \in Nat, NEW new,
           new = [from |-> p, seq |-> i, header |-> EncryptHeader(s), mk |-> EncryptKey(s)]
    PROVE  EncryptedView(N, K, p, s, k, A, new)
<1>0. PICK t, M, n : t = AfterEncrypt(s) /\ M = N \cup {new} /\ n = s.send_message_number
  OBVIOUS
<1>1. /\ GoodState(p, s, {}) /\ s \in RatchetState /\ SendingOK(p, s) /\ n \in Nat
      /\ k \in Nat /\ Tracks(K, s, k) /\ ChainIs(N, K, k, n) /\ k % 2 = Par(p)
  BY <1>0, RootType DEF View, GoodState, SendsOn, SendingOK, RatchetState, Tracks
<1>2. t.previous_chain_length = s.previous_chain_length /\ t.send_message_number = n + 1
  BY <1>0, <1>1 DEF AfterEncrypt, RatchetState
<1>3. /\ s.sending_chain_key \in ChainKeys /\ s.sending_chain_key.chain = Root(K, k)
      /\ s.sending_chain_key.n = n /\ k >= 1
  <2>1. s.sending_chain_key # None
    BY DEF CanEncrypt
  <2>2. s.sending_chain_key \in ChainKeys /\ s.sending_chain_key.chain = Root(K, k) /\ k # 0
    BY <1>1, <2>1 DEF RatchetState, SendingOK, Tracks
  <2>3. s.sending_chain_key.n = n
    BY <1>0, <1>1, <2>1 DEF Tracks, Aligned
  <2> QED BY <1>1, <2>2, <2>3
<1>4. /\ new.mk = <<Root(K, k), n>> /\ new.from = p
      /\ new.header.ratchet_public_key = K[k] /\ new.header.message_number = n
      /\ new.header.previous_chain_length = s.previous_chain_length
  BY <1>0, <1>1, <1>3 DEF EncryptKey, MessageKey, EncryptHeader, Tracks
<1>5. Chain(new) = k /\ new.mk[1] = Root(K, k) /\ new.mk[2] = n
  <2>1. new.mk[1] = Root(K, k) /\ new.mk[2] = n
    BY <1>4
  <2>2. Len(Root(K, k)) = k
    BY <1>1, RootType
  <2> QED BY <2>1, <2>2 DEF Chain
<1>6. new \in Messages
  BY <1>1, EncryptTypes DEF Messages
<1>7. ASSUME NEW c, NEW j, c # k, ChainIs(N, K, c, j) PROVE ChainIs(M, K, c, j)
  BY <1>0, <1>5, <1>7, ChainGrows
<1>8. ChainIs(M, K, k, n + 1)
  <2>1. ASSUME NEW x \in M, Chain(x) = k PROVE x.mk[2] < n + 1
    <3>1. CASE x = new
      BY <1>1, <1>5, <3>1
    <3>2. CASE x \in N
      <4>1. x.mk[2] < n /\ x.mk[2] \in Nat
        BY <1>1, <2>1, <3>2, NetworkTypes DEF ChainIs
      <4> QED BY <1>1, <4>1
    <3> QED BY <1>0, <3>1, <3>2
  <2>2. ASSUME NEW a \in 0 .. n PROVE \E x \in M : x.mk = <<Root(K, k), a>>
    <3>1. CASE a = n
      BY <1>0, <1>4, <3>1
    <3>2. CASE a # n
      <4>1. a \in 0 .. (n - 1)
        BY <1>1, <3>2
      <4>2. \E x \in N : x.mk = <<Root(K, k), a>>
        BY <1>1, <4>1 DEF ChainIs
      <4> QED BY <1>0, <4>2
    <3> QED BY <3>1, <3>2
  <2>3. (n + 1) - 1 = n
    BY <1>1
  <2> QED BY <2>1, <2>2, <2>3 DEF ChainIs
<1>9. SendsOn(M, K, t, k)
  <2>1. ASSUME k >= 2 PROVE ChainIs(M, K, k - 2, t.previous_chain_length)
    <3>1. k - 2 # k
      BY <1>1
    <3>2. ChainIs(N, K, k - 2, t.previous_chain_length)
      BY <1>2, <2>1 DEF SendsOn
    <3> QED BY <1>7, <3>1, <3>2
  <2> QED BY <1>2, <1>8, <2>1 DEF SendsOn
<1>10. ASSUME NEW x \in N PROVE HeaderOK(M, K, x) /\ x.mk # new.mk
  <2>1. HeaderOK(N, K, x) /\ Chain(x) \in Nat /\ x.from \in Party /\ Chain(x) % 2 = Par(x.from)
    BY NetworkTypes DEF NetworkOK
  <2>2. Chain(x) - 2 # k
    <3> SUFFICES ASSUME Chain(x) = k + 2 PROVE FALSE
      BY <1>1, <2>1
    <3>1. x.from = p
      BY <1>1, <2>1, ParityStays DEF Par
    <3> QED BY <1>1, <3>1
  <2>3. Chain(x) >= 2 => ChainIs(M, K, Chain(x) - 2, x.header.previous_chain_length)
    BY <1>7, <2>1, <2>2 DEF HeaderOK
  <2>4. \A a \in 0 .. (x.mk[2] - 1) : \E y \in M : y.mk = <<x.mk[1], a>>
    BY <1>0, <2>1 DEF HeaderOK
  <2>5. x.mk # new.mk
    <3> SUFFICES ASSUME x.mk = new.mk PROVE FALSE
      OBVIOUS
    <3>1. Chain(x) = k /\ x.mk[2] = n
      BY <1>5 DEF Chain
    <3>2. n < n
      BY <1>1, <3>1 DEF ChainIs
    <3> QED BY <1>1, <3>2
  <2> QED BY <2>1, <2>3, <2>4, <2>5 DEF HeaderOK
<1>11. HeaderOK(M, K, new)
  <2>1. k >= 2 => ChainIs(M, K, k - 2, s.previous_chain_length)
    BY <1>2, <1>9 DEF SendsOn
  <2>2. \A a \in 0 .. (n - 1) : \E y \in M : y.mk = <<Root(K, k), a>>
    BY <1>0, <1>1 DEF ChainIs
  <2> QED BY <1>3, <1>4, <1>5, <2>1, <2>2 DEF HeaderOK
<1>12. NetworkOK(M, K)
  <2>1. M \subseteq Messages
    BY <1>0, <1>6 DEF NetworkOK
  <2>2. \A x, y \in M : x.mk = y.mk => x = y
    BY <1>0, <1>10 DEF NetworkOK
  <2>3. \A x \in M : HeaderOK(M, K, x) /\ Chain(x) % 2 = Par(x.from)
    BY <1>0, <1>1, <1>4, <1>5, <1>10, <1>11 DEF NetworkOK
  <2> QED BY <2>1, <2>2, <2>3 DEF NetworkOK
<1>13. View(N, K, p, t, k, A)
  BY <1>0, SealedView
<1>14. View(M, K, p, t, k, A)
  <2>1. new.from # Peer(p)
    BY <1>4 DEF Peer
  <2> QED BY <1>0, <1>13, <2>1, ViewGrows
<1> QED BY <1>0, <1>4, <1>5, <1>9, <1>12, <1>14 DEF EncryptedView

-----------------------------------------------------------------------------
(* The inductive invariant *)

USE TurnsLine

\* The invariant gives what the lemmas above ask for.
LEMMA HonestViews ==
    ASSUME HonestInv, NEW p \in Party
    PROVE  /\ NetworkOK(network, Turns) /\ View(network, Turns, p, session[p], Depth(p), accepted[p])
           /\ Depth(p) \in Nat /\ Depth(p) % 2 = Par(p)
           /\ Depth(p) = Depth(Peer(p)) + 1 \/ Depth(Peer(p)) = Depth(p) + 1
<1>1. /\ RatchetInv /\ PartyOK(p) /\ TypeOK
      /\ GoodState(p, session[p], AcceptedKeys(p)) /\ session[p] \in RatchetState
  BY DEF HonestInv, RatchetInv, GoodState
<1>2. NetworkOK(network, Turns)
  BY <1>1 DEF HonestInv, RatchetInv, TypeOK, UniqueMessageKeys, NetworkOK, SentOK, Chain
<1>3. Depth(p) \in Nat
  BY <1>1 DEF RatchetState, RootKeys, Depth
<1>4. Depth(p) % 2 = Par(p)
  BY <1>1 DEF GoodState, SendingOK, Depth
<1>5. GoodState(p, session[p], {})
  BY <1>1, GoodWithLess
<1>6. accepted[p] \subseteq Passed(network, p, session[p])
  <2> SUFFICES ASSUME NEW m \in accepted[p]
               PROVE  m \in network /\ m.from = Peer(p) /\ Behind(session[p], m.mk)
    BY DEF Passed
  <2>1. m \in network
    BY <1>1 DEF TypeOK
  <2>2. m.from = Peer(p)
    BY <1>1 DEF RatchetInv
  <2>3. m.mk \in AcceptedKeys(p)
    BY DEF AcceptedKeys
  <2>4. Past(session[p], m.mk) /\ Tracks(Turns, session[p], Depth(p))
    BY <1>1, <2>3 DEF GoodState, SpentOK, PartyOK
  <2> QED BY <2>1, <2>2, <2>4, PastBehind
<1>7. View(network, Turns, p, session[p], Depth(p), accepted[p])
  BY <1>1, <1>3, <1>5, <1>6 DEF View, PartyOK
<1>8. Depth(p) = Depth(Peer(p)) + 1 \/ Depth(Peer(p)) = Depth(p) + 1
  <2>1. PICK q \in Party : Depth(q) = Depth(Peer(q)) + 1
    BY DEF HonestInv
  <2>2. q = p \/ (q = Peer(p) /\ p = Peer(q))
    BY DEF Peer
  <2> QED BY <2>1, <2>2
<1> QED BY <1>2, <1>3, <1>4, <1>7, <1>8

\* A message for p is on p's receiving chain, an older one, or the very next one.
LEMMA Places ==
    ASSUME HonestInv, NEW p \in Party, NEW m \in network, m.from = Peer(p)
    PROVE  \/ Chain(m) + 1 < Depth(p)
           \/ Chain(m) + 1 = Depth(p)
           \/ Chain(m) = Depth(p) + 1 /\ Depth(Peer(p)) = Depth(p) + 1
<1>1. Peer(p) \in Party /\ Par(Peer(p)) # Par(p)
  BY DEF Peer, Par
<1>2. /\ NetworkOK(network, Turns) /\ Depth(p) \in Nat /\ Depth(p) % 2 = Par(p) /\ Depth(Peer(p)) \in Nat
      /\ Depth(p) = Depth(Peer(p)) + 1 \/ Depth(Peer(p)) = Depth(p) + 1
  BY <1>1, HonestViews
<1>3. Chain(m) \in Nat /\ Chain(m) % 2 = Par(Peer(p))
  BY <1>2, NetworkTypes
<1>4. Chain(m) <= Depth(Peer(p))
  BY DEF HonestInv, RatchetInv, SentOK, Chain, Depth
<1>5. Chain(m) # Depth(p)
  BY <1>1, <1>2, <1>3
<1> QED BY <1>2, <1>3, <1>4, <1>5

\* In a session whose processes never end that chain is the one the peer sends on.
LEMMA HonestDecrypt ==
    ASSUME HonestInv, ~Redelivery, NEW p \in Party, NEW m \in network,
           Decrypt(p, m, m.header, TRUE)
    PROVE  /\ m.from = Peer(p)
           /\ delivered' = [delivered EXCEPT ![p] = @ \cup {m}]
           /\ UNCHANGED <<network, sends>>
           /\ \E t, k, A :
                 /\ session' = [session EXCEPT ![p] = t]
                 /\ accepted' = [accepted EXCEPT ![p] = A]
                 /\ A \subseteq accepted[p] \cup {m}
                 /\ View(network, Turns, p, t, k, A)
                 /\ \/ /\ k = Depth(p) /\ UNCHANGED keygen
                       /\ t.send_message_number = session[p].send_message_number
                       /\ t.previous_chain_length = session[p].previous_chain_length
                    \/ /\ k = Depth(p) + 2 /\ Depth(Peer(p)) = Depth(p) + 1
                       /\ keygen' = [keygen EXCEPT ![p] = @ + 1]
                       /\ t.send_message_number = 0
                       /\ t.previous_chain_length = session[p].send_message_number
<1>0. PICK d : d = Depth(p)
  OBVIOUS
<1>1. /\ TypeOK /\ NetworkOK(network, Turns) /\ View(network, Turns, p, session[p], d, accepted[p])
      /\ d \in Nat /\ d % 2 = Par(p) /\ PartyOK(p)
  BY <1>0, HonestViews DEF HonestInv, RatchetInv
<1>2. /\ session \in [Party -> RatchetState] /\ accepted = [q \in Party |-> accepted[q]]
      /\ accepted[p] \subseteq delivered[p]
  BY <1>1 DEF TypeOK, PartyOK
<1>3. FreshKey(p) = Turns[d + 2]
  BY <1>0, <1>1, OwnKeys DEF PartyOK, FreshKey
<1>4. m.from = Peer(p)
  BY DEF Decrypt, DecryptCached, DecryptOldChainTooLong, DecryptStepFails, DecryptSkipRejected,
         DecryptAdvance, Deliver
<1>5. Chain(m) <= d + 1 /\ (Chain(m) = d + 1 => Depth(Peer(p)) = d + 1)
  <2>1. Chain(m) \in Nat
    BY <1>1, NetworkTypes
  <2> QED BY <1>0, <1>1, <1>4, <2>1, Places
<1>6. Reads(network, Turns, p, d, m)
  BY <1>1, <1>2, <1>3, <1>5, DecryptView
<1> QED BY <1>0, <1>5, <1>6 DEF Reads

\* decrypt of an undamaged message that was not read before preserves the invariant.
LEMMA DecryptHonest ==
    ASSUME HonestInv, ~Redelivery, NEW p \in Party, NEW m \in network,
           Decrypt(p, m, m.header, TRUE)
    PROVE  HonestInv'
<1>1. /\ m.from = Peer(p)
      /\ delivered' = [delivered EXCEPT ![p] = @ \cup {m}]
      /\ network' = network
  BY HonestDecrypt
<1>2. PICK t, k, A :
         /\ session' = [session EXCEPT ![p] = t]
         /\ accepted' = [accepted EXCEPT ![p] = A]
         /\ A \subseteq accepted[p] \cup {m}
         /\ View(network, Turns, p, t, k, A)
         /\ \/ /\ k = Depth(p) /\ UNCHANGED keygen
               /\ t.send_message_number = session[p].send_message_number
               /\ t.previous_chain_length = session[p].previous_chain_length
            \/ /\ k = Depth(p) + 2 /\ Depth(Peer(p)) = Depth(p) + 1
               /\ keygen' = [keygen EXCEPT ![p] = @ + 1]
               /\ t.send_message_number = 0
               /\ t.previous_chain_length = session[p].send_message_number
  BY HonestDecrypt
<1>3. /\ RatchetInv /\ TypeOK /\ PartyOK(p) /\ NetworkOK(network, Turns) /\ m.header \in MessageHeader
      /\ Depth(p) \in Nat /\ Depth(p) % 2 = Par(p)
      /\ Depth(p) = Depth(Peer(p)) + 1 \/ Depth(Peer(p)) = Depth(p) + 1
  BY HonestViews, NetworkTypes DEF HonestInv, RatchetInv
<1>4. RatchetInv'
  BY <1>3, DecryptInv
<1>5. ASSUME NEW q \in Party, q # p
      PROVE  /\ session'[q] = session[q] /\ accepted'[q] = accepted[q]
             /\ delivered'[q] = delivered[q] /\ keygen'[q] = keygen[q] /\ Depth(q)' = Depth(q)
  BY <1>1, <1>2, <1>3, <1>5 DEF TypeOK, Depth
<1>6. session'[p] = t /\ accepted'[p] = A /\ delivered'[p] = delivered[p] \cup {m}
  BY <1>1, <1>2, <1>3 DEF TypeOK
<1>7. /\ k \in Nat /\ Tracks(Turns, t, k) /\ Counted(network, Turns, t, k) /\ Pending(network, p, t, A)
      /\ Len(t.root_key) = k /\ t.root_key = Root(Turns, k)
  BY <1>2, RootType DEF View, Tracks
<1>8. Depth(p)' = k
  BY <1>6, <1>7 DEF Depth
<1>9. Peer(p) \in Party /\ Peer(p) # p /\ Peer(Peer(p)) = p
  BY DEF Peer
<1>10. Depth(Peer(p))' = Depth(Peer(p))
  BY <1>5, <1>9
<1>11. k = Depth(Peer(p)) + 1 \/ Depth(Peer(p)) = k + 1
  BY <1>2, <1>3
<1>12. \E q \in Party : Depth(q)' = Depth(Peer(q))' + 1
  BY <1>8, <1>9, <1>10, <1>11
<1>13. ASSUME NEW i, NEW j PROVE ChainIs(network, Turns, i, j)' <=> ChainIs(network, Turns, i, j)
  BY <1>1 DEF ChainIs
<1>14. \A x \in network' : HeaderOK(network, Turns, x)'
  BY <1>1 DEF HonestInv, HeaderOK, ChainIs
<1>15. ASSUME NEW q \in Party, q # p PROVE PartyOK(q)'
  <2>1. PartyOK(q)
    BY DEF HonestInv
  <2> QED BY <1>1, <1>5, <1>15, <2>1 DEF PartyOK, Counted, ChainIs, Pending, Passed
<1>16. PartyOK(p)'
  <2>1. (Tracks(Turns, session[p], Depth(p)))'
    BY <1>6, <1>7, <1>8
  <2>2. (Counted(network, Turns, session[p], Depth(p)))'
    BY <1>1, <1>6, <1>7, <1>8 DEF Counted
  <2>3. (Pending(network, p, session[p], accepted[p]))'
    BY <1>1, <1>6, <1>7 DEF Pending, Passed
  <2>4. accepted'[p] \subseteq delivered'[p]
    BY <1>2, <1>3, <1>6 DEF PartyOK
  <2>5. CASE /\ k = Depth(p) /\ UNCHANGED keygen
             /\ t.send_message_number = session[p].send_message_number
             /\ t.previous_chain_length = session[p].previous_chain_length
    <3>1. keygen'[p] = (k \div 2) + 1
      BY <1>3, <2>5 DEF PartyOK
    <3>2. /\ ChainIs(network, Turns, k, t.send_message_number)
          /\ k >= 2 => ChainIs(network, Turns, k - 2, t.previous_chain_length)
      BY <1>3, <2>5 DEF PartyOK
    <3> QED BY <1>1, <1>6, <1>8, <2>1, <2>2, <2>3, <2>4, <3>1, <3>2 DEF PartyOK, ChainIs
  <2>6. CASE /\ k = Depth(p) + 2 /\ Depth(Peer(p)) = Depth(p) + 1
             /\ keygen' = [keygen EXCEPT ![p] = @ + 1]
             /\ t.send_message_number = 0
             /\ t.previous_chain_length = session[p].send_message_number
    <3>1. keygen'[p] = (k \div 2) + 1
      <4>1. keygen[p] = (Depth(p) \div 2) + 1
        BY <1>3 DEF PartyOK
      <4>2. keygen'[p] = keygen[p] + 1
        BY <1>3, <2>6 DEF TypeOK
      <4>3. k \div 2 = (Depth(p) \div 2) + 1
        BY <1>3, <2>6
      <4> QED BY <4>1, <4>2, <4>3
    <3>2. ChainIs(network, Turns, k, 0)
      <4>1. ASSUME NEW x \in network, Chain(x) = k PROVE FALSE
        <5>1. x.from \in Party /\ Chain(x) % 2 = Par(x.from)
          BY <1>3, NetworkTypes
        <5>2. k % 2 = Par(p)
          BY <1>3, <2>6, ParityStays
        <5>3. x.from = p
          BY <4>1, <5>1, <5>2 DEF Par
        <5>4. Chain(x) <= Depth(p)
          BY <1>3, <5>3 DEF RatchetInv, SentOK, Chain, Depth
        <5> QED BY <1>3, <2>6, <4>1, <5>4
      <4> QED BY <4>1 DEF ChainIs
    <3>3. k - 2 = Depth(p)
      BY <1>3, <2>6
    <3>4. ChainIs(network, Turns, k - 2, t.previous_chain_length)
      BY <1>3, <2>6, <3>3 DEF PartyOK
    <3>5. /\ ChainIs(network, Turns, k, t.send_message_number)'
          /\ k >= 2 => ChainIs(network, Turns, k - 2, t.previous_chain_length)'
      BY <1>13, <2>6, <3>2, <3>4
    <3> QED BY <1>6, <1>8, <2>1, <2>2, <2>3, <2>4, <3>1, <3>5 DEF PartyOK
  <2> QED BY <1>2, <2>5, <2>6
<1> QED BY <1>4, <1>12, <1>14, <1>15, <1>16 DEF HonestInv

\* encrypt preserves the invariant: the message goes to the end of the sender's chain,
\* which the peer has not counted past.
LEMMA EncryptHonest ==
    ASSUME HonestInv, NEW p \in Party, Encrypt(p)
    PROVE  HonestInv'
<1>0. PICK s, k, n, A, new :
         /\ s = session[p] /\ k = Depth(p) /\ n = s.send_message_number /\ A = accepted[p]
         /\ new = [from |-> p, seq |-> sends[p],
                   header |-> EncryptHeader(s), mk |-> EncryptKey(s)]
  OBVIOUS
<1> DEFINE t == AfterEncrypt(s)
<1>1. /\ CanEncrypt(s)
      /\ network' = network \cup {new}
      /\ session' = [session EXCEPT ![p] = t]
      /\ UNCHANGED <<keygen, delivered, accepted>>
  BY <1>0 DEF Encrypt
<1>2. /\ RatchetInv /\ TypeOK /\ NetworkOK(network, Turns) /\ View(network, Turns, p, s, k, A)
      /\ PartyOK(p) /\ k \in Nat /\ s \in RatchetState /\ n \in Nat /\ sends[p] \in Nat
      /\ ChainIs(network, Turns, k, n)
  <2>1. /\ RatchetInv /\ TypeOK /\ PartyOK(p) /\ s \in RatchetState /\ sends[p] \in Nat
    BY <1>0 DEF HonestInv, RatchetInv, TypeOK
  <2>2. n \in Nat /\ ChainIs(network, Turns, k, n)
    BY <1>0, <2>1 DEF PartyOK, RatchetState
  <2> QED BY <1>0, <2>1, <2>2, HonestViews
<1>3. RatchetInv'
  BY <1>1, <1>2, EncryptInv
<1>4. SendsOn(network, Turns, s, k) /\ \A x \in network : x.from = p => Chain(x) <= k
  BY <1>0, <1>2 DEF PartyOK, SendsOn, RatchetInv, SentOK, Chain, Depth
<1>5. /\ new.from = p /\ Chain(new) = k /\ new.mk[2] = n
      /\ NetworkOK(network', Turns) /\ View(network', Turns, p, t, k, A)
      /\ SendsOn(network', Turns, t, k)
  <2>1. PICK i \in Nat : i = sends[p]
    BY <1>2
  <2>2. new = [from |-> p, seq |-> i, header |-> EncryptHeader(s), mk |-> EncryptKey(s)]
    BY <1>0, <2>1
  <2>3. EncryptedView(network, Turns, p, s, k, A, new)
    BY <1>1, <1>2, <1>4, <2>2, EncryptView
  <2> QED BY <1>0, <1>1, <2>3 DEF EncryptedView
<1>6. t.root_key = s.root_key
  BY <1>0, <1>2 DEF AfterEncrypt, RatchetState
<1> HIDE DEF t
<1>7. \A q \in Party : session'[q] = IF q = p THEN t ELSE session[q]
  BY <1>1, <1>2 DEF TypeOK
<1>8. \A q \in Party : Depth(q)' = Depth(q)
  BY <1>0, <1>6, <1>7 DEF Depth
<1>9. \E q \in Party : Depth(q)' = Depth(Peer(q))' + 1
  BY <1>8 DEF HonestInv, Peer
<1>10. \A x \in network' : HeaderOK(network, Turns, x)'
  BY <1>5 DEF NetworkOK
<1>11. PartyOK(p)'
  <2>1. session'[p] = t /\ Depth(p)' = k /\ accepted'[p] = A
    BY <1>0, <1>1, <1>7, <1>8
  <2>2. keygen'[p] = (k \div 2) + 1 /\ accepted'[p] \subseteq delivered'[p]
    BY <1>0, <1>1, <1>2 DEF PartyOK
  <2> QED BY <1>5, <2>1, <2>2 DEF PartyOK, View, SendsOn
<1>12. ASSUME NEW q \in Party, q # p PROVE PartyOK(q)'
  <2>0. PICK u, c, B : u = session[q] /\ c = Depth(q) /\ B = accepted[q]
    OBVIOUS
  <2>1. /\ PartyOK(q) /\ View(network, Turns, q, u, c, B) /\ c \in Nat
        /\ c = k + 1 \/ k = c + 1
    <3>1. q = Peer(p) /\ p = Peer(q)
      BY <1>12 DEF Peer
    <3> QED BY <1>0, <2>0, <3>1, HonestViews DEF HonestInv
  <2>2. /\ session'[q] = u /\ Depth(q)' = c /\ keygen'[q] = keygen[q]
        /\ accepted'[q] = B /\ delivered'[q] = delivered[q]
    BY <1>1, <1>7, <1>8, <1>12, <2>0
  <2>3. c # k /\ c - 2 # k
    BY <1>2, <2>1
  <2>4. ~Behind(u, new.mk)
    <3>1. c <= k + 1 /\ k >= k /\ n >= n
      BY <1>2, <2>1
    <3> QED BY <1>2, <1>5, <2>1, <3>1, EndNotPassed
  <2>5. View(network', Turns, q, u, c, B)
    BY <1>1, <2>1, <2>4, ViewGrows
  <2>6. /\ ChainIs(network', Turns, c, u.send_message_number)
        /\ c >= 2 => ChainIs(network', Turns, c - 2, u.previous_chain_length)
    BY <1>1, <1>5, <2>0, <2>1, <2>3, ChainGrows DEF PartyOK
  <2>7. keygen[q] = (c \div 2) + 1 /\ B \subseteq delivered[q]
    BY <2>0, <2>1 DEF PartyOK
  <2> QED BY <2>2, <2>5, <2>6, <2>7 DEF PartyOK, View
<1> QED BY <1>3, <1>9, <1>10, <1>11, <1>12 DEF HonestInv

\* The states init_sender and init_receiver build satisfy it.
LEMMA InitHonest == Init => HonestInv
<1> SUFFICES ASSUME Init PROVE HonestInv
  OBVIOUS
<1>1. RatchetInv /\ network = {} /\ Party = {Alice, Bob} /\ Alice # Bob
  BY InitInv DEF Init
<1>2. /\ session[Alice] = init_sender(<<>>, Turns[0], Turns[1])
      /\ session[Bob] = init_receiver(<<>>, Turns[0])
  <2>1. Turns[0] = <<Bob, 0>> /\ Turns[1] = <<Alice, 0>>
    <3>1. 0 % 2 = 0 /\ 1 % 2 = 1 /\ 0 \div 2 = 0 /\ 1 \div 2 = 0
      OBVIOUS
    <3> QED BY <3>1 DEF Turns
  <2> QED BY <2>1 DEF Init, shared_secret, SignedPreKey
<1>3. Root(Turns, 0) = <<>>
  <2>1. Root(Turns, 0) \in Seq(SUBSET Keys) /\ Len(Root(Turns, 0)) = 0
    BY RootType DEF RootKeys
  <2> QED BY <2>1
<1>4. kdf_rk(<<>>, dh_exchange(Turns[1], Turns[0])) = Root(Turns, 1)
  <2>1. kdf_rk(Root(Turns, 0), dh_exchange(Turns[0 + 1], Turns[0])) = Root(Turns, 0 + 1)
    BY NextRoot
  <2> QED BY <1>3, <2>1
<1>5. Depth(Bob) = 0 /\ Tracks(Turns, session[Bob], 0)
  <2>1. Depth(Bob) = 0
    BY <1>2 DEF init_receiver, Depth
  <2> QED BY <1>2, <1>3, <2>1 DEF init_receiver, Tracks, Aligned
<1>6. Depth(Alice) = 1 /\ Tracks(Turns, session[Alice], 1)
  <2>1. session[Alice].root_key = Root(Turns, 1)
    BY <1>2, <1>4 DEF init_sender
  <2>2. Depth(Alice) = 1
    BY <2>1, RootType DEF Depth
  <2>3. NewChain(Root(Turns, 1)) # None
    BY RootType DEF NewChain, ChainKeys
  <2>4. Aligned(session[Alice])
    BY <1>2 DEF init_sender, Aligned, NewChain
  <2> QED BY <1>2, <1>4, <2>1, <2>2, <2>3, <2>4 DEF init_sender, Tracks
<1>7. ASSUME NEW k \in Nat PROVE ChainIs(network, Turns, k, 0)
  BY <1>1 DEF ChainIs
<1>8. ASSUME NEW p \in Party PROVE PartyOK(p)
  <2>1. /\ session[p].send_message_number = 0 /\ session[p].recv_message_number = 0
        /\ session[p].skipped_keys = {}
    BY <1>1, <1>2 DEF init_sender, init_receiver
  <2>2. Depth(p) \in {0, 1} /\ Tracks(Turns, session[p], Depth(p))
    BY <1>1, <1>5, <1>6
  <2>3. keygen[p] = (Depth(p) \div 2) + 1
    <3>1. keygen[p] = 1
      BY DEF Init
    <3>2. 0 \div 2 = 0 /\ 1 \div 2 = 0
      OBVIOUS
    <3> QED BY <2>2, <3>1, <3>2
  <2>4. Counted(network, Turns, session[p], Depth(p))
    BY <2>1 DEF Counted
  <2>5. Pending(network, p, session[p], accepted[p])
    BY <1>1, <2>1 DEF Pending, Passed
  <2>6. accepted[p] \subseteq delivered[p]
    BY DEF Init
  <2> QED BY <1>7, <2>1, <2>2, <2>3, <2>4, <2>5, <2>6 DEF PartyOK
<1>9. \E p \in Party : Depth(p) = Depth(Peer(p)) + 1
  BY <1>1, <1>5, <1>6 DEF Peer
<1> QED BY <1>1, <1>8, <1>9 DEF HonestInv

\* HonestInv holds throughout every behaviour of a relay that changes no message and hands
\* none over again once it was read.
THEOREM HonestInvariance ==
    ASSUME ~Redelivery, ~Damage
    PROVE  Spec => []HonestInv
<1>1. ASSUME HonestInv, [Next]_vars
      PROVE  HonestInv'
  <2>1. CASE Next
    <3>1. PICK p \in Party : Encrypt(p) \/ \E m \in network : Decrypt(p, m, m.header, TRUE)
      BY <2>1 DEF Next
    <3>2. CASE Encrypt(p)
      BY <1>1, <3>2, EncryptHonest
    <3>3. CASE \E m \in network : Decrypt(p, m, m.header, TRUE)
      BY <1>1, <3>3, DecryptHonest
    <3> QED BY <3>1, <3>2, <3>3
  <2>2. CASE UNCHANGED vars
    <3>1. RatchetInv'
      <4>1. RatchetInv
        BY <1>1 DEF HonestInv
      <4> QED BY <2>2, <4>1 DEF vars, RatchetInv, TypeOK, GoodState, SendingOK, ReceivingOK,
                      SpentOK, Past, AcceptedKeys, SentOK, UniqueMessageKeys, UniqueNumbers
    <3>2. \E p \in Party : Depth(p)' = Depth(Peer(p))' + 1
      BY <1>1, <2>2 DEF vars, HonestInv, Depth
    <3>3. \A m \in network' : HeaderOK(network, Turns, m)'
      BY <1>1, <2>2 DEF vars, HonestInv, HeaderOK, ChainIs
    <3>4. ASSUME NEW p \in Party PROVE PartyOK(p)'
      <4>1. PartyOK(p)
        BY <1>1 DEF HonestInv
      <4> QED BY <2>2, <4>1 DEF vars, PartyOK, Depth, Counted, ChainIs, Pending, Passed
    <3> QED BY <3>1, <3>2, <3>3, <3>4 DEF HonestInv
  <2> QED BY <1>1, <2>1, <2>2
<1> QED BY <1>1, InitHonest, PTL DEF Spec

\* However the two sides take turns, and in whatever order messages arrive, they stay one DH
\* step apart.
THEOREM InStep ==
    ASSUME ~Redelivery, ~Damage
    PROVE  Spec => []RootsInStep
<1>1. ASSUME HonestInv PROVE RootsInStep
  <2>1. PICK p \in Party : Depth(p) = Depth(Peer(p)) + 1
    BY <1>1 DEF HonestInv
  <2>0. PICK k : k = Depth(Peer(p))
    OBVIOUS
  <2>2. Peer(p) \in Party
    BY DEF Peer
  <2>3. /\ session[p].root_key = Root(Turns, k + 1) /\ session[Peer(p)].root_key = Root(Turns, k)
        /\ k \in Nat /\ k + 1 \in Nat
    BY <1>1, <2>0, <2>1, <2>2, HonestViews DEF HonestInv, PartyOK, Tracks
  <2>4. Len(Root(Turns, k + 1)) = k + 1 /\ Len(Root(Turns, k)) = k /\ Root(Turns, k) \in Seq(SUBSET Keys)
    BY <2>3, RootType DEF RootKeys
  <2>5. \A i \in 1 .. k : Root(Turns, k + 1)[i] = Root(Turns, k)[i] /\ Root(Turns, k + 1)[i] \in SUBSET Keys
    <3>1. \A i \in 1 .. k : i \in 1 .. (k + 1)
      BY <2>3
    <3>2. \A i \in 1 .. k : Root(Turns, k)[i] \in SUBSET Keys
      BY <2>4
    <3> QED BY <3>1, <3>2 DEF Root
  <2> DEFINE u == SubSeq(Root(Turns, k + 1), 1, k)
  <2>6. u \in Seq(SUBSET Keys) /\ Len(u) = k /\ \A i \in 1 .. k : u[i] = Root(Turns, k + 1)[i]
    <3>1. /\ SubSeq(Root(Turns, k + 1), 1, k) \in Seq(SUBSET Keys)
          /\ Len(SubSeq(Root(Turns, k + 1), 1, k)) = IF 1 <= k THEN k - 1 + 1 ELSE 0
          /\ \A i \in 1 .. (k - 1 + 1) : SubSeq(Root(Turns, k + 1), 1, k)[i] = Root(Turns, k + 1)[1 + i - 1]
      BY <2>3, <2>5, SubSeqProperties
    <3>2. k - 1 + 1 = k /\ (~(1 <= k) => k = 0) /\ \A i \in 1 .. k : 1 + i - 1 = i
      BY <2>3
    <3> QED BY <3>1, <3>2
  <2> HIDE DEF u
  <2>7. u = Root(Turns, k)
    BY <2>4, <2>5, <2>6, SeqEqual
  <2> QED BY <2>3, <2>4, <2>7 DEF RootsInStep, u
<1> QED BY <1>1, HonestInvariance, PTL

\* What a state has moved past, in the words of the properties.
LEMMA PassedIsPassedOver ==
    ASSUME HonestInv, NEW p \in Party
    PROVE  PassedOver(p) = Passed(network, p, session[p])
<1>1. NetworkOK(network, Turns) /\ Depth(p) \in Nat
  BY HonestViews
<1>2. ASSUME NEW m \in network
      PROVE  Behind(session[p], m.mk) <=>
                \/ Len(m.mk[1]) < Len(session[p].root_key) - 1
                \/ Len(m.mk[1]) = Len(session[p].root_key) - 1
                      /\ m.mk[2] < session[p].recv_message_number
  <2>1. Len(m.mk[1]) \in Nat /\ Len(session[p].root_key) \in Nat
    BY <1>1, NetworkTypes DEF Chain, Depth
  <2> QED BY <2>1 DEF Behind
<1> QED BY <1>2 DEF PassedOver, Passed

\* The cache holds the keys of the messages that were passed over and not read, and no other.
THEOREM CacheExact ==
    ASSUME ~Redelivery, ~Damage
    PROVE  Spec => []CacheIsPending
<1>1. ASSUME HonestInv PROVE CacheIsPending
  <2> SUFFICES ASSUME NEW p \in Party
               PROVE  session[p].skipped_keys =
                        {[pk |-> m.header.ratchet_public_key, n |-> m.header.message_number,
                          mk |-> m.mk] : m \in PassedOver(p) \ accepted[p]}
    BY DEF CacheIsPending
  <2>1. Pending(network, p, session[p], accepted[p])
    BY <1>1 DEF HonestInv, PartyOK
  <2>2. PassedOver(p) = Passed(network, p, session[p])
    BY <1>1, PassedIsPassedOver
  <2> QED BY <2>1, <2>2 DEF Pending, CacheEntry
<1> QED BY <1>1, HonestInvariance, PTL

\* What p would have to skip to get to m, when m lies ahead.
LEMMA Gaps ==
    ASSUME HonestInv, NEW p \in Party, NEW m \in network, m.from = Peer(p)
    PROVE  LET s == session[p]
               k == Depth(p)
               n == m.header.message_number
               pcl == m.header.previous_chain_length
           IN  /\ m \in Passed(network, p, s) => ToSkip(p, m, TRUE) = {} /\ ToSkip(p, m, FALSE) = {}
               /\ Chain(m) + 1 = k /\ n >= s.recv_message_number =>
                     /\ ToSkip(p, m, TRUE) = OnChain(network, k - 1, s.recv_message_number, n)
                     /\ ToSkip(p, m, FALSE) = {}
               /\ Chain(m) = k + 1 =>
                     /\ ToSkip(p, m, TRUE) = OnChain(network, k + 1, 0, n)
                     /\ k < 2 => ToSkip(p, m, FALSE) = {}
                     /\ k >= 2 => ToSkip(p, m, FALSE) = OnChain(network, k - 1, s.recv_message_number, pcl)
<1>0. PICK s, k, n, pcl, recv :
         /\ s = session[p] /\ k = Depth(p) /\ n = m.header.message_number
         /\ pcl = m.header.previous_chain_length /\ recv = s.recv_message_number
  OBVIOUS
<1>1. /\ NetworkOK(network, Turns) /\ k \in Nat /\ s.root_key = Root(Turns, k) /\ recv \in Nat
      /\ View(network, Turns, p, s, k, accepted[p]) /\ k % 2 = Par(p)
  BY <1>0, HonestViews DEF View, GoodState, RatchetState, Tracks
<1>2. /\ Chain(m) \in Nat /\ n \in Nat /\ m.mk[2] = n /\ m.mk[1] = Root(Turns, Chain(m))
      /\ m.mk = <<Root(Turns, Chain(m)), n>>
  BY <1>0, <1>1, NetworkTypes DEF HonestInv, HeaderOK
<1>3. ASSUME NEW x \in network
      PROVE  /\ Chain(x) \in Nat /\ Chain(x) >= 1 /\ x.mk[2] \in Nat
             /\ x.mk[1] = m.mk[1] <=> Chain(x) = Chain(m)
  <2>1. /\ Chain(x) \in Nat /\ Chain(x) >= 1 /\ x.mk[2] \in Nat
        /\ x.mk[1] = Root(Turns, Chain(x))
    BY <1>1, NetworkTypes DEF HonestInv, HeaderOK
  <2>2. x.mk[1] = m.mk[1] => Chain(x) = Chain(m)
    BY DEF Chain
  <2> QED BY <1>2, <2>1, <2>2
<1>4. ASSUME NEW x \in network
      PROVE  x \in PassedOver(p) <=>
                /\ x.from = Peer(p)
                /\ Chain(x) + 1 < k \/ (Chain(x) + 1 = k /\ x.mk[2] < recv)
  <2>1. PassedOver(p) = Passed(network, p, s)
    BY <1>0, PassedIsPassedOver
  <2> QED BY <1>0, <1>1, <2>1, BehindAt DEF Passed
<1>5. ASSUME NEW x \in network, x.from = Peer(p)
      PROVE  Chain(x) + 1 < k \/ Chain(x) + 1 = k \/ Chain(x) = k + 1
  BY <1>0, <1>5, Places
<1>6. ASSUME NEW x \in network, Chain(x) + 1 = k \/ Chain(x) = k + 1
      PROVE  x.from = Peer(p)
  BY <1>1, <1>6, ChainOwner
<1>7. /\ ToSkip(p, m, TRUE) = {x \in network : /\ x.from = Peer(p) /\ Chain(x) = Chain(m)
                                              /\ x.mk[2] < n /\ x \notin PassedOver(p)}
      /\ ToSkip(p, m, FALSE) = {x \in network : /\ x.from = Peer(p) /\ Chain(x) < Chain(m)
                                               /\ x \notin PassedOver(p)}
  BY <1>2, <1>3 DEF ToSkip, Chain
<1>8. ASSUME m \in Passed(network, p, s)
      PROVE  ToSkip(p, m, TRUE) = {} /\ ToSkip(p, m, FALSE) = {}
  <2>1. Chain(m) + 1 < k \/ (Chain(m) + 1 = k /\ n < recv)
    BY <1>0, <1>1, <1>2, <1>8, BehindAt DEF Passed
  <2>2. ASSUME NEW x \in network, x.from = Peer(p), Chain(x) = Chain(m), x.mk[2] < n
        PROVE  x \in PassedOver(p)
    BY <1>1, <1>2, <1>3, <1>4, <2>1, <2>2
  <2>3. ASSUME NEW x \in network, x.from = Peer(p), Chain(x) < Chain(m)
        PROVE  x \in PassedOver(p)
    BY <1>1, <1>2, <1>3, <1>4, <2>1, <2>3
  <2> QED BY <1>7, <2>2, <2>3
<1>9. ASSUME Chain(m) + 1 = k, n >= recv
      PROVE  ToSkip(p, m, TRUE) = OnChain(network, k - 1, recv, n) /\ ToSkip(p, m, FALSE) = {}
  <2>1. ASSUME NEW x \in network
        PROVE  (/\ x.from = Peer(p) /\ Chain(x) = Chain(m)
                /\ x.mk[2] < n /\ x \notin PassedOver(p))
                 <=> Chain(x) = k - 1 /\ recv <= x.mk[2] /\ x.mk[2] < n
    <3>1. Chain(x) = k - 1 <=> Chain(x) + 1 = k
      BY <1>1, <1>3
    <3>2. Chain(x) = Chain(m) <=> Chain(x) + 1 = k
      BY <1>2, <1>3, <1>9
    <3>3. Chain(x) + 1 = k => ~(Chain(x) + 1 < k)
      BY <1>1, <1>3
    <3>4. ~(x.mk[2] < recv) <=> recv <= x.mk[2]
      BY <1>1, <1>3
    <3> QED BY <1>4, <1>6, <3>1, <3>2, <3>3, <3>4
  <2>2. ASSUME NEW x \in network, x.from = Peer(p), Chain(x) < Chain(m)
        PROVE  x \in PassedOver(p)
    BY <1>1, <1>2, <1>3, <1>4, <1>9, <2>2
  <2> QED BY <1>7, <2>1, <2>2 DEF OnChain
<1>10. ASSUME Chain(m) = k + 1
       PROVE  /\ ToSkip(p, m, TRUE) = OnChain(network, k + 1, 0, n)
              /\ k < 2 => ToSkip(p, m, FALSE) = {}
              /\ k >= 2 => ToSkip(p, m, FALSE) = OnChain(network, k - 1, recv, pcl)
  <2>1. ASSUME NEW x \in network
        PROVE  (/\ x.from = Peer(p) /\ Chain(x) = Chain(m)
                /\ x.mk[2] < n /\ x \notin PassedOver(p))
                 <=> Chain(x) = k + 1 /\ 0 <= x.mk[2] /\ x.mk[2] < n
    <3>1. Chain(x) = k + 1 => ~(Chain(x) + 1 < k) /\ Chain(x) + 1 # k
      BY <1>1, <1>3
    <3>2. 0 <= x.mk[2]
      BY <1>3
    <3> QED BY <1>4, <1>6, <1>10, <3>1, <3>2
  <2>2. ASSUME NEW x \in network
        PROVE  (x.from = Peer(p) /\ Chain(x) < Chain(m) /\ x \notin PassedOver(p))
                 <=> Chain(x) + 1 = k /\ recv <= x.mk[2]
    <3>1. Chain(x) + 1 = k => ~(Chain(x) + 1 < k) /\ Chain(x) < Chain(m)
      BY <1>1, <1>3, <1>10
    <3>2. Chain(x) < Chain(m) => Chain(x) # k + 1
      BY <1>1, <1>3, <1>10
    <3>3. ~(x.mk[2] < recv) <=> recv <= x.mk[2]
      BY <1>1, <1>3
    <3> QED BY <1>4, <1>5, <1>6, <3>1, <3>2, <3>3
  <2>3. ToSkip(p, m, FALSE) = {x \in network : Chain(x) + 1 = k /\ recv <= x.mk[2]}
    BY <1>7, <2>2
  <2>4. ASSUME k < 2 PROVE ToSkip(p, m, FALSE) = {}
    <3>1. \A x \in network : Chain(x) + 1 # k
      BY <1>1, <1>3, <2>4
    <3> QED BY <2>3, <3>1
  <2>5. ASSUME k >= 2 PROVE ToSkip(p, m, FALSE) = OnChain(network, k - 1, recv, pcl)
    <3>1. ChainIs(network, Turns, k - 1, pcl)
      BY <1>0, <1>1, <1>10, <2>5, RatchetView
    <3>2. \A x \in network : Chain(x) = k - 1 <=> Chain(x) + 1 = k
      BY <1>1, <1>3
    <3> QED BY <2>3, <3>1, <3>2 DEF ChainIs, OnChain
  <2>6. ToSkip(p, m, TRUE) = OnChain(network, k + 1, 0, n)
    BY <1>7, <2>1 DEF OnChain
  <2> QED BY <2>4, <2>5, <2>6
<1> QED BY <1>0, <1>8, <1>9, <1>10

\* Up to MAX_SKIP missing messages on a chain are tolerated, and not one more.
THEOREM LimitExact ==
    ASSUME ~Redelivery, ~Damage
    PROVE  Spec => []SkipLimitExact
<1>1. ASSUME HonestInv PROVE SkipLimitExact
  <2> SUFFICES ASSUME NEW p \in Party, NEW m \in network, m.from = Peer(p), m \notin accepted[p]
               PROVE  Opens(session[p], m.header, m.mk, FreshKey(p)) <=>
                         /\ Cardinality(ToSkip(p, m, TRUE)) <= MAX_SKIP
                         /\ Cardinality(ToSkip(p, m, FALSE)) <= MAX_SKIP
    BY DEF SkipLimitExact
  <2>0. PICK s, k, h, n, recv, A, nk :
           /\ s = session[p] /\ k = Depth(p) /\ h = m.header /\ n = m.header.message_number
           /\ recv = session[p].recv_message_number /\ A = accepted[p] /\ nk = FreshKey(p)
    OBVIOUS
  <2>1. /\ NetworkOK(network, Turns) /\ View(network, Turns, p, s, k, A) /\ k \in Nat /\ k % 2 = Par(p)
        /\ Tracks(Turns, s, k) /\ recv \in Nat /\ recv = s.recv_message_number
    BY <1>1, <2>0, HonestViews DEF View, GoodState, RatchetState
  <2>2. /\ h \in MessageHeader /\ n \in Nat /\ n = m.mk[2] /\ n = h.message_number
        /\ Chain(m) \in Nat /\ Chain(m) >= 1 /\ m.mk = <<Root(Turns, Chain(m)), n>>
    BY <2>0, <2>1, NetworkTypes DEF MessageHeader
  <2>3. nk = Turns[k + 2]
    BY <1>1, <2>0, <2>1, OwnKeys DEF HonestInv, PartyOK, FreshKey
  <2>4. /\ m \in Passed(network, p, s) => Opens(s, h, m.mk, nk)
        /\ m \notin Passed(network, p, s) /\ Chain(m) + 1 = k
              => n >= recv /\ (Opens(s, h, m.mk, nk) <=> n - recv <= MAX_SKIP)
        /\ Chain(m) = k + 1
              => (Opens(s, h, m.mk, nk) <=>
                     /\ n <= MAX_SKIP
                     /\ k >= 2 => m.header.previous_chain_length - recv <= MAX_SKIP)
    BY <2>0, <2>1, <2>3, OpensView
  <2>5. Cardinality({}) = 0 /\ 0 <= MAX_SKIP
    BY FS_EmptySet
  <2>6. \A i \in 0 .. (n - 1) : \E x \in network : x.mk = <<Root(Turns, Chain(m)), i>>
    <3>1. \A i \in 0 .. (m.mk[2] - 1) : \E x \in network : x.mk = <<m.mk[1], i>>
      BY <1>1 DEF HonestInv, HeaderOK
    <3>2. m.mk[1] = Root(Turns, Chain(m))
      BY <2>2
    <3> QED BY <2>2, <3>1, <3>2
  <2>7. CASE m \in Passed(network, p, s)
    <3>1. ToSkip(p, m, TRUE) = {} /\ ToSkip(p, m, FALSE) = {}
      BY <1>1, <2>0, <2>7, Gaps
    <3> QED BY <2>0, <2>4, <2>5, <2>7, <3>1
  <2>8. ASSUME m \notin Passed(network, p, s), Chain(m) + 1 = k
        PROVE  Opens(s, h, m.mk, nk) <=> /\ Cardinality(ToSkip(p, m, TRUE)) <= MAX_SKIP
                                         /\ Cardinality(ToSkip(p, m, FALSE)) <= MAX_SKIP
    <3>1. n >= recv /\ (Opens(s, h, m.mk, nk) <=> n - recv <= MAX_SKIP)
      BY <2>4, <2>8
    <3>2. k - 1 = Chain(m) /\ k - 1 \in Nat
      BY <2>1, <2>2, <2>8
    <3>3. ToSkip(p, m, TRUE) = OnChain(network, k - 1, recv, n) /\ ToSkip(p, m, FALSE) = {}
      BY <1>1, <2>0, <2>8, <3>1, Gaps
    <3>4. \A i \in recv .. (n - 1) : i \in 0 .. (n - 1)
      BY <2>1, <2>2
    <3>5. \A i \in recv .. (n - 1) : \E x \in network : x.mk = <<Root(Turns, k - 1), i>>
      BY <2>6, <3>2, <3>4
    <3>6. recv <= n
      BY <2>1, <2>2, <3>1
    <3>7. Cardinality(OnChain(network, k - 1, recv, n)) = n - recv
      <4>1. Filled(network, Turns, k - 1, recv, n)
        BY <3>5 DEF Filled
      <4> QED BY <2>1, <2>2, <3>2, <3>6, <4>1, Stretch
    <3> QED BY <2>5, <3>1, <3>3, <3>7
  <2>9. ASSUME m \notin Passed(network, p, s), Chain(m) = k + 1
        PROVE  Opens(s, h, m.mk, nk) <=> /\ Cardinality(ToSkip(p, m, TRUE)) <= MAX_SKIP
                                         /\ Cardinality(ToSkip(p, m, FALSE)) <= MAX_SKIP
    <3>0. PICK pcl : pcl = m.header.previous_chain_length
      OBVIOUS
    <3>1. k >= 2 => ChainIs(network, Turns, k - 1, pcl) /\ pcl >= recv
      BY <2>0, <2>1, <2>9, <3>0, RatchetView
    <3>2. Opens(s, h, m.mk, nk) <=> n <= MAX_SKIP /\ (k >= 2 => pcl - recv <= MAX_SKIP)
      BY <2>4, <2>9, <3>0
    <3>3. /\ ToSkip(p, m, TRUE) = OnChain(network, k + 1, 0, n)
          /\ k < 2 => ToSkip(p, m, FALSE) = {}
          /\ k >= 2 => ToSkip(p, m, FALSE) = OnChain(network, k - 1, recv, pcl)
      BY <1>1, <2>0, <2>9, <3>0, Gaps
    <3>4. Cardinality(OnChain(network, k + 1, 0, n)) = n
      <4>1. k + 1 \in Nat /\ 0 <= n /\ n - 0 = n
        BY <2>1, <2>2
      <4>2. Filled(network, Turns, k + 1, 0, n)
        BY <2>6, <2>9 DEF Filled
      <4>3. Cardinality(OnChain(network, k + 1, 0, n)) = n - 0
        BY <2>1, <2>2, <4>1, <4>2, Stretch
      <4> QED BY <4>1, <4>3
    <3>5. CASE k < 2
      <4>1. ~(k >= 2)
        BY <2>1, <3>5
      <4> QED BY <2>5, <3>2, <3>3, <3>4, <3>5, <4>1
    <3>6. CASE k >= 2
      <4>1. pcl \in Nat /\ k - 1 \in Nat /\ pcl >= recv /\ ChainIs(network, Turns, k - 1, pcl)
        BY <2>0, <2>1, <2>2, <3>0, <3>1, <3>6 DEF MessageHeader
      <4>2. \A i \in recv .. (pcl - 1) : i \in 0 .. (pcl - 1)
        BY <2>1, <4>1
      <4>3. \A i \in recv .. (pcl - 1) : \E x \in network : x.mk = <<Root(Turns, k - 1), i>>
        BY <4>1, <4>2 DEF ChainIs
      <4>4. Cardinality(OnChain(network, k - 1, recv, pcl)) = pcl - recv
        <5>1. Filled(network, Turns, k - 1, recv, pcl)
          BY <4>3 DEF Filled
        <5>2. recv <= pcl
          BY <2>1, <4>1
        <5> QED BY <2>1, <4>1, <5>1, <5>2, Stretch
      <4> QED BY <3>2, <3>3, <3>4, <3>6, <4>4
    <3>7. k < 2 \/ k >= 2
      BY <2>1
    <3> QED BY <3>5, <3>6, <3>7
  <2>10. m \notin Passed(network, p, s) => Chain(m) + 1 = k \/ Chain(m) = k + 1
    BY <1>1, <2>0, <2>1, Places, BehindAt DEF Passed, Tracks
  <2> QED BY <2>0, <2>7, <2>8, <2>9, <2>10
<1> QED BY <1>1, HonestInvariance, PTL

-----------------------------------------------------------------------------
(* Sessions short of the limit *)

\* The numbers in s are below the number of messages sent.
Within(s, n) == s.send_message_number <= n /\ s.previous_chain_length <= n

\* No number, in a state or a header, is above the number of messages sent.
Bounded ==
    /\ \A p \in Party : sends[p] <= MaxSends /\ Within(session[p], sends[p])
    /\ \A m \in network : Short(m)

\* A call of encrypt counts its message.
LEMMA EncryptBounded ==
    ASSUME TypeOK, Bounded, NEW p \in Party, Encrypt(p)
    PROVE  Bounded'
<1>0. PICK s, t, n, new :
         /\ s = session[p] /\ t = AfterEncrypt(s) /\ n = sends[p]
         /\ new = [from |-> p, seq |-> n, header |-> EncryptHeader(s), mk |-> EncryptKey(s)]
  OBVIOUS
<1>1. /\ n < MaxSends /\ network' = network \cup {new}
      /\ session' = [session EXCEPT ![p] = t] /\ sends' = [sends EXCEPT ![p] = @ + 1]
  BY <1>0 DEF Encrypt
<1>2. /\ s \in RatchetState /\ n \in Nat /\ Within(s, n)
      /\ s.send_message_number \in Nat /\ s.previous_chain_length \in Nat
  BY <1>0 DEF TypeOK, Bounded, RatchetState
<1>3. /\ t.send_message_number = s.send_message_number + 1
      /\ t.previous_chain_length = s.previous_chain_length
  BY <1>0, <1>2 DEF AfterEncrypt, RatchetState
<1>4. n + 1 <= MaxSends /\ Within(t, n + 1)
  BY <1>1, <1>2, <1>3 DEF Within
<1>5. Short(new)
  <2>1. /\ new.header.message_number = s.send_message_number
        /\ new.header.previous_chain_length = s.previous_chain_length
    BY <1>0 DEF EncryptHeader
  <2> QED BY <1>1, <1>2, <2>1 DEF Within, Short
<1>6. \A q \in Party : sends'[q] <= MaxSends /\ Within(session'[q], sends'[q])
  BY <1>0, <1>1, <1>4 DEF TypeOK, Bounded
<1> QED BY <1>1, <1>5, <1>6 DEF Bounded, Short

\* A DH step of decrypt moves the sending number to the previous chain's length.
LEMMA DecryptBounded ==
    ASSUME HonestInv, Bounded, ~Redelivery, NEW p \in Party, NEW m \in network,
           Decrypt(p, m, m.header, TRUE)
    PROVE  Bounded'
<1>1. /\ UNCHANGED <<network, sends>>
      /\ \E t : /\ session' = [session EXCEPT ![p] = t]
                /\ \/ /\ t.send_message_number = session[p].send_message_number
                      /\ t.previous_chain_length = session[p].previous_chain_length
                   \/ /\ t.send_message_number = 0
                      /\ t.previous_chain_length = session[p].send_message_number
  BY HonestDecrypt
<1>2. PICK t : /\ session' = [session EXCEPT ![p] = t]
               /\ \/ /\ t.send_message_number = session[p].send_message_number
                     /\ t.previous_chain_length = session[p].previous_chain_length
                  \/ /\ t.send_message_number = 0
                     /\ t.previous_chain_length = session[p].send_message_number
  BY <1>1
<1>3. TypeOK /\ sends[p] \in Nat /\ Within(session[p], sends[p])
  BY DEF HonestInv, RatchetInv, TypeOK, Bounded
<1>4. Within(t, sends[p])
  BY <1>2, <1>3 DEF Within
<1>5. \A q \in Party : session'[q] = IF q = p THEN t ELSE session[q]
  BY <1>2, <1>3 DEF TypeOK
<1> QED BY <1>1, <1>4, <1>5 DEF Bounded, Short

\* While no side sends more messages than MAX_SKIP, every message that is still to arrive
\* will be decrypted, however late it is and whatever overtook it.  With redelivery this is
\* false, as the run ratchet_redelivery shows.
THEOREM LateOpens ==
    ASSUME ~Redelivery, ~Damage, MaxSends <= MAX_SKIP
    PROVE  Spec => []LateArrivalsOpen
<1>1. Init => Bounded
  <2> SUFFICES ASSUME Init PROVE Bounded
    OBVIOUS
  <2>1. network = {} /\ \A p \in Party : sends[p] = 0
    BY DEF Init
  <2>2. \A p \in Party : /\ session[p].send_message_number = 0
                         /\ session[p].previous_chain_length = 0
    BY DEF Init, init_sender, init_receiver
  <2> QED BY <2>1, <2>2 DEF Bounded, Within
<1>2. ASSUME HonestInv, Bounded, [Next]_vars PROVE Bounded'
  <2>1. TypeOK
    BY <1>2 DEF HonestInv, RatchetInv
  <2>2. CASE \E p \in Party : Encrypt(p)
    BY <1>2, <2>1, <2>2, EncryptBounded
  <2>3. CASE \E p \in Party, m \in network : Decrypt(p, m, m.header, TRUE)
    BY <1>2, <2>3, DecryptBounded
  <2>4. CASE UNCHANGED vars
    BY <1>2, <2>4 DEF vars, Bounded, Within, Short
  <2> QED BY <1>2, <2>2, <2>3, <2>4 DEF Next
<1>3. ASSUME HonestInv, Bounded PROVE LateArrivalsOpen
  <2> SUFFICES ASSUME NEW p \in Party, NEW m \in network, m.from = Peer(p), m \notin delivered[p]
               PROVE  Opens(session[p], m.header, m.mk, FreshKey(p))
    BY DEF LateArrivalsOpen
  <2>0. PICK s, k, A : s = session[p] /\ k = Depth(p) /\ A = accepted[p]
    OBVIOUS
  <2>1. /\ NetworkOK(network, Turns) /\ View(network, Turns, p, s, k, A)
        /\ k \in Nat /\ k % 2 = Par(p)
    BY <1>3, <2>0, HonestViews
  <2>2. m \notin A /\ Short(m)
    BY <1>3, <2>0 DEF HonestInv, PartyOK, Bounded
  <2>3. Chain(m) <= k + 1
    <3>1. Chain(m) \in Nat
      BY <2>1, NetworkTypes
    <3> QED BY <1>3, <2>0, <2>1, <3>1, Places
  <2>4. FreshKey(p) = Turns[k + 2]
    BY <1>3, <2>0, <2>1, OwnKeys DEF HonestInv, PartyOK, FreshKey
  <2>5. Opens(s, m.header, m.mk, Turns[k + 2])
    BY <2>1, <2>2, <2>3, ShortOpens
  <2> QED BY <2>0, <2>4, <2>5
<1>4. Spec => []HonestInv
  BY HonestInvariance
<1> QED BY <1>1, <1>2, <1>3, <1>4, PTL DEF Spec
=============================================================================
