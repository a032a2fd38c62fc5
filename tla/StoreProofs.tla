----------------------------- MODULE StoreProofs -----------------------------
(***************************************************************************)
(* Proofs about RatchetStore: what to_bytes and from_bytes preserve, that  *)
(* processes which end at any moment never use a message key twice, with   *)
(* or without redelivery, and that without redelivery nothing which        *)
(* reached the relay becomes unreadable; for any number of restarts,       *)
(* messages and key pairs.                                                 *)
(***************************************************************************)
EXTENDS RatchetStore, RatchetProofs, FiniteSetTheorems

USE RatchetAssumption, SessionAssumption

-----------------------------------------------------------------------------
(* Saving and restoring *)

\* A cache is what a HashMap can hold: finite, with one key under each header.
IsMap(cache) ==
    /\ IsFiniteSet(cache)
    /\ \A e, f \in cache : e.pk = f.pk /\ e.n = f.n => e = f

\* The list to_bytes makes of a finite set has each element once.
LEMMA ListOfSet ==
    ASSUME NEW S, IsFiniteSet(S)
    PROVE  /\ SetToSeq(S) \in [1 .. Cardinality(S) -> S]
           /\ SetToSeq(S) \in Injection(1 .. Cardinality(S), S)
           /\ SetToSeq(S) \in Surjection(1 .. Cardinality(S), S)
           /\ Cardinality(S) \in Nat
<1> DEFINE n == Cardinality(S)
<1>1. n \in Nat /\ ExistsBijection(1 .. n, S)
  BY FS_CardinalityType
<1>2. \E f \in [1 .. n -> S] : IsInjective(f)
  BY <1>1 DEF ExistsBijection, Bijection, Injection
<1>3. SetToSeq(S) \in [1 .. n -> S] /\ IsInjective(SetToSeq(S))
  BY <1>2 DEF SetToSeq
<1>4. SetToSeq(S) \in Injection(1 .. n, S)
  BY <1>3 DEF Injection
<1>5. Cardinality(1 .. n) = n
  <2>1. Cardinality(1 .. n) = IF 1 > n THEN 0 ELSE n - 1 + 1
    BY <1>1, FS_Interval
  <2> HIDE DEF n
  <2> QED BY <1>1, <2>1
<1>6. SetToSeq(S) \in Surjection(1 .. n, S)
  <2> DEFINE f == SetToSeq(S)
             T == 1 .. n
  <2>1. f \in Injection(T, S) /\ Cardinality(T) = Cardinality(S)
    BY <1>4, <1>5
  <2> HIDE DEF f, T
  <2>2. f \in Surjection(T, S)
    BY <2>1, FS_Injection
  <2> QED BY <2>2 DEF f, T
<1> QED BY <1>1, <1>3, <1>4, <1>6

\* Read back into a map, the list is the set again.
LEMMA MapOfList ==
    ASSUME NEW S, IsMap(S)
    PROVE  ToMap(SetToSeq(S)) = S
<1> DEFINE n == Cardinality(S)
           l == SetToSeq(S)
<1>1. /\ n \in Nat /\ l \in [1 .. n -> S] /\ l \in Injection(1 .. n, S)
      /\ l \in Surjection(1 .. n, S)
  BY ListOfSet DEF IsMap
<1>2. DOMAIN l = 1 .. n
  BY <1>1
<1> HIDE DEF l, n
<1>3. Len(l) = n
  BY <1>1, <1>2
<1>4. ASSUME NEW k \in DOMAIN l, NEW j \in (k + 1) .. Len(l)
      PROVE  <<l[j].pk, l[j].n>> # <<l[k].pk, l[k].n>>
  <2>1. j \in 1 .. n /\ k \in 1 .. n /\ j # k
    BY <1>1, <1>2, <1>3
  <2>2. l[j] \in S /\ l[k] \in S /\ l[j] # l[k]
    BY <1>1, <2>1 DEF Injection, IsInjective
  <2> QED BY <2>2 DEF IsMap
<1>5. ToMap(l) = {l[i] : i \in DOMAIN l}
  BY <1>4 DEF ToMap
<1>6. {l[i] : i \in DOMAIN l} = S
  BY <1>1, <1>2 DEF Surjection
<1> QED BY <1>5, <1>6 DEF l

\* Nothing of a session is lost on the way to the disk and back.
THEOREM SaveRestores ==
    ASSUME NEW s \in RatchetState, IsMap(s.skipped_keys)
    PROVE  from_bytes(to_bytes(s)) = s
<1>1. ToMap(SetToSeq(s.skipped_keys)) = s.skipped_keys
  BY MapOfList
<1>2. None \notin {s.sending_keypair, s.sending_keypair}
  BY DEF RatchetState
<1>3. from_bytes(to_bytes(s)) =
        [root_key              |-> s.root_key,
         sending_chain_key     |-> s.sending_chain_key,
         receiving_chain_key   |-> s.receiving_chain_key,
         sending_keypair       |-> s.sending_keypair,
         remote_ratchet_key    |-> s.remote_ratchet_key,
         send_message_number   |-> s.send_message_number,
         recv_message_number   |-> s.recv_message_number,
         previous_chain_length |-> s.previous_chain_length,
         skipped_keys          |-> s.skipped_keys]
  BY <1>1, <1>2 DEF from_bytes, to_bytes, Restored, RatchetStateSer
<1> QED BY <1>3 DEF RatchetState

-----------------------------------------------------------------------------
(* The cache stays a map *)

\* The skipping loop overwrites what is filed under the headers it passes.
LEMMA SkippedMap ==
    ASSUME NEW s \in RatchetState, NEW until \in Nat, IsMap(s.skipped_keys)
    PROVE  IsMap(CacheSkipped(s, until).skipped_keys)
<1> DEFINE Entry(i) == [pk |-> s.remote_ratchet_key, n |-> i,
                        mk |-> MessageKey(s.receiving_chain_key, i - s.recv_message_number)]
           new == {Entry(i) : i \in Skipped(s, until)}
           replaced == {e \in s.skipped_keys :
                           e.pk = s.remote_ratchet_key /\ e.n \in Skipped(s, until)}
           kept == s.skipped_keys \ replaced
<1>1. CacheSkipped(s, until).skipped_keys = kept \cup new
  BY DEF CacheSkipped, RatchetState
<1>2. IsFiniteSet(new)
  <2> DEFINE I == Skipped(s, until)
             f == [i \in I |-> Entry(i)]
  <2>1. IsFiniteSet(I)
    <3>1. s.recv_message_number \in Int /\ until - 1 \in Int
      BY DEF RatchetState
    <3> QED BY <3>1, FS_Interval DEF Skipped
  <2>2. f \in Surjection(I, new)
    BY DEF Surjection
  <2> HIDE DEF f, I, new
  <2> QED BY <2>1, <2>2, FS_Surjection
<1>3. IsFiniteSet(kept)
  <2>1. kept \in SUBSET s.skipped_keys
    OBVIOUS
  <2> QED BY <2>1, FS_Subset DEF IsMap
<1>4. IsFiniteSet(kept \cup new)
  <2> HIDE DEF kept, new
  <2> QED BY <1>2, <1>3, FS_Union
<1>5. ASSUME NEW e \in kept \cup new, NEW f \in kept \cup new, e.pk = f.pk, e.n = f.n
      PROVE  e = f
  <2>1. ASSUME NEW x \in kept, NEW y \in new PROVE ~(x.pk = y.pk /\ x.n = y.n)
    OBVIOUS
  <2>2. CASE e \in kept /\ f \in kept
    BY <1>5, <2>2 DEF IsMap
  <2>3. CASE e \in new /\ f \in new
    BY <1>5, <2>3
  <2> QED BY <1>5, <2>1, <2>2, <2>3
<1> QED BY <1>1, <1>4, <1>5 DEF IsMap

\* A state from which the session can go on.
Sound(p, s) == GoodState(p, s, {}) /\ IsMap(s.skipped_keys)

\* The states encrypt and the stages of decrypt leave are sound again.
LEMMA EncryptSound ==
    ASSUME NEW p \in Party, NEW s, Sound(p, s), CanEncrypt(s)
    PROVE  /\ Sound(p, AfterEncrypt(s))
           /\ AfterEncrypt(s).root_key = s.root_key
           /\ AfterEncrypt(s).sending_chain_key # None
           /\ AfterEncrypt(s).sending_chain_key.n = s.sending_chain_key.n + 1
<1>1. GoodState(p, s, {}) /\ s \in RatchetState
  BY DEF Sound, GoodState
<1>2. AfterEncrypt(s).skipped_keys = s.skipped_keys
  BY <1>1 DEF AfterEncrypt, RatchetState
<1>3. /\ GoodState(p, AfterEncrypt(s), {})
      /\ AfterEncrypt(s).root_key = s.root_key
      /\ AfterEncrypt(s).sending_chain_key # None
      /\ AfterEncrypt(s).sending_chain_key.n = s.sending_chain_key.n + 1
  BY <1>1, EncryptGood
<1> QED BY <1>2, <1>3 DEF Sound

LEMMA CacheHitSound ==
    ASSUME NEW p \in Party, NEW s, Sound(p, s), NEW h
    PROVE  /\ Sound(p, AfterCacheHit(s, h))
           /\ AfterCacheHit(s, h).root_key = s.root_key
           /\ AfterCacheHit(s, h).sending_chain_key = s.sending_chain_key
<1> DEFINE t == AfterCacheHit(s, h)
<1>1. GoodState(p, s, {}) /\ s \in RatchetState /\ IsMap(s.skipped_keys)
  BY DEF Sound, GoodState
<1>2. t.skipped_keys \in SUBSET s.skipped_keys
  BY <1>1 DEF AfterCacheHit, RatchetState
<1>3. /\ GoodState(p, t, WithHits({}, s, h))
      /\ t.root_key = s.root_key /\ t.sending_chain_key = s.sending_chain_key
  BY <1>1, CacheHitGood
<1>4. GoodState(p, t, {})
  BY <1>3, GoodWithLess
<1>5. IsMap(t.skipped_keys)
  <2>1. IsFiniteSet(t.skipped_keys)
    BY <1>1, <1>2, FS_Subset DEF IsMap
  <2> QED BY <1>1, <1>2, <2>1 DEF IsMap
<1> QED BY <1>3, <1>4, <1>5 DEF Sound

\* So does the rest of the old chain.
LEMMA OldChainMap ==
    ASSUME NEW s \in RatchetState, NEW until \in Nat, IsMap(s.skipped_keys)
    PROVE  LET u == skip_message_keys_for_current_chain(s, until)
           IN  u \in RatchetState /\ IsMap(u.skipped_keys)
<1> DEFINE u == skip_message_keys_for_current_chain(s, until)
<1>1. CASE OldChainOpen(s, until)
  <2>1. CacheSkipped(s, until) \in RatchetState
    BY <1>1, CacheSkippedType DEF OldChainOpen
  <2>2. u = [CacheSkipped(s, until) EXCEPT !.recv_message_number = until]
    BY <1>1 DEF skip_message_keys_for_current_chain
  <2>3. u \in RatchetState /\ u.skipped_keys = CacheSkipped(s, until).skipped_keys
    BY <2>1, <2>2 DEF RatchetState
  <2> QED BY <2>3, SkippedMap
<1>2. CASE ~OldChainOpen(s, until)
  BY <1>2 DEF skip_message_keys_for_current_chain
<1> QED BY <1>1, <1>2

LEMMA RatchetSound ==
    ASSUME NEW p \in Party, NEW s, Sound(p, s), NEW h \in MessageHeader, NEW nk \in Keys
    PROVE  /\ Sound(p, AfterRatchet(s, h, nk))
           /\ \/ AfterRatchet(s, h, nk) = s
              \/ Len(AfterRatchet(s, h, nk).root_key) = Len(s.root_key) + 2
<1> DEFINE t == AfterRatchet(s, h, nk)
           u == skip_message_keys_for_current_chain(s, h.previous_chain_length)
<1>1. GoodState(p, s, {}) /\ s \in RatchetState /\ IsMap(s.skipped_keys)
  BY DEF Sound, GoodState
<1>2. GoodState(p, t, {}) /\ (t = s \/ Len(t.root_key) = Len(s.root_key) + 2)
  BY <1>1, RatchetGood
<1>3. IsMap(t.skipped_keys)
  <2>1. CASE ~NeedRatchet(s, h)
    BY <1>1, <2>1 DEF AfterRatchet
  <2>2. CASE NeedRatchet(s, h)
    <3>1. u \in RatchetState /\ IsMap(u.skipped_keys)
      BY <1>1, OldChainMap DEF MessageHeader
    <3>2. t = dh_ratchet_step(u, h.ratchet_public_key, nk)
      BY <2>2 DEF AfterRatchet
    <3> HIDE DEF u
    <3>3. t.skipped_keys = u.skipped_keys
      BY <3>1, <3>2 DEF dh_ratchet_step, NewRootsAndChains, RatchetState
    <3> QED BY <3>1, <3>3
  <2> QED BY <2>1, <2>2
<1> QED BY <1>2, <1>3 DEF Sound

LEMMA FailedStepSound ==
    ASSUME NEW p \in Party, NEW s, Sound(p, s), NEW h \in MessageHeader
    PROVE  /\ Sound(p, AfterFailedStep(s, h))
           /\ AfterFailedStep(s, h).root_key = s.root_key
           /\ AfterFailedStep(s, h).sending_chain_key = s.sending_chain_key
<1> DEFINE t == AfterFailedStep(s, h)
           u == skip_message_keys_for_current_chain(s, h.previous_chain_length)
<1>1. GoodState(p, s, {}) /\ s \in RatchetState /\ IsMap(s.skipped_keys)
  BY DEF Sound, GoodState
<1>2. /\ GoodState(p, t, {}) /\ t.root_key = s.root_key
      /\ t.sending_chain_key = s.sending_chain_key
  BY <1>1, FailedStepGood
<1>3. u \in RatchetState /\ IsMap(u.skipped_keys)
  BY <1>1, OldChainMap DEF MessageHeader
<1>4. t = StepBegun(u, h.ratchet_public_key)
  BY DEF AfterFailedStep
<1>5. t.skipped_keys = u.skipped_keys
  <2> HIDE DEF u
  <2> QED BY <1>3, <1>4 DEF StepBegun, RatchetState
<1> QED BY <1>2, <1>3, <1>5 DEF Sound

LEMMA AdvanceSound ==
    ASSUME NEW p \in Party, NEW s, Sound(p, s), NEW h \in MessageHeader,
           ~SkipRejects(s, h.message_number)
    PROVE  /\ Sound(p, AfterAdvance(s, h))
           /\ AfterAdvance(s, h).root_key = s.root_key
           /\ AfterAdvance(s, h).sending_chain_key = s.sending_chain_key
<1> DEFINE t == AfterAdvance(s, h)
           c == CacheSkipped(s, h.message_number)
<1>1. GoodState(p, s, {}) /\ s \in RatchetState /\ IsMap(s.skipped_keys)
  BY DEF Sound, GoodState
<1>2. /\ GoodState(p, t, WithTried({}, s, h))
      /\ t.root_key = s.root_key /\ t.sending_chain_key = s.sending_chain_key
  BY <1>1, AdvanceGood
<1>3. GoodState(p, t, {})
  BY <1>2, GoodWithLess
<1>4. h.message_number \in Nat /\ h.message_number >= s.recv_message_number
  BY <1>1 DEF MessageHeader, SkipRejects, RatchetState
<1>5. c \in RatchetState
  BY <1>1, <1>4, CacheSkippedType DEF SkipRejects
<1>6. t.skipped_keys = c.skipped_keys
  BY <1>5 DEF AfterAdvance, RatchetState
<1>7. IsMap(c.skipped_keys)
  BY <1>1, <1>4, SkippedMap
<1> QED BY <1>2, <1>3, <1>6, <1>7 DEF Sound

-----------------------------------------------------------------------------
(* The inductive invariant *)

\* The state p's next process would start from.
Saved(p) == from_bytes(disk[p].bytes)

\* The key was used on a chain p sends on, before the state s was reached.
UsedBefore(p, s, mk) ==
    /\ Len(mk[1]) % 2 = Par(p)
    /\ Len(mk[1]) <= Len(s.root_key)
    /\ Len(mk[1]) = Len(s.root_key)
          => s.sending_chain_key # None /\ mk[2] < s.sending_chain_key.n

\* The saved state has forgotten the key of every message that may have left.
StoreInv ==
    /\ session \in [Party -> RatchetState]
    /\ keygen \in [Party -> Nat]
    /\ sends \in [Party -> Nat]
    /\ disk = [p \in Party |-> disk[p]]
    /\ network \subseteq Messages
    /\ unsaved \subseteq held /\ held \subseteq network
    /\ \A p \in Party : Sound(p, session[p]) /\ Sound(p, Saved(p))
    /\ \A m \in network : UsedBefore(m.from, session[m.from], m.mk)
    /\ \A m \in network \ unsaved : UsedBefore(m.from, Saved(m.from), m.mk)
    /\ UniqueMessageKeys

\* The states both sides start from are sound.
LEMMA StoreInitInv == StoreInit => StoreInv
<1> SUFFICES ASSUME StoreInit PROVE StoreInv
  OBVIOUS
<1>1. RatchetInv
  BY InitInv DEF StoreInit
<1>2. /\ network = {} /\ held = {} /\ unsaved = {}
      /\ session \in [Party -> RatchetState]
      /\ keygen \in [Party -> Nat] /\ sends \in [Party -> Nat]
      /\ disk = [p \in Party |-> OnDisk(session[p], {}, {})]
      /\ UniqueMessageKeys
  BY <1>1 DEF RatchetInv, TypeOK, StoreInit, Init
<1>3. ASSUME NEW p \in Party
      PROVE  Sound(p, session[p]) /\ Saved(p) = session[p]
  <2>1. GoodState(p, session[p], {})
    <3>1. GoodState(p, session[p], AcceptedKeys(p))
      BY <1>1 DEF RatchetInv
    <3> QED BY <3>1, GoodWithLess
  <2>2. session[p].skipped_keys = {}
    BY DEF StoreInit, Init, init_sender, init_receiver
  <2>3. IsMap(session[p].skipped_keys)
    BY <2>2, FS_EmptySet DEF IsMap
  <2>4. session[p] \in RatchetState
    BY <1>2
  <2>5. disk[p].bytes = to_bytes(session[p])
    BY <1>2 DEF OnDisk
  <2> QED BY <2>1, <2>3, <2>4, <2>5, SaveRestores DEF Sound, Saved
<1> QED BY <1>2, <1>3 DEF StoreInv

\* A call of encrypt: its message is behind the state in memory, not yet behind
\* the saved one, and its key is new.
LEMMA EncryptHeldInv ==
    ASSUME StoreInv, NEW p \in Party, EncryptHeld(p)
    PROVE  StoreInv'
<1> DEFINE s == session[p]
           t == AfterEncrypt(s)
           new == [from |-> p, seq |-> sends[p],
                   header |-> EncryptHeader(s), mk |-> EncryptKey(s)]
<1>1. /\ CanEncrypt(s)
      /\ network' = network \cup {new}
      /\ session' = [session EXCEPT ![p] = t]
      /\ sends' = [sends EXCEPT ![p] = @ + 1]
      /\ keygen' = keygen /\ disk' = disk
      /\ held' = held \cup (network' \ network)
      /\ unsaved' = unsaved \cup (network' \ network)
  BY DEF EncryptHeld, Encrypt
<1>2. s \in RatchetState /\ Sound(p, s) /\ sends[p] \in Nat
  BY DEF StoreInv
<1>3. /\ Sound(p, t) /\ t.root_key = s.root_key
      /\ t.sending_chain_key # None /\ t.sending_chain_key.n = s.sending_chain_key.n + 1
      /\ t \in RatchetState
  BY <1>1, <1>2, EncryptSound DEF Sound, GoodState
<1>4. new \in Messages
  BY <1>1, <1>2, EncryptTypes DEF Messages
<1>5. /\ new.from = p /\ new.mk[1] = s.root_key /\ new.mk[2] = s.sending_chain_key.n
      /\ s.sending_chain_key.n \in Nat
  <2>1. s.sending_chain_key.chain = s.root_key /\ s.sending_chain_key \in ChainKeys
    BY <1>1, <1>2 DEF Sound, GoodState, SendingOK, CanEncrypt, RatchetState
  <2>2. s.sending_chain_key.n \in Nat
    BY <2>1 DEF ChainKeys
  <2> QED BY <2>1, <2>2 DEF EncryptKey, MessageKey
<1>6. Len(s.root_key) \in Nat /\ Len(s.root_key) % 2 = Par(p)
  <2>1. s.root_key \in RootKeys
    BY <1>2 DEF RatchetState
  <2>2. Len(s.root_key) \in Nat
    BY <2>1 DEF RootKeys
  <2>3. Len(s.root_key) % 2 = Par(p)
    BY <1>2 DEF Sound, GoodState, SendingOK
  <2> QED BY <2>2, <2>3
<1>7. \A q \in Party : session'[q] = IF q = p THEN t ELSE session[q]
  BY <1>1 DEF StoreInv
<1>8. \A q \in Party : Saved(q)' = Saved(q)
  BY <1>1 DEF Saved
<1>9. \A m \in network : m.from \in Party /\ m.mk[2] \in Nat
  BY DEF StoreInv, Messages, MsgKeys
<1>10. ASSUME NEW m \in network
      PROVE  /\ UsedBefore(m.from, session'[m.from], m.mk)
             /\ m.mk # new.mk
  <2>1. UsedBefore(m.from, session[m.from], m.mk) /\ m.from \in Party /\ m.mk[2] \in Nat
    BY <1>9 DEF StoreInv
  <2>2. /\ session'[m.from].root_key = session[m.from].root_key
        /\ session[m.from].sending_chain_key # None
              => session'[m.from].sending_chain_key # None
        /\ m.mk[2] < session[m.from].sending_chain_key.n
              => m.mk[2] < session'[m.from].sending_chain_key.n
    BY <1>3, <1>5, <1>7, <2>1
  <2>3. UsedBefore(m.from, session'[m.from], m.mk)
    BY <2>1, <2>2 DEF UsedBefore
  <2>4. m.mk[1] = s.root_key => m.from = p
    <3>1. ASSUME m.mk[1] = s.root_key PROVE Par(m.from) = Par(p)
      BY <1>6, <2>1, <3>1 DEF UsedBefore
    <3> QED BY <2>1, <3>1 DEF Par
  <2>5. m.from = p /\ m.mk[1] = s.root_key => m.mk[2] < s.sending_chain_key.n
    BY <2>1 DEF UsedBefore
  <2> QED BY <1>5, <2>1, <2>3, <2>4, <2>5
<1>11. UsedBefore(p, t, new.mk)
  <2>1. t.sending_chain_key # None /\ new.mk[2] < t.sending_chain_key.n
    BY <1>3, <1>5
  <2>2. new.mk[1] = t.root_key /\ Len(t.root_key) \in Nat /\ Len(t.root_key) % 2 = Par(p)
    BY <1>3, <1>5, <1>6
  <2> HIDE DEF new, t
  <2> DEFINE a == Len(new.mk[1])
             b == Len(t.root_key)
  <2>3. a = b /\ b \in Nat /\ b % 2 = Par(p)
    BY <2>2
  <2> HIDE DEF a, b
  <2>4. a <= b /\ a % 2 = Par(p)
    BY <2>3
  <2> QED BY <2>1, <2>4 DEF UsedBefore, a, b
<1>12. \A m \in network' : UsedBefore(m.from, session'[m.from], m.mk)
  BY <1>1, <1>5, <1>7, <1>10, <1>11
<1>13. \A m \in network' \ unsaved' : UsedBefore(m.from, Saved(m.from)', m.mk)
  <2>1. \A m \in network' \ unsaved' : m \in network \ unsaved
    BY <1>1
  <2>2. \A m \in network \ unsaved : UsedBefore(m.from, Saved(m.from)', m.mk)
    BY <1>8, <1>9 DEF StoreInv
  <2> QED BY <2>1, <2>2
<1>14. UniqueMessageKeys'
  <2>1. \A x, y \in network : x.mk = y.mk => x = y
    BY DEF StoreInv, UniqueMessageKeys
  <2> HIDE DEF new
  <2> QED BY <1>1, <1>10, <2>1 DEF UniqueMessageKeys
<1>15. \A q \in Party : Sound(q, session'[q]) /\ Sound(q, Saved(q)')
  BY <1>3, <1>7, <1>8 DEF StoreInv
<1>16. /\ session' \in [Party -> RatchetState] /\ keygen' \in [Party -> Nat]
       /\ sends' \in [Party -> Nat] /\ disk' = [q \in Party |-> disk'[q]]
  BY <1>1, <1>2, <1>3 DEF StoreInv
<1>17. network' \subseteq Messages
  BY <1>1, <1>4 DEF StoreInv
<1>18. unsaved' \subseteq held' /\ held' \subseteq network'
  BY <1>1 DEF StoreInv
<1> QED BY <1>12, <1>13, <1>14, <1>15, <1>16, <1>17, <1>18 DEF StoreInv

\* What a call of decrypt does to the state in memory, in whichever stage it ends.
LEMMA DecryptSound ==
    ASSUME StoreInv, NEW p \in Party, NEW m \in network, Decrypt(p, m, m.header, TRUE)
    PROVE  \E t : /\ session' = [session EXCEPT ![p] = t] /\ Sound(p, t)
                  /\ \/ /\ t.root_key = session[p].root_key
                        /\ t.sending_chain_key = session[p].sending_chain_key
                     \/ Len(t.root_key) = Len(session[p].root_key) + 2
                  /\ keygen' \in [Party -> Nat]
                  /\ UNCHANGED <<sends, network>>
<1> DEFINE s == session[p]
           h == m.header
           r == AfterRatchet(s, h, FreshKey(p))
<1>1. Sound(p, s) /\ session \in [Party -> RatchetState] /\ keygen \in [Party -> Nat]
  BY DEF StoreInv
<1>2. h \in MessageHeader
  BY DEF StoreInv, Messages
<1>3. FreshKey(p) \in Keys
  BY <1>1 DEF FreshKey, Keys
<1>4. \A ok : Deliver(p, m, ok) => UNCHANGED <<sends, network>>
  BY DEF Deliver
<1>5. GenKeyFor(p, h) \/ UNCHANGED keygen => keygen' \in [Party -> Nat]
  BY <1>1 DEF GenKeyFor
<1>6. Sound(p, r) /\ (r = s \/ Len(r.root_key) = Len(s.root_key) + 2)
  BY <1>1, <1>2, <1>3, RatchetSound
<1>7. CASE DecryptCached(p, m, h, TRUE)
  <2>1. /\ session' = [session EXCEPT ![p] = AfterCacheHit(s, h)] /\ UNCHANGED keygen
        /\ UNCHANGED <<sends, network>>
    BY <1>4, <1>7 DEF DecryptCached
  <2> QED BY <1>1, <1>5, <2>1, CacheHitSound
<1>8. CASE DecryptOldChainTooLong(p, m, h)
  <2>1. UNCHANGED <<session, keygen>> /\ UNCHANGED <<sends, network>>
    BY <1>4, <1>8 DEF DecryptOldChainTooLong
  <2>2. session' = [session EXCEPT ![p] = s]
    BY <1>1, <2>1
  <2> QED BY <1>1, <1>5, <2>1, <2>2
<1>9. CASE DecryptSkipRejected(p, m, h)
  <2>1. /\ session' = [session EXCEPT ![p] = r] /\ GenKeyFor(p, h)
        /\ UNCHANGED <<sends, network>>
    BY <1>4, <1>9 DEF DecryptSkipRejected
  <2> HIDE DEF r
  <2> QED BY <1>5, <1>6, <2>1
<1>10. CASE DecryptAdvance(p, m, h, TRUE)
  <2>1. /\ ~SkipRejects(r, h.message_number)
        /\ session' = [session EXCEPT ![p] = AfterAdvance(r, h)] /\ GenKeyFor(p, h)
        /\ UNCHANGED <<sends, network>>
    BY <1>4, <1>10 DEF DecryptAdvance
  <2> HIDE DEF r
  <2>2. /\ Sound(p, AfterAdvance(r, h)) /\ AfterAdvance(r, h).root_key = r.root_key
        /\ AfterAdvance(r, h).sending_chain_key = r.sending_chain_key
    BY <1>2, <1>6, <2>1, AdvanceSound
  <2> QED BY <1>5, <1>6, <2>1, <2>2
<1>11. CASE DecryptStepFails(p, m, h)
  <2>1. /\ session' = [session EXCEPT ![p] = AfterFailedStep(s, h)] /\ UNCHANGED keygen
        /\ UNCHANGED <<sends, network>>
    BY <1>4, <1>11 DEF DecryptStepFails
  <2> QED BY <1>1, <1>2, <1>5, <2>1, FailedStepSound
<1> QED BY <1>7, <1>8, <1>9, <1>10, <1>11 DEF Decrypt

\* decrypt changes the state in memory only; keys used before stay used.
LEMMA DecryptReleasedInv ==
    ASSUME StoreInv, NEW p \in Party, NEW m \in network, DecryptReleased(p, m)
    PROVE  StoreInv'
<1>1. Decrypt(p, m, m.header, TRUE) /\ UNCHANGED <<disk, held, unsaved>>
  BY DEF DecryptReleased
<1>2. PICK t : /\ session' = [session EXCEPT ![p] = t] /\ Sound(p, t)
               /\ \/ /\ t.root_key = session[p].root_key
                     /\ t.sending_chain_key = session[p].sending_chain_key
                  \/ Len(t.root_key) = Len(session[p].root_key) + 2
               /\ keygen' \in [Party -> Nat]
               /\ UNCHANGED <<sends, network>>
  BY <1>1, DecryptSound
<1>3. t \in RatchetState
  BY <1>2 DEF Sound, GoodState
<1>4. \A q \in Party : session'[q] = IF q = p THEN t ELSE session[q]
  BY <1>2 DEF StoreInv
<1>5. \A q \in Party : Saved(q)' = Saved(q)
  BY <1>1 DEF Saved
<1>6. ASSUME NEW x \in network
      PROVE  UsedBefore(x.from, session'[x.from], x.mk)
  <2>1. UsedBefore(x.from, session[x.from], x.mk) /\ x.from \in Party /\ x.mk[1] \in RootKeys
    BY DEF StoreInv, Messages, MsgKeys
  <2>2. session[p].root_key \in RootKeys
    BY DEF StoreInv, RatchetState
  <2>3. Len(x.mk[1]) \in Nat /\ Len(session[p].root_key) \in Nat
    BY <2>1, <2>2 DEF RootKeys
  <2>4. CASE x.from # p
    BY <1>4, <2>1, <2>4
  <2>5. CASE x.from = p
    <3>1. session'[x.from] = t /\ UsedBefore(p, session[p], x.mk)
      BY <1>4, <2>1, <2>5
    <3>2. CASE /\ t.root_key = session[p].root_key
               /\ t.sending_chain_key = session[p].sending_chain_key
      BY <2>5, <3>1, <3>2 DEF UsedBefore
    <3>3. CASE Len(t.root_key) = Len(session[p].root_key) + 2
      <4>1. Len(x.mk[1]) <= Len(session[p].root_key) /\ Len(x.mk[1]) % 2 = Par(p)
        BY <3>1 DEF UsedBefore
      <4>2. Len(x.mk[1]) <= Len(t.root_key) /\ Len(x.mk[1]) # Len(t.root_key)
        BY <2>3, <3>3, <4>1
      <4> QED BY <2>5, <3>1, <4>1, <4>2 DEF UsedBefore
    <3> QED BY <1>2, <3>2, <3>3
  <2> QED BY <2>4, <2>5
<1>7. \A x \in network \ unsaved : UsedBefore(x.from, Saved(x.from)', x.mk)
  BY <1>5 DEF StoreInv, Messages
<1>8. session' \in [Party -> RatchetState]
  BY <1>2, <1>3 DEF StoreInv
<1>9. \A q \in Party : Sound(q, session'[q]) /\ Sound(q, Saved(q)')
  BY <1>2, <1>4, <1>5 DEF StoreInv
<1>10. UniqueMessageKeys'
  BY <1>2 DEF StoreInv, UniqueMessageKeys
<1> QED BY <1>1, <1>2, <1>6, <1>7, <1>8, <1>9, <1>10 DEF StoreInv

\* After a save the disk is at least as far as every message of the device.
LEMMA SaveInv ==
    ASSUME StoreInv, NEW p \in Party, Save(p)
    PROVE  StoreInv'
<1>1. /\ disk' = [disk EXCEPT ![p] = OnDisk(session[p], delivered[p], accepted[p])]
      /\ unsaved' = {m \in unsaved : m.from # p}
      /\ UNCHANGED <<session, keygen, sends, network, held>>
  BY DEF Save, vars
<1>2. Sound(p, session[p]) /\ session[p] \in RatchetState
  BY DEF StoreInv
<1>3. \A q \in Party : Saved(q)' = IF q = p THEN session[p] ELSE Saved(q)
  <2>1. from_bytes(to_bytes(session[p])) = session[p]
    BY <1>2, SaveRestores DEF Sound
  <2>2. DOMAIN disk = Party
    BY DEF StoreInv
  <2>3. disk'[p].bytes = to_bytes(session[p])
    BY <1>1, <2>2 DEF OnDisk
  <2>4. \A q \in Party : q # p => disk'[q] = disk[q]
    BY <1>1, <2>2
  <2> QED BY <2>1, <2>3, <2>4 DEF Saved
<1>4. \A m \in network' \ unsaved' : UsedBefore(m.from, Saved(m.from)', m.mk)
  BY <1>1, <1>3 DEF StoreInv, Messages
<1>5. disk' = [q \in Party |-> disk'[q]]
  BY <1>1 DEF StoreInv
<1>6. \A q \in Party : Sound(q, session'[q]) /\ Sound(q, Saved(q)')
  BY <1>1, <1>2, <1>3 DEF StoreInv
<1>7. UniqueMessageKeys' /\ \A m \in network' : UsedBefore(m.from, session'[m.from], m.mk)
  BY <1>1 DEF StoreInv, UniqueMessageKeys
<1> QED BY <1>1, <1>4, <1>5, <1>6, <1>7 DEF StoreInv

\* A restart drops what is not behind the saved state, and nothing else.
LEMMA ReopenInv ==
    ASSUME StoreInv, NEW p \in Party, Reopen(p)
    PROVE  StoreInv'
<1> DEFINE lost == {m \in held : m.from = p}
<1>1. /\ session' = [session EXCEPT ![p] = Saved(p)]
      /\ network' = network \ lost /\ held' = held \ lost /\ unsaved' = unsaved \ lost
      /\ UNCHANGED <<keygen, sends, disk>>
  BY DEF Reopen, Saved
<1>2. Sound(p, Saved(p)) /\ Saved(p) \in RatchetState
  BY DEF StoreInv, Sound, GoodState
<1>3. \A q \in Party : session'[q] = IF q = p THEN Saved(p) ELSE session[q]
  BY <1>1 DEF StoreInv
<1>4. \A q \in Party : Saved(q)' = Saved(q)
  BY <1>1 DEF Saved
<1>5. ASSUME NEW m \in network'
      PROVE  UsedBefore(m.from, session'[m.from], m.mk)
  <2>1. m \in network /\ m.from \in Party
    BY <1>1 DEF StoreInv, Messages
  <2>2. CASE m.from = p
    BY <1>1, <1>3, <2>1, <2>2 DEF StoreInv
  <2>3. CASE m.from # p
    BY <1>3, <2>1, <2>3 DEF StoreInv
  <2> QED BY <2>2, <2>3
<1>6. \A m \in network' \ unsaved' : UsedBefore(m.from, Saved(m.from)', m.mk)
  <2>1. \A m \in network' \ unsaved' : m \in network \ unsaved /\ m.from \in Party
    BY <1>1 DEF StoreInv, Messages
  <2> QED BY <1>4, <2>1 DEF StoreInv
<1>7. session' \in [Party -> RatchetState]
  BY <1>1, <1>2 DEF StoreInv
<1>8. \A q \in Party : Sound(q, session'[q]) /\ Sound(q, Saved(q)')
  BY <1>2, <1>3, <1>4 DEF StoreInv
<1>9. UniqueMessageKeys'
  BY <1>1 DEF StoreInv, UniqueMessageKeys
<1>10. /\ network' \subseteq Messages /\ unsaved' \subseteq held' /\ held' \subseteq network'
       /\ disk' = [q \in Party |-> disk'[q]]
  BY <1>1 DEF StoreInv
<1> QED BY <1>1, <1>5, <1>6, <1>7, <1>8, <1>9, <1>10 DEF StoreInv

\* StoreInv holds throughout every behaviour, whenever processes end.
THEOREM StoreInvariance == StoreSpec => []StoreInv
<1>1. ASSUME StoreInv, [StoreNext]_storeVars
      PROVE  StoreInv'
  <2>1. CASE \E p \in Party : EncryptHeld(p) \/ Save(p) \/ Reopen(p)
    BY <1>1, <2>1, EncryptHeldInv, SaveInv, ReopenInv
  <2>2. CASE \E p \in Party, m \in network : DecryptReleased(p, m)
    BY <1>1, <2>2, DecryptReleasedInv
  <2>3. CASE \E m \in held : Release(m)
    BY <1>1, <2>3 DEF Release, vars, StoreInv, Saved, Sound, UsedBefore, UniqueMessageKeys
  <2>4. CASE UNCHANGED storeVars
    BY <1>1, <2>4 DEF storeVars, StoreInv, Saved, Sound, UsedBefore, UniqueMessageKeys
  <2> QED BY <1>1, <2>1, <2>2, <2>3, <2>4 DEF StoreNext
<1> QED BY <1>1, StoreInitInv, PTL DEF StoreSpec

-----------------------------------------------------------------------------
(* The theorems *)

\* What from_bytes gives is a complete session whenever a process ends.
THEOREM StoreTypeCorrect == StoreSpec => []StoreTypeOK
<1>1. StoreInv => StoreTypeOK
  BY DEF StoreInv, StoreTypeOK, Sound, GoodState, Saved
<1> QED BY <1>1, StoreInvariance, PTL

\* No two messages that left a device are sealed with the same key, though
\* states are saved late and processes end between any two steps.
THEOREM RestartUnique == StoreSpec => []RestartKeysUnique
<1>1. StoreInv => RestartKeysUnique
  BY DEF StoreInv, UniqueMessageKeys, RestartKeysUnique
<1> QED BY <1>1, StoreInvariance, PTL
-----------------------------------------------------------------------------
(* Nothing is lost.  A restart drops messages that were saved and not       *)
(* released: their numbers stay used, so the chains are filled by the       *)
(* messages that were ever saved, not by the network.  It also makes the    *)
(* party forget a key pair it has generated since it saved: its next one    *)
(* takes that place on the line.  The invariant says that there are such    *)
(* messages, G, and such a line, K.                                         *)

\* The messages of p that only its memory accounts for.
Drafts(p) == {m \in unsaved : m.from = p}

\* How many DH outputs the root key has that p would start from.
SavedDepth(p) == Len(Saved(p).root_key)

Apart(i, j) == i = j + 1 \/ j = i + 1

\* The chains p has not reached get the keys it will generate, in order.
Keyed(K) ==
    /\ Line(K)
    /\ \A p \in Party : \A i \in Nat : K[Depth(p) + 2 + 2 * i] = <<p, keygen[p] + i>>

\* The state s of p, which has accepted A and handed over D, agrees with the saved
\* messages G; M are those it has sent itself.
Agrees(G, M, K, p, s, A, D) ==
    /\ View(G, K, p, s, Len(s.root_key), A)
    /\ SendsOn(M, K, s, Len(s.root_key))
    /\ Within(s, sends[p])
    /\ A \subseteq D

\* p in memory is ahead of p on the disk, by one DH step at most, and both are
\* one DH output away from what the peer has saved.
Ahead(p) ==
    /\ Depth(p) \in {SavedDepth(p), SavedDepth(p) + 2}
    /\ Depth(p) = SavedDepth(p) =>
          Saved(p).send_message_number <= session[p].send_message_number
    /\ Apart(Depth(p), SavedDepth(Peer(p)))
    /\ Apart(SavedDepth(p), SavedDepth(Peer(p)))

\* The place of message m is where the saved state would send, or after it.
AfterSaved(p, m) ==
    /\ SavedDepth(p) <= Chain(m)
    /\ Chain(m) = SavedDepth(p) => m.mk[2] >= Saved(p).send_message_number

PartyKept(G, K, p) ==
    /\ Agrees(G, G \cup Drafts(p), K, p, session[p], accepted[p], delivered[p])
    /\ Agrees(G, G, K, p, Saved(p), disk[p].accepted, disk[p].delivered)
    /\ NetworkOK(G \cup Drafts(p), K)
    /\ Ahead(p)
    /\ sends[p] <= MaxSends
    /\ \A m \in G : m.from = p => Chain(m) <= SavedDepth(p)
    /\ \A m \in Drafts(p) : AfterSaved(p, m) /\ Chain(m) <= Depth(p)

Kept(G, K) ==
    /\ network \ unsaved \subseteq G
    /\ NetworkOK(G, K)
    /\ Keyed(K)
    /\ \A m \in G \cup unsaved : Short(m)
    /\ \A p \in Party : PartyKept(G, K, p)

KeptInv ==
    /\ StoreInv
    /\ accepted = [p \in Party |-> accepted[p]]
    /\ delivered = [p \in Party |-> delivered[p]]
    /\ \E G, K : Kept(G, K)

\* What the lemmas below need of it.
LEMMA KeptTypes ==
    ASSUME StoreInv, NEW G, NEW K, Kept(G, K), NEW p \in Party
    PROVE  /\ Line(K) /\ NetworkOK(G, K) /\ PartyKept(G, K, p)
           /\ Depth(p) \in Nat /\ Depth(p) % 2 = Par(p)
           /\ SavedDepth(p) \in Nat /\ SavedDepth(p) % 2 = Par(p)
           /\ session[p] \in RatchetState /\ Saved(p) \in RatchetState
           /\ FreshKey(p) = K[Depth(p) + 2]
           /\ sends[p] \in Nat /\ keygen[p] \in Nat
           /\ Peer(p) \in Party /\ Peer(p) # p /\ Peer(Peer(p)) = p /\ Par(Peer(p)) # Par(p)
<1>1. Line(K) /\ NetworkOK(G, K) /\ PartyKept(G, K, p)
  BY DEF Kept, Keyed
<1>2. /\ session[p] \in RatchetState /\ Saved(p) \in RatchetState
      /\ Depth(p) % 2 = Par(p) /\ SavedDepth(p) % 2 = Par(p)
      /\ sends[p] \in Nat /\ keygen[p] \in Nat
  BY DEF StoreInv, Sound, GoodState, SendingOK, Depth, SavedDepth
<1>3. Depth(p) \in Nat /\ SavedDepth(p) \in Nat
  <2>1. session[p].root_key \in RootKeys /\ Saved(p).root_key \in RootKeys
    BY <1>2 DEF RatchetState
  <2> QED BY <2>1 DEF RootKeys, Depth, SavedDepth
<1>4. FreshKey(p) = K[Depth(p) + 2]
  <2>1. K[Depth(p) + 2 + 2 * 0] = <<p, keygen[p] + 0>>
    BY DEF Kept, Keyed
  <2>2. Depth(p) + 2 + 2 * 0 = Depth(p) + 2 /\ keygen[p] + 0 = keygen[p]
    BY <1>2, <1>3
  <2> QED BY <2>1, <2>2 DEF FreshKey
<1>5. Peer(p) \in Party /\ Peer(p) # p /\ Peer(Peer(p)) = p /\ Par(Peer(p)) # Par(p)
  BY DEF Peer, Par
<1> QED BY <1>1, <1>2, <1>3, <1>4, <1>5

\* The messages p has sent, saved or not, are on chains it has reached.
LEMMA SentUpTo ==
    ASSUME StoreInv, NEW G, NEW K, Kept(G, K), NEW p \in Party, NEW x \in G \cup Drafts(p)
    PROVE  /\ Chain(x) \in Nat /\ x.mk[2] \in Nat /\ x.from \in Party
           /\ Chain(x) % 2 = Par(x.from)
           /\ x.from = p => Chain(x) <= Depth(p)
<1>1. /\ PartyKept(G, K, p) /\ Line(K) /\ Depth(p) \in Nat /\ SavedDepth(p) \in Nat
  BY KeptTypes
<1>2. NetworkOK(G \cup Drafts(p), K) /\ Ahead(p)
  BY <1>1 DEF PartyKept
<1>3. /\ Chain(x) \in Nat /\ x.mk[2] \in Nat /\ x.from \in Party
      /\ Chain(x) % 2 = Par(x.from)
  BY <1>1, <1>2, NetworkTypes
<1>4. ASSUME x.from = p PROVE Chain(x) <= Depth(p)
  <2>1. CASE x \in G
    <3>1. Chain(x) <= SavedDepth(p)
      BY <1>1, <1>4, <2>1 DEF PartyKept
    <3> QED BY <1>1, <1>2, <1>3, <3>1 DEF Ahead
  <2>2. CASE x \in Drafts(p)
    BY <1>1, <2>2 DEF PartyKept
  <2> QED BY <2>1, <2>2
<1> QED BY <1>3, <1>4

\* A party whose memory and disk a step leaves alone, and its peer's disk, is kept.
LEMMA PartyStays ==
    ASSUME NEW G, NEW K, NEW q \in Party, PartyKept(G, K, q),
           session'[q] = session[q], accepted'[q] = accepted[q], delivered'[q] = delivered[q],
           sends'[q] = sends[q], Drafts(q)' = Drafts(q),
           disk'[q] = disk[q], disk'[Peer(q)] = disk[Peer(q)]
    PROVE  PartyKept(G, K, q)'
<1>1. /\ Saved(q)' = Saved(q) /\ SavedDepth(q)' = SavedDepth(q) /\ Depth(q)' = Depth(q)
      /\ SavedDepth(Peer(q))' = SavedDepth(Peer(q))
  BY DEF Saved, SavedDepth, Depth
<1>2. Ahead(q)'
  BY <1>1 DEF PartyKept, Ahead
<1>3. \A m \in Drafts(q) : AfterSaved(q, m)' /\ Chain(m) <= Depth(q)'
  BY <1>1 DEF PartyKept, AfterSaved
<1> QED BY <1>1, <1>2, <1>3 DEF PartyKept, Agrees, Within

\* A call of encrypt adds a draft at the end of the chain that memory sends on.
LEMMA EncryptKept ==
    ASSUME StoreInv, NEW p \in Party, EncryptHeld(p), NEW G, NEW K, Kept(G, K)
    PROVE  Kept(G, K)'
<1>0. PICK s, k, A, D, N, n, new :
         /\ s = session[p] /\ k = Depth(p) /\ A = accepted[p] /\ D = Drafts(p)
         /\ N = G \cup D /\ n = sends[p]
         /\ new = [from |-> p, seq |-> n, header |-> EncryptHeader(s), mk |-> EncryptKey(s)]
  OBVIOUS
<1>1. PICK t : t = AfterEncrypt(s)
  OBVIOUS
<1>2. /\ CanEncrypt(s) /\ n < MaxSends
      /\ network' = network \cup {new}
      /\ session' = [session EXCEPT ![p] = t]
      /\ sends' = [sends EXCEPT ![p] = @ + 1]
      /\ unsaved' = unsaved \cup (network' \ network)
      /\ UNCHANGED <<keygen, delivered, accepted, disk>>
  BY <1>0, <1>1 DEF EncryptHeld, Encrypt
<1>3. /\ Line(K) /\ NetworkOK(G, K) /\ PartyKept(G, K, p)
      /\ k \in Nat /\ k % 2 = Par(p) /\ SavedDepth(p) \in Nat
      /\ s \in RatchetState /\ Saved(p) \in RatchetState /\ n \in Nat
      /\ p # Peer(p)
  BY <1>0, KeptTypes
<1>4. /\ View(G, K, p, s, k, A) /\ SendsOn(N, K, s, k) /\ NetworkOK(N, K)
      /\ Within(s, n) /\ A \subseteq delivered[p] /\ Ahead(p)
  BY <1>0, <1>3 DEF PartyKept, Agrees, Depth
<1>5. \A x \in D : x.from = p
  BY <1>0 DEF Drafts
<1>6. View(N, K, p, s, k, A)
  BY <1>0, <1>3, <1>4, <1>5, ViewGrows
<1>7. \A x \in N : x.from = p => Chain(x) <= k
  BY <1>0, SentUpTo
<1>8. /\ new.from = p /\ Chain(new) = k /\ new.mk[2] = s.send_message_number
      /\ NetworkOK(N \cup {new}, K)
      /\ View(N \cup {new}, K, p, AfterEncrypt(s), k, A)
      /\ SendsOn(N \cup {new}, K, AfterEncrypt(s), k)
  <2>1. new = [from |-> p, seq |-> n, header |-> EncryptHeader(s), mk |-> EncryptKey(s)]
    BY <1>0
  <2>2. /\ Line(K) /\ NetworkOK(N, K) /\ SendsOn(N, K, s, k) /\ CanEncrypt(s) /\ n \in Nat
        /\ View(N, K, p, s, k, A)
    BY <1>2, <1>3, <1>4, <1>6
  <2>3. EncryptedView(N, K, p, s, k, A, new)
    BY <1>7, <2>1, <2>2, EncryptView
  <2> QED BY <2>3 DEF EncryptedView
<1>9. View(G, K, p, t, k, A)
  BY <1>1, <1>2, <1>3, <1>4, SealedView
<1>10. /\ t.root_key = s.root_key /\ t.previous_chain_length = s.previous_chain_length
       /\ t.send_message_number = s.send_message_number + 1
  BY <1>1, <1>3 DEF AfterEncrypt, RatchetState
<1>11. /\ s.send_message_number \in Nat /\ s.previous_chain_length \in Nat
       /\ Saved(p).send_message_number \in Nat
  BY <1>3 DEF RatchetState
<1>12. new \notin network
  <2>1. new.mk[1] = s.root_key
    <3>1. Sound(p, s)
      BY <1>0 DEF StoreInv
    <3>2. s.sending_chain_key.chain = s.root_key
      BY <1>2, <3>1 DEF Sound, GoodState, SendingOK, CanEncrypt
    <3> QED BY <1>0, <3>2 DEF EncryptKey, MessageKey
  <2>2. s.sending_chain_key.n = s.send_message_number
    BY <1>2, <1>4 DEF CanEncrypt, View, Tracks, Aligned
  <2>3. ASSUME new \in network PROVE s.send_message_number < s.send_message_number
    <3>1. UsedBefore(p, s, new.mk)
      BY <1>0, <1>8, <2>3 DEF StoreInv
    <3> QED BY <1>8, <2>1, <2>2, <3>1 DEF UsedBefore
  <2> QED BY <1>11, <2>3
<1>13. unsaved' = unsaved \cup {new}
  BY <1>2, <1>12
<1>14. \A q \in Party : Drafts(q)' = IF q = p THEN D \cup {new} ELSE Drafts(q)
  BY <1>0, <1>8, <1>13 DEF Drafts
<1>15. ASSUME NEW q \in Party
       PROVE  /\ session'[q] = IF q = p THEN t ELSE session[q]
              /\ sends'[q] = IF q = p THEN n + 1 ELSE sends[q]
              /\ Depth(q)' = Depth(q) /\ Saved(q)' = Saved(q)
              /\ SavedDepth(q)' = SavedDepth(q)
  <2>1. /\ session'[q] = IF q = p THEN t ELSE session[q]
        /\ sends'[q] = IF q = p THEN n + 1 ELSE sends[q]
    BY <1>0, <1>2 DEF StoreInv
  <2>2. Depth(q)' = Depth(q)
    BY <1>0, <1>10, <2>1 DEF Depth
  <2> QED BY <1>2, <2>1, <2>2 DEF Saved, SavedDepth
<1>16. Short(new)
  <2>1. /\ new.header.message_number = s.send_message_number
        /\ new.header.previous_chain_length = s.previous_chain_length
    BY <1>0 DEF EncryptHeader
  <2> QED BY <1>2, <1>3, <1>4, <1>11, <2>1 DEF Within, Short
<1>17. PartyKept(G, K, p)'
  <2>1. /\ session'[p] = t /\ accepted'[p] = A /\ delivered'[p] = delivered[p]
        /\ disk'[p] = disk[p] /\ sends'[p] = n + 1
        /\ Drafts(p)' = D \cup {new} /\ Saved(p)' = Saved(p)
        /\ Depth(p)' = k /\ SavedDepth(p)' = SavedDepth(p)
        /\ SavedDepth(Peer(p))' = SavedDepth(Peer(p))
    BY <1>0, <1>2, <1>14, <1>15, KeptTypes
  <2>2. N \cup {new} = G \cup (D \cup {new})
    BY <1>0
  <2>3. Within(t, n + 1)
    BY <1>3, <1>4, <1>10, <1>11 DEF Within
  <2>4. Len(t.root_key) = k
    BY <1>0, <1>10 DEF Depth
  <2>5. Agrees(G, G \cup Drafts(p), K, p, session[p], accepted[p], delivered[p])'
    BY <1>1, <1>4, <1>8, <1>9, <2>1, <2>2, <2>3, <2>4 DEF Agrees
  <2>6. Agrees(G, G, K, p, Saved(p), disk[p].accepted, disk[p].delivered)'
    <3>1. Agrees(G, G, K, p, Saved(p), disk[p].accepted, disk[p].delivered)
      BY <1>3 DEF PartyKept
    <3>2. Within(Saved(p), n + 1)
      <4>1. Saved(p).previous_chain_length \in Nat
        BY <1>3 DEF RatchetState
      <4> QED BY <1>0, <1>3, <1>11, <3>1, <4>1 DEF Agrees, Within
    <3> QED BY <2>1, <3>1, <3>2 DEF Agrees
  <2>7. (NetworkOK(G \cup Drafts(p), K))'
    BY <1>8, <2>1, <2>2
  <2>8. Ahead(p)'
    <3>1. Depth(p) = SavedDepth(p) => Saved(p).send_message_number <= t.send_message_number
      BY <1>0, <1>4, <1>10, <1>11 DEF Ahead
    <3> QED BY <1>0, <1>4, <2>1, <3>1 DEF Ahead
  <2>9. sends'[p] <= MaxSends
    BY <1>2, <1>3, <2>1
  <2>10. AfterSaved(p, new) /\ Chain(new) <= k
    BY <1>0, <1>3, <1>4, <1>8, <1>11 DEF Ahead, AfterSaved
  <2>11. \A m \in Drafts(p)' : AfterSaved(p, m)' /\ Chain(m) <= Depth(p)'
    BY <1>0, <1>3, <2>1, <2>10 DEF PartyKept, AfterSaved
  <2>12. \A m \in G : m.from = p => Chain(m) <= SavedDepth(p)'
    BY <1>3, <2>1 DEF PartyKept
  <2> QED BY <2>5, <2>6, <2>7, <2>8, <2>9, <2>11, <2>12 DEF PartyKept
<1>18. ASSUME NEW q \in Party, q # p PROVE PartyKept(G, K, q)'
  <2>1. PartyKept(G, K, q)
    BY KeptTypes
  <2> QED BY <1>2, <1>14, <1>15, <1>18, <2>1, PartyStays
<1>19. Keyed(K)'
  BY <1>2, <1>15 DEF Kept, Keyed
<1>20. network' \ unsaved' \subseteq G /\ \A m \in G \cup unsaved' : Short(m)
  BY <1>2, <1>13, <1>16 DEF Kept
<1>21. \A q \in Party : PartyKept(G, K, q)'
  BY <1>17, <1>18
<1> QED BY <1>3, <1>19, <1>20, <1>21 DEF Kept, Short

\* A call of decrypt with a message that was released: its chain is one p's peer had
\* reached when it saved, so it is at most the next one for p.
LEMMA DecryptKept ==
    ASSUME StoreInv, accepted = [q \in Party |-> accepted[q]],
           delivered = [q \in Party |-> delivered[q]], ~Redelivery,
           NEW p \in Party, NEW m \in network, DecryptReleased(p, m),
           NEW G, NEW K, Kept(G, K)
    PROVE  /\ Kept(G, K)'
           /\ accepted' = [q \in Party |-> accepted'[q]]
           /\ delivered' = [q \in Party |-> delivered'[q]]
<1>0. PICK s, d, N, a, b : /\ s = session[p] /\ d = Depth(p) /\ N = G \cup Drafts(p)
                           /\ a = SavedDepth(p) /\ b = SavedDepth(Peer(p))
  OBVIOUS
<1>1. /\ m \notin held /\ Decrypt(p, m, m.header, TRUE)
      /\ UNCHANGED <<disk, held, unsaved>>
  BY DEF DecryptReleased
<1>2. /\ Line(K) /\ NetworkOK(G, K) /\ PartyKept(G, K, p)
      /\ d \in Nat /\ d % 2 = Par(p) /\ a \in Nat
      /\ s \in RatchetState /\ sends[p] \in Nat /\ keygen[p] \in Nat
      /\ FreshKey(p) = K[d + 2] /\ p # Peer(p) /\ Peer(p) \in Party
  BY <1>0, KeptTypes
<1>3. PartyKept(G, K, Peer(p)) /\ b \in Nat
  BY <1>0, <1>2, KeptTypes
<1>4. /\ View(G, K, p, s, d, accepted[p]) /\ SendsOn(N, K, s, d) /\ NetworkOK(N, K)
      /\ Within(s, sends[p]) /\ accepted[p] \subseteq delivered[p] /\ Ahead(p)
  BY <1>0, <1>2 DEF PartyKept, Agrees, Depth
<1>5. m \in G /\ m.from = Peer(p) /\ Chain(m) <= b /\ Chain(m) \in Nat
  <2>1. m \in G
    BY <1>1 DEF StoreInv, Kept
  <2>2. m.from = Peer(p)
    BY <1>1 DEF Decrypt, DecryptCached, DecryptOldChainTooLong, DecryptStepFails,
                DecryptSkipRejected, DecryptAdvance, Deliver
  <2>3. Chain(m) <= b
    BY <1>0, <1>3, <2>1, <2>2 DEF PartyKept
  <2> QED BY <1>2, <2>1, <2>2, <2>3, NetworkTypes
<1>6. /\ d \in {a, a + 2} /\ Apart(d, b) /\ Apart(a, b)
      /\ d = a => Saved(p).send_message_number <= s.send_message_number
  BY <1>0, <1>4 DEF Ahead
<1>7. Chain(m) <= d + 1 /\ (Chain(m) = d + 1 => b = d + 1 /\ d = a)
  BY <1>2, <1>3, <1>5, <1>6 DEF Apart
<1>8. Reads(G, K, p, d, m)
  <2>1. session \in [Party -> RatchetState]
    BY DEF StoreInv
  <2> QED BY <1>0, <1>1, <1>2, <1>4, <1>5, <1>7, <2>1, DecryptView
<1>9. /\ delivered' = [delivered EXCEPT ![p] = @ \cup {m}]
      /\ UNCHANGED <<network, sends>>
  BY <1>8 DEF Reads
<1>10. PICK t, k, A :
          /\ session' = [session EXCEPT ![p] = t]
          /\ accepted' = [accepted EXCEPT ![p] = A]
          /\ A \subseteq accepted[p] \cup {m}
          /\ View(G, K, p, t, k, A)
          /\ \/ /\ k = d /\ UNCHANGED keygen
                /\ t.send_message_number = s.send_message_number
                /\ t.previous_chain_length = s.previous_chain_length
             \/ /\ k = d + 2 /\ Chain(m) = d + 1
                /\ keygen' = [keygen EXCEPT ![p] = @ + 1]
                /\ t.send_message_number = 0
                /\ t.previous_chain_length = s.send_message_number
  BY <1>0, <1>8 DEF Reads
<1>11. k \in Nat /\ Len(t.root_key) = k
  BY <1>2, <1>10, RootType DEF View, Tracks
<1>12. ASSUME NEW q \in Party, q # p
       PROVE  /\ session'[q] = session[q] /\ accepted'[q] = accepted[q]
              /\ delivered'[q] = delivered[q] /\ keygen'[q] = keygen[q]
              /\ Depth(q)' = Depth(q)
  <2>1. session'[q] = session[q] /\ accepted'[q] = accepted[q] /\ keygen'[q] = keygen[q]
    BY <1>10, <1>12 DEF StoreInv
  <2>2. delivered'[q] = delivered[q]
    BY <1>9, <1>12
  <2> QED BY <2>1, <2>2 DEF Depth
<1>13. \A q \in Party : /\ Drafts(q)' = Drafts(q) /\ Saved(q)' = Saved(q)
                        /\ SavedDepth(q)' = SavedDepth(q)
  BY <1>1 DEF Drafts, Saved, SavedDepth
<1>14. /\ session'[p] = t /\ accepted'[p] = A /\ delivered'[p] = delivered[p] \cup {m}
       /\ Depth(p)' = k
  <2>1. session'[p] = t /\ accepted'[p] = A
    BY <1>10 DEF StoreInv
  <2>2. delivered'[p] = delivered[p] \cup {m}
    BY <1>9
  <2> QED BY <1>11, <2>1, <2>2 DEF Depth
<1>15. s.send_message_number \in Nat /\ s.previous_chain_length \in Nat
  BY <1>2 DEF RatchetState
<1>16. SendsOn(N, K, t, k)
  <2>1. CASE k = d /\ t.send_message_number = s.send_message_number
                   /\ t.previous_chain_length = s.previous_chain_length
    BY <1>4, <2>1 DEF SendsOn
  <2>2. CASE k = d + 2 /\ t.send_message_number = 0
                       /\ t.previous_chain_length = s.send_message_number
    <3>1. ASSUME NEW x \in N, Chain(x) = k PROVE FALSE
      <4>1. /\ x.from \in Party /\ Chain(x) % 2 = Par(x.from) /\ Chain(x) \in Nat
            /\ x.from = p => Chain(x) <= d
        BY <1>0, SentUpTo
      <4>2. k % 2 = Par(p)
        BY <1>2, <2>2, ParityStays
      <4>3. x.from = p
        BY <3>1, <4>1, <4>2 DEF Par
      <4> QED BY <1>2, <2>2, <3>1, <4>1, <4>3
    <3>2. ChainIs(N, K, k, 0)
      BY <3>1 DEF ChainIs
    <3>3. k - 2 = d
      BY <1>2, <2>2
    <3> QED BY <1>4, <2>2, <3>2, <3>3 DEF SendsOn
  <2> QED BY <1>10, <2>1, <2>2
<1>17. PartyKept(G, K, p)'
  <2>1. /\ Drafts(p)' = Drafts(p) /\ Saved(p)' = Saved(p) /\ SavedDepth(p)' = a
        /\ SavedDepth(Peer(p))' = b /\ sends'[p] = sends[p] /\ disk'[p] = disk[p]
    BY <1>0, <1>1, <1>2, <1>9, <1>13
  <2>2. Within(t, sends[p])
    BY <1>2, <1>4, <1>10, <1>15 DEF Within
  <2>3. A \subseteq delivered[p] \cup {m}
    BY <1>4, <1>10
  <2>4. Agrees(G, G \cup Drafts(p), K, p, session[p], accepted[p], delivered[p])'
    BY <1>0, <1>10, <1>11, <1>14, <1>16, <2>1, <2>2, <2>3 DEF Agrees
  <2>5. Agrees(G, G, K, p, Saved(p), disk[p].accepted, disk[p].delivered)'
    BY <1>2, <2>1 DEF PartyKept, Agrees
  <2>6. Ahead(p)'
    <3>1. /\ k \in {a, a + 2} /\ Apart(k, b)
          /\ k = a => k = d /\ t.send_message_number = s.send_message_number
      BY <1>2, <1>3, <1>6, <1>7, <1>10 DEF Apart
    <3> QED BY <1>6, <1>14, <2>1, <3>1 DEF Ahead
  <2>7. \A x \in Drafts(p)' : AfterSaved(p, x)' /\ Chain(x) <= Depth(p)'
    <3>1. ASSUME NEW x \in Drafts(p) PROVE AfterSaved(p, x) /\ Chain(x) <= k
      <4>1. Chain(x) <= d /\ AfterSaved(p, x) /\ Chain(x) \in Nat
        BY <1>0, <1>2, SentUpTo DEF PartyKept
      <4> QED BY <1>2, <1>10, <4>1
    <3> QED BY <1>0, <1>14, <2>1, <3>1 DEF AfterSaved
  <2>8. \A x \in G : x.from = p => Chain(x) <= SavedDepth(p)'
    BY <1>0, <1>2, <2>1 DEF PartyKept
  <2> QED BY <1>0, <1>2, <1>4, <2>1, <2>4, <2>5, <2>6, <2>7, <2>8 DEF PartyKept
<1>18. ASSUME NEW q \in Party, q # p PROVE PartyKept(G, K, q)'
  <2>1. PartyKept(G, K, q)
    BY KeptTypes
  <2> QED BY <1>1, <1>9, <1>12, <1>13, <1>18, <2>1, PartyStays
<1>19. Keyed(K)'
  <2>1. ASSUME NEW q \in Party, q # p, NEW i \in Nat
        PROVE  K[Depth(q)' + 2 + 2 * i] = <<q, keygen'[q] + i>>
    BY <1>12, <2>1 DEF Kept, Keyed
  <2>2. ASSUME NEW i \in Nat PROVE K[k + 2 + 2 * i] = <<p, keygen'[p] + i>>
    <3>1. \A j \in Nat : K[d + 2 + 2 * j] = <<p, keygen[p] + j>>
      BY <1>0 DEF Kept, Keyed
    <3>2. CASE k = d /\ UNCHANGED keygen
      BY <3>1, <3>2
    <3>3. CASE k = d + 2 /\ keygen' = [keygen EXCEPT ![p] = @ + 1]
      <4>1. keygen'[p] = keygen[p] + 1
        BY <3>3 DEF StoreInv
      <4>2. /\ i + 1 \in Nat /\ d + 2 + 2 * (i + 1) = k + 2 + 2 * i
            /\ keygen[p] + (i + 1) = keygen'[p] + i
        BY <1>2, <3>3, <4>1
      <4>3. K[d + 2 + 2 * (i + 1)] = <<p, keygen[p] + (i + 1)>>
        BY <3>1, <4>2
      <4> QED BY <4>2, <4>3
    <3> QED BY <1>10, <3>2, <3>3
  <2> QED BY <1>2, <1>14, <2>1, <2>2 DEF Keyed
<1>20. network' \ unsaved' \subseteq G /\ \A x \in G \cup unsaved' : Short(x)
  BY <1>1, <1>9 DEF Kept
<1>21. \A q \in Party : PartyKept(G, K, q)'
  BY <1>17, <1>18
<1>22. Kept(G, K)'
  BY <1>2, <1>19, <1>20, <1>21 DEF Kept, Short
<1> QED BY <1>9, <1>10, <1>22

\* What the two parties have sent, put together: each chain is one party's.
LEMMA Joined ==
    ASSUME NEW K, Line(K), NEW G, NEW X, NEW Y, NEW p \in Party,
           NetworkOK(G \cup X, K), NetworkOK(G \cup Y, K),
           \A x \in X : x.from = p, \A y \in Y : y.from = Peer(p)
    PROVE  NetworkOK((G \cup X) \cup Y, K)
<1> DEFINE N == (G \cup X) \cup Y
<1>1. Par(Peer(p)) # Par(p) /\ \A q \in Party : q = p \/ q = Peer(p)
  BY DEF Par, Peer
<1>2. ASSUME NEW x \in N
      PROVE  /\ x \in Messages /\ Chain(x) \in Nat /\ x.from \in Party
             /\ Chain(x) % 2 = Par(x.from)
  <2>1. CASE x \in G \cup X
    BY <2>1, NetworkTypes
  <2>2. CASE x \in G \cup Y
    BY <2>2, NetworkTypes
  <2> QED BY <2>1, <2>2
<1>3. ASSUME NEW M, NEW Z, N = M \cup Z, NetworkOK(M, K), NEW x \in M,
             \A z \in Z : z.from # x.from
      PROVE  HeaderOK(N, K, x)
  <2>1. HeaderOK(M, K, x) /\ Chain(x) \in Nat /\ x.from \in Party /\ Chain(x) % 2 = Par(x.from)
    BY <1>3, NetworkTypes DEF NetworkOK
  <2>2. ASSUME Chain(x) >= 2
        PROVE  ChainIs(M \cup Z, K, Chain(x) - 2, x.header.previous_chain_length)
    <3>1. PICK c : c = Chain(x) - 2
      OBVIOUS
    <3>2. c \in Nat /\ c % 2 = Par(x.from)
      <4>1. c \in Nat /\ Chain(x) = c + 2
        BY <2>1, <2>2, <3>1
      <4> QED BY <2>1, <4>1, ParityStays
    <3>3. ASSUME NEW z \in Z PROVE Chain(z) # c
      <4>1. z.from \in Party /\ Chain(z) % 2 = Par(z.from) /\ z.from # x.from
        BY <1>2, <1>3
      <4>2. Par(z.from) # Par(x.from)
        BY <2>1, <4>1 DEF Par
      <4> QED BY <3>2, <4>1, <4>2
    <3>4. ChainIs(M, K, c, x.header.previous_chain_length)
      BY <2>1, <2>2, <3>1 DEF HeaderOK
    <3> QED BY <3>1, <3>3, <3>4, ChainGrows
  <2>3. \A i \in 0 .. (x.mk[2] - 1) : \E y \in M \cup Z : y.mk = <<x.mk[1], i>>
    BY <2>1 DEF HeaderOK
  <2>4. HeaderOK(M \cup Z, K, x)
    BY <2>1, <2>2, <2>3 DEF HeaderOK
  <2> QED BY <1>3, <2>4
<1>4. ASSUME NEW x \in N PROVE HeaderOK(N, K, x)
  <2>1. CASE x.from = p
    <3>1. x \in G \cup X /\ N = (G \cup X) \cup Y /\ \A z \in Y : z.from # x.from
      BY <1>1, <2>1
    <3> HIDE DEF N
    <3> QED BY <1>3, <3>1
  <2>2. CASE x.from # p
    <3>1. x \in G \cup Y /\ N = (G \cup Y) \cup X /\ \A z \in X : z.from # x.from
      BY <2>2
    <3> HIDE DEF N
    <3> QED BY <1>3, <3>1
  <2> QED BY <2>1, <2>2
<1>5. ASSUME NEW x \in N, NEW y \in N, x.mk = y.mk PROVE x = y
  <2>1. Chain(x) = Chain(y)
    BY <1>5 DEF Chain
  <2>2. x.from = y.from
    BY <1>1, <1>2, <2>1
  <2>3. (x \in G \cup X /\ y \in G \cup X) \/ (x \in G \cup Y /\ y \in G \cup Y)
    BY <1>1, <2>2
  <2> QED BY <1>5, <2>3 DEF NetworkOK
<1> QED BY <1>2, <1>4, <1>5 DEF NetworkOK

\* What p's peer q knows, in memory or on its disk, stays right when p's drafts are
\* saved: they come after what p had saved, and q has not counted past that.
LEMMA DraftsSaved ==
    ASSUME StoreInv, NEW G, NEW K, Kept(G, K), NEW p \in Party,
           NEW M, NEW s, NEW A, NEW D, Agrees(G, M, K, Peer(p), s, A, D),
           Apart(Len(s.root_key), SavedDepth(p))
    PROVE  Agrees(G \cup Drafts(p), M \cup Drafts(p), K, Peer(p), s, A, D)
<1>0. PICK q, k, c, n, X :
         /\ q = Peer(p) /\ k = Len(s.root_key) /\ c = SavedDepth(p)
         /\ n = Saved(p).send_message_number /\ X = Drafts(p)
  OBVIOUS
<1>1. /\ Line(K) /\ PartyKept(G, K, p) /\ Saved(p) \in RatchetState /\ c \in Nat
      /\ q \in Party /\ Peer(q) = p /\ Par(q) # Par(p) /\ n \in Nat
  BY <1>0, KeptTypes DEF RatchetState
<1>2. View(G, K, q, s, k, A) /\ SendsOn(M, K, s, k) /\ k \in Nat /\ k % 2 = Par(q)
  BY <1>0 DEF Agrees, View, GoodState, SendingOK
<1>3. ChainIs(G, K, c, n)
  BY <1>0, <1>1 DEF PartyKept, Agrees, SendsOn, SavedDepth
<1>4. ASSUME NEW x \in X
      PROVE  /\ Chain(x) \in Nat /\ x.mk[2] \in Nat /\ Chain(x) % 2 = Par(p)
             /\ Chain(x) >= c /\ (Chain(x) = c => x.mk[2] >= n)
  <2>1. Chain(x) \in Nat /\ x.mk[2] \in Nat /\ Chain(x) % 2 = Par(p)
    BY <1>0, SentUpTo DEF Drafts
  <2>2. AfterSaved(p, x)
    BY <1>0, <1>1 DEF PartyKept
  <2> QED BY <1>0, <1>1, <2>1, <2>2 DEF AfterSaved
<1>5. k <= c + 1
  BY <1>0, <1>1, <1>2 DEF Apart
<1>6. \A x \in X : ~Behind(s, x.mk)
  BY <1>1, <1>2, <1>3, <1>4, <1>5, EndNotPassed
<1>7. View(G \cup X, K, q, s, k, A)
  BY <1>2, <1>6, ViewGrows
<1>8. SendsOn(M \cup X, K, s, k)
  <2>1. \A x \in X : Chain(x) # k
    BY <1>1, <1>2, <1>4
  <2>2. ASSUME k >= 2 PROVE \A x \in X : Chain(x) # k - 2
    <3>1. PICK j : j = k - 2
      OBVIOUS
    <3>2. j \in Nat /\ k = j + 2
      BY <1>2, <2>2, <3>1
    <3>3. j % 2 = Par(q)
      BY <1>2, <3>2, ParityStays
    <3> QED BY <1>1, <1>4, <3>1, <3>3
  <2> QED BY <1>2, <2>1, <2>2, ChainGrows DEF SendsOn
<1> QED BY <1>0, <1>7, <1>8 DEF Agrees

\* Saving: p's drafts are among the saved messages now.
LEMMA SaveKept ==
    ASSUME StoreInv, NEW p \in Party, Save(p), NEW G, NEW K, Kept(G, K)
    PROVE  \E H : H = G \cup Drafts(p) /\ Kept(H, K)'
<1>0. PICK q, X, Y, H : q = Peer(p) /\ X = Drafts(p) /\ Y = Drafts(q) /\ H = G \cup X
  OBVIOUS
<1>1. /\ disk' = [disk EXCEPT ![p] = OnDisk(session[p], delivered[p], accepted[p])]
      /\ unsaved' = {m \in unsaved : m.from # p}
      /\ UNCHANGED <<session, keygen, sends, network, delivered, accepted>>
  BY DEF Save, vars
<1>2. /\ Line(K) /\ NetworkOK(G, K) /\ PartyKept(G, K, p)
      /\ Depth(p) \in Nat /\ SavedDepth(p) \in Nat /\ session[p] \in RatchetState
      /\ q \in Party /\ q # p /\ Peer(q) = p
  BY <1>0, KeptTypes
<1>3. PartyKept(G, K, q) /\ Depth(q) \in Nat /\ SavedDepth(q) \in Nat
  BY <1>2, KeptTypes
<1>4. /\ Saved(p)' = session[p] /\ disk'[p].accepted = accepted[p]
      /\ disk'[p].delivered = delivered[p] /\ disk'[q] = disk[q] /\ Saved(q)' = Saved(q)
  <2>1. DOMAIN disk = Party
    BY DEF StoreInv
  <2>2. disk'[p] = OnDisk(session[p], delivered[p], accepted[p]) /\ disk'[q] = disk[q]
    BY <1>1, <1>2, <2>1
  <2>3. from_bytes(to_bytes(session[p])) = session[p]
    BY <1>2, SaveRestores DEF StoreInv, Sound
  <2> QED BY <2>2, <2>3 DEF OnDisk, Saved
<1>5. /\ Depth(p)' = Depth(p) /\ SavedDepth(p)' = Depth(p)
      /\ Depth(q)' = Depth(q) /\ SavedDepth(q)' = SavedDepth(q)
  BY <1>1, <1>4 DEF Depth, SavedDepth
<1>6. Drafts(p)' = {} /\ Drafts(q)' = Y
  BY <1>0, <1>1, <1>2 DEF Drafts
<1>7. (\A x \in X : x.from = p) /\ (\A y \in Y : y.from = q)
  BY <1>0 DEF Drafts
<1>8. Ahead(p) /\ Ahead(q) /\ NetworkOK(G \cup X, K) /\ NetworkOK(G \cup Y, K)
  BY <1>0, <1>2, <1>3 DEF PartyKept
<1>9. NetworkOK(H, K) /\ NetworkOK(H \cup Y, K)
  BY <1>0, <1>2, <1>7, <1>8, Joined
<1>10. PartyKept(H, K, p)'
  <2>1. Agrees(H, H, K, p, session[p], accepted[p], delivered[p])
    <3>1. Agrees(G, H, K, p, session[p], accepted[p], delivered[p])
      BY <1>0, <1>2 DEF PartyKept
    <3>2. View(H, K, p, session[p], Len(session[p].root_key), accepted[p])
      BY <1>0, <1>2, <1>7, <3>1, ViewGrows DEF Agrees
    <3> QED BY <3>1, <3>2 DEF Agrees
  <2>2. H \cup {} = H
    OBVIOUS
  <2>3. Agrees(H, H \cup Drafts(p), K, p, session[p], accepted[p], delivered[p])'
    BY <1>1, <1>6, <2>1, <2>2 DEF Agrees
  <2>4. Agrees(H, H, K, p, Saved(p), disk[p].accepted, disk[p].delivered)'
    BY <1>1, <1>4, <2>1 DEF Agrees
  <2>5. NetworkOK(H \cup Drafts(p), K)'
    BY <1>6, <1>9, <2>2
  <2>6. Ahead(p)'
    <3>1. session[p].send_message_number \in Nat
      BY <1>2 DEF RatchetState
    <3>2. session[p].send_message_number <= session[p].send_message_number
      BY <3>1
    <3> QED BY <1>0, <1>1, <1>4, <1>5, <1>8, <3>2 DEF Ahead
  <2>7. \A x \in H : x.from = p => Chain(x) <= Depth(p)
    BY <1>0, SentUpTo
  <2> QED BY <1>1, <1>2, <1>5, <1>6, <2>3, <2>4, <2>5, <2>6, <2>7 DEF PartyKept
<1>11. PartyKept(H, K, q)'
  <2>1. Agrees(H, H \cup Y, K, q, session[q], accepted[q], delivered[q])
    <3>1. Agrees(G, G \cup Y, K, q, session[q], accepted[q], delivered[q])
      BY <1>0, <1>3 DEF PartyKept
    <3>2. Apart(Len(session[q].root_key), SavedDepth(p))
      BY <1>2, <1>8 DEF Ahead, Depth
    <3>3. (G \cup Y) \cup X = H \cup Y
      BY <1>0
    <3>4. Agrees(G \cup X, (G \cup Y) \cup X, K, q, session[q], accepted[q], delivered[q])
      BY <1>0, <3>1, <3>2, DraftsSaved
    <3> QED BY <1>0, <3>3, <3>4
  <2>2. Agrees(H, H, K, q, Saved(q), disk[q].accepted, disk[q].delivered)
    <3>1. Agrees(G, G, K, q, Saved(q), disk[q].accepted, disk[q].delivered)
      BY <1>3 DEF PartyKept
    <3>2. Apart(Len(Saved(q).root_key), SavedDepth(p))
      BY <1>2, <1>8 DEF Ahead, SavedDepth
    <3> QED BY <1>0, <3>1, <3>2, DraftsSaved
  <2>3. Agrees(H, H \cup Drafts(q), K, q, session[q], accepted[q], delivered[q])'
    BY <1>1, <1>6, <2>1 DEF Agrees
  <2>4. Agrees(H, H, K, q, Saved(q), disk[q].accepted, disk[q].delivered)'
    BY <1>1, <1>4, <2>2 DEF Agrees
  <2>5. NetworkOK(H \cup Drafts(q), K)'
    BY <1>6, <1>9
  <2>6. Ahead(q)'
    <3>1. Apart(Depth(q), Depth(p)) /\ Apart(SavedDepth(q), Depth(p))
      BY <1>0, <1>2, <1>3, <1>8 DEF Ahead, Apart
    <3> QED BY <1>1, <1>2, <1>4, <1>5, <1>8, <3>1 DEF Ahead
  <2>7. \A x \in H : x.from = q => Chain(x) <= SavedDepth(q)
    BY <1>0, <1>2, <1>3, <1>7 DEF PartyKept
  <2>8. \A x \in Y : AfterSaved(q, x)' /\ Chain(x) <= Depth(q)
    BY <1>0, <1>3, <1>4, <1>5 DEF PartyKept, AfterSaved
  <2>9. sends'[q] <= MaxSends
    BY <1>1, <1>3 DEF PartyKept
  <2> QED BY <1>5, <1>6, <2>3, <2>4, <2>5, <2>6, <2>7, <2>8, <2>9 DEF PartyKept
<1>12. \A r \in Party : PartyKept(H, K, r)'
  BY <1>0, <1>10, <1>11 DEF Peer
<1>13. Keyed(K)'
  BY <1>1 DEF Kept, Keyed, Depth
<1>14. network' \ unsaved' \subseteq H /\ \A x \in H \cup unsaved' : Short(x)
  BY <1>0, <1>1 DEF Kept, Drafts
<1>15. Kept(H, K)'
  BY <1>9, <1>12, <1>13, <1>14 DEF Kept, Short
<1> QED BY <1>0, <1>15

-----------------------------------------------------------------------------
(* Starting again *)

\* K and L have the same keys for the chains up to the b-th.
SameUpTo(K, L, b) == \A j \in 0 .. b : L[j] = K[j]

\* The line of the next process of p: the keys p generated after it saved are
\* skipped, the next ones move into their places.
Rekeyed(K, p) ==
    [j \in Nat |-> K[IF j % 2 = Par(p) /\ j > SavedDepth(p)
                     THEN j + (Depth(p) - SavedDepth(p)) ELSE j]]

\* Lines that agree up to the b-th chain have the same roots there, ...
LEMMA SameRoot ==
    ASSUME NEW K, NEW L, NEW b \in Nat, SameUpTo(K, L, b), NEW k \in Int, k <= b
    PROVE  Root(L, k) = Root(K, k)
<1>1. ASSUME NEW i \in 1 .. k PROVE L[i - 1] = K[i - 1] /\ L[i] = K[i]
  <2>1. i \in 0 .. b /\ i - 1 \in 0 .. b
    OBVIOUS
  <2> QED BY <2>1 DEF SameUpTo
<1> QED BY <1>1 DEF Root

\* ... the same chains, ...
LEMMA SameChain ==
    ASSUME NEW K, NEW L, NEW b \in Nat, SameUpTo(K, L, b), NEW k \in Int, k <= b,
           NEW N, NEW n, ChainIs(N, K, k, n)
    PROVE  ChainIs(N, L, k, n)
BY SameRoot DEF ChainIs

\* ... and the states that have not gone further know the same of them.
LEMMA SameView ==
    ASSUME NEW K, NEW L, NEW b \in Nat, SameUpTo(K, L, b),
           NEW N, NEW p, NEW s, NEW k, NEW A, View(N, K, p, s, k, A), k <= b
    PROVE  View(N, L, p, s, k, A)
<1>1. k \in Nat /\ Tracks(K, s, k) /\ Counted(N, K, s, k)
  BY DEF View
<1>2. k \in Int /\ k - 1 \in Int /\ k - 1 <= b
  BY <1>1
<1>3. Root(L, k) = Root(K, k) /\ Root(L, k - 1) = Root(K, k - 1)
  BY <1>2, SameRoot
<1>4. L[k] = K[k]
  BY <1>1 DEF SameUpTo
<1>5. k # 0 => L[k - 1] = K[k - 1]
  <2>1. k # 0 => k - 1 \in 0 .. b
    BY <1>1
  <2> QED BY <2>1 DEF SameUpTo
<1>6. Tracks(L, s, k)
  BY <1>1, <1>3, <1>4, <1>5 DEF Tracks
<1>7. Counted(N, L, s, k)
  BY <1>1, <1>3 DEF Counted
<1> QED BY <1>6, <1>7 DEF View

LEMMA SameAgrees ==
    ASSUME NEW K, NEW L, NEW b \in Nat, SameUpTo(K, L, b), NEW p \in Party,
           NEW G, NEW M, NEW s, NEW A, NEW D, Agrees(G, M, K, p, s, A, D),
           Len(s.root_key) <= b
    PROVE  Agrees(G, M, L, p, s, A, D)
<1>0. PICK k : k = Len(s.root_key)
  OBVIOUS
<1>1. View(G, K, p, s, k, A) /\ SendsOn(M, K, s, k) /\ k \in Nat /\ k <= b
  BY <1>0 DEF Agrees, View
<1>2. View(G, L, p, s, k, A)
  BY <1>1, SameView
<1>3. k \in Int /\ k - 2 \in Int /\ k - 2 <= b
  BY <1>1
<1>4. SendsOn(M, L, s, k)
  BY <1>1, <1>3, SameChain DEF SendsOn
<1> QED BY <1>0, <1>2, <1>4 DEF Agrees

LEMMA SameNetwork ==
    ASSUME NEW K, Line(K), NEW L, NEW b \in Nat, SameUpTo(K, L, b),
           NEW N, NetworkOK(N, K), \A x \in N : Chain(x) <= b
    PROVE  NetworkOK(N, L)
<1>1. ASSUME NEW x \in N PROVE HeaderOK(N, L, x)
  <2>0. PICK c : c = Chain(x)
    OBVIOUS
  <2>1. HeaderOK(N, K, x) /\ c \in Nat /\ c <= b
    BY <2>0, NetworkTypes DEF NetworkOK
  <2>2. c \in Int /\ c - 2 \in Int /\ c - 2 <= b
    BY <2>1
  <2>3. Root(L, c) = Root(K, c)
    BY <2>1, <2>2, SameRoot
  <2>4. L[c] = K[c]
    BY <2>1 DEF SameUpTo
  <2>5. c >= 2 => ChainIs(N, L, c - 2, x.header.previous_chain_length)
    BY <2>0, <2>1, <2>2, SameChain DEF HeaderOK
  <2> QED BY <2>0, <2>1, <2>3, <2>4, <2>5 DEF HeaderOK
<1> QED BY <1>1 DEF NetworkOK

\* K, from the first key after the a-th of the same party, moved to follow the b-th.
Shift(K, a, b) ==
    [j \in Nat |-> K[IF j % 2 = a % 2 /\ j > a THEN j + (b - a) ELSE j]]

\* The keys that move keep their order and stay out of the other keys' places.
LEMMA Shifted ==
    ASSUME NEW K, Line(K), NEW a \in Nat, NEW b \in Nat, b = a \/ b = a + 2
    PROVE  LET L == Shift(K, a, b)
           IN  /\ Line(L) /\ SameUpTo(K, L, a + 1)
               /\ \A j \in Nat : j % 2 # a % 2 => L[j] = K[j]
               /\ \A i \in Nat : L[a + 2 + 2 * i] = K[b + 2 + 2 * i]
<1>0. PICK L : L = Shift(K, a, b)
  OBVIOUS
<1> DEFINE to(j) == IF j % 2 = a % 2 /\ j > a THEN j + (b - a) ELSE j
<1>1. ASSUME NEW j \in Nat PROVE to(j) \in Nat /\ to(j) % 2 = j % 2
  <2>1. (j + 2) % 2 = j % 2 /\ (j + (b - a) = j \/ j + (b - a) = j + 2)
    BY ParityStays
  <2> QED BY <2>1
<1>2. ASSUME NEW i \in Nat, NEW j \in Nat, to(i) = to(j) PROVE i = j
  <2>1. i % 2 = j % 2
    BY <1>1, <1>2
  <2> QED BY <1>2, <2>1
<1>3. \A j \in Nat : L[j] = K[to(j)]
  BY <1>0 DEF Shift
<1>4. ASSUME NEW j \in Nat, j <= a + 1 \/ j % 2 # a % 2 PROVE to(j) = j
  <2>1. j % 2 = a % 2 => j # a + 1
    BY ParityFlips
  <2> QED BY <1>4, <2>1
<1>5. ASSUME NEW i \in Nat PROVE a + 2 + 2 * i \in Nat /\ to(a + 2 + 2 * i) = b + 2 + 2 * i
  <2>1. (a + 2 + 2 * i) % 2 = a % 2
    OBVIOUS
  <2> QED BY <2>1
<1> HIDE DEF to
<1>6. Line(L)
  <2>1. L \in [Nat -> Party \X Nat]
    <3>1. K \in [Nat -> Party \X Nat]
      BY DEF Line
    <3> QED BY <1>0, <1>1, <3>1 DEF to, Shift
  <2>2. ASSUME NEW i \in Nat, NEW j \in Nat, L[i] = L[j] PROVE i = j
    <3>1. K[to(i)] = K[to(j)] /\ to(i) \in Nat /\ to(j) \in Nat
      BY <1>1, <1>3, <2>2
    <3>2. to(i) = to(j)
      BY <3>1, LineNames
    <3> QED BY <1>2, <3>2
  <2> QED BY <2>1, <2>2 DEF Line
<1>7. SameUpTo(K, L, a + 1)
  BY <1>3, <1>4 DEF SameUpTo
<1>8. \A j \in Nat : j % 2 # a % 2 => L[j] = K[j]
  BY <1>3, <1>4
<1>9. \A i \in Nat : L[a + 2 + 2 * i] = K[b + 2 + 2 * i]
  BY <1>3, <1>5
<1> QED BY <1>0, <1>6, <1>7, <1>8, <1>9

\* p's next process has on line L the key pair it will generate next where it needs it,
\* and everything saved is as on line K.
NextLine(G, K, p, L) ==
    /\ Line(L) /\ SameUpTo(K, L, SavedDepth(p) + 1)
    /\ \A i \in Nat : L[SavedDepth(p) + 2 + 2 * i] = <<p, keygen[p] + i>>
    /\ \A i \in Nat : L[Depth(Peer(p)) + 2 + 2 * i] = <<Peer(p), keygen[Peer(p)] + i>>
    /\ NetworkOK(G, L)

LEMMA RekeyedLine ==
    ASSUME StoreInv, NEW G, NEW K, Kept(G, K), NEW p \in Party
    PROVE  NextLine(G, K, p, Rekeyed(K, p))
<1>0. PICK a, b, q, c, L : /\ a = SavedDepth(p) /\ b = Depth(p) /\ q = Peer(p)
                           /\ c = Depth(q) /\ L = Rekeyed(K, p)
  OBVIOUS
<1>1. /\ Line(K) /\ NetworkOK(G, K) /\ PartyKept(G, K, p)
      /\ a \in Nat /\ b \in Nat /\ a % 2 = Par(p) /\ q \in Party /\ Par(q) # Par(p)
      /\ Peer(q) = p
  BY <1>0, KeptTypes
<1>2. PartyKept(G, K, q) /\ c \in Nat /\ c % 2 = Par(q) /\ SavedDepth(q) \in Nat
  BY <1>0, <1>1, KeptTypes
<1>3. b = a \/ b = a + 2
  BY <1>0, <1>1 DEF PartyKept, Ahead
<1>4. L = Shift(K, a, b)
  BY <1>0, <1>1 DEF Rekeyed, Shift
<1>5. /\ Line(L) /\ SameUpTo(K, L, a + 1)
      /\ \A j \in Nat : j % 2 # a % 2 => L[j] = K[j]
      /\ \A i \in Nat : L[a + 2 + 2 * i] = K[b + 2 + 2 * i]
  <2>1. Line(K) /\ a \in Nat /\ b \in Nat /\ (b = a \/ b = a + 2)
    BY <1>1, <1>3
  <2>2. /\ Line(Shift(K, a, b)) /\ SameUpTo(K, Shift(K, a, b), a + 1)
        /\ \A j \in Nat : j % 2 # a % 2 => Shift(K, a, b)[j] = K[j]
        /\ \A i \in Nat : Shift(K, a, b)[a + 2 + 2 * i] = K[b + 2 + 2 * i]
    BY <2>1, Shifted
  <2> QED BY <1>4, <2>2, Zenon
<1>6. ASSUME NEW i \in Nat PROVE L[a + 2 + 2 * i] = <<p, keygen[p] + i>>
  BY <1>0, <1>5 DEF Kept, Keyed
<1>7. ASSUME NEW i \in Nat PROVE L[c + 2 + 2 * i] = <<q, keygen[q] + i>>
  <2>1. c + 2 + 2 * i \in Nat /\ (c + 2 + 2 * i) % 2 = c % 2
    BY <1>2
  <2>2. L[c + 2 + 2 * i] = K[c + 2 + 2 * i]
    BY <1>1, <1>2, <1>5, <2>1
  <2> QED BY <1>0, <1>1, <2>2 DEF Kept, Keyed
<1>8. \A x \in G : Chain(x) <= a + 1
  <2> SUFFICES ASSUME NEW x \in G PROVE Chain(x) <= a + 1
    OBVIOUS
  <2>1. x.from \in Party /\ Chain(x) \in Nat
    BY <1>1, NetworkTypes
  <2>2. x.from = p => Chain(x) <= a
    BY <1>0, <1>1 DEF PartyKept
  <2>3. x.from = q => Chain(x) <= SavedDepth(q)
    BY <1>2 DEF PartyKept
  <2>4. Apart(a, SavedDepth(q))
    BY <1>0, <1>1 DEF PartyKept, Ahead
  <2>5. x.from = p \/ x.from = q
    BY <1>0, <2>1 DEF Peer
  <2> QED BY <1>1, <1>2, <2>1, <2>2, <2>3, <2>4, <2>5 DEF Apart
<1>9. NetworkOK(G, L)
  <2>1. a + 1 \in Nat
    BY <1>1
  <2> QED BY <1>1, <1>5, <1>8, <2>1, SameNetwork
<1> QED BY <1>0, <1>5, <1>6, <1>7, <1>9 DEF NextLine

\* A restart: p goes on from what it saved, on the line that skips the keys it forgot.
LEMMA ReopenKept ==
    ASSUME StoreInv, accepted = [q \in Party |-> accepted[q]],
           delivered = [q \in Party |-> delivered[q]],
           NEW p \in Party, Reopen(p), NEW G, NEW K, Kept(G, K)
    PROVE  /\ \E L : Kept(G, L)'
           /\ accepted' = [q \in Party |-> accepted'[q]]
           /\ delivered' = [q \in Party |-> delivered'[q]]
<1>0. PICK a, b, q, L : /\ a = SavedDepth(p) /\ b = a + 1 /\ q = Peer(p)
                        /\ L = Rekeyed(K, p)
  OBVIOUS
<1> DEFINE lost == {m \in held : m.from = p}
<1>1. /\ session' = [session EXCEPT ![p] = Saved(p)]
      /\ delivered' = [delivered EXCEPT ![p] = disk[p].delivered]
      /\ accepted' = [accepted EXCEPT ![p] = disk[p].accepted]
      /\ network' = network \ lost /\ unsaved' = unsaved \ lost
      /\ UNCHANGED <<keygen, sends, disk>>
  BY DEF Reopen, Saved
<1>2. /\ Line(K) /\ PartyKept(G, K, p) /\ a \in Nat /\ Saved(p) \in RatchetState
      /\ q \in Party /\ q # p /\ Peer(q) = p
  BY <1>0, KeptTypes
<1>3. PartyKept(G, K, q) /\ Depth(q) \in Nat /\ SavedDepth(q) \in Nat
  BY <1>2, KeptTypes
<1>4. /\ Line(L) /\ SameUpTo(K, L, b) /\ NetworkOK(G, L)
      /\ \A i \in Nat : L[a + 2 + 2 * i] = <<p, keygen[p] + i>>
      /\ \A i \in Nat : L[Depth(q) + 2 + 2 * i] = <<q, keygen[q] + i>>
  <2>1. NextLine(G, K, p, L)
    BY <1>0, RekeyedLine
  <2> QED BY <1>0, <2>1 DEF NextLine
<1>5. /\ session'[p] = Saved(p) /\ accepted'[p] = disk[p].accepted
      /\ delivered'[p] = disk[p].delivered
      /\ session'[q] = session[q] /\ accepted'[q] = accepted[q]
      /\ delivered'[q] = delivered[q]
  BY <1>1, <1>2 DEF StoreInv
<1>6. \A r \in Party : Saved(r)' = Saved(r) /\ SavedDepth(r)' = SavedDepth(r)
  BY <1>1 DEF Saved, SavedDepth
<1>7. Depth(p)' = a /\ Depth(q)' = Depth(q)
  BY <1>0, <1>5 DEF Depth, SavedDepth
<1>8. Drafts(p)' = {} /\ Drafts(q)' = Drafts(q)
  BY <1>1, <1>2 DEF StoreInv, Drafts
<1>9. Ahead(p) /\ Ahead(q) /\ b \in Nat /\ a <= b /\ Depth(q) <= b /\ SavedDepth(q) <= b
  <2>1. Ahead(p) /\ Ahead(q)
    BY <1>2, <1>3 DEF PartyKept
  <2>2. Apart(Depth(q), a) /\ Apart(SavedDepth(q), a)
    BY <1>0, <1>2, <2>1 DEF Ahead
  <2> QED BY <1>0, <1>2, <1>3, <2>1, <2>2 DEF Apart
<1>10. PartyKept(G, L, p)'
  <2>1. Agrees(G, G, K, p, Saved(p), disk[p].accepted, disk[p].delivered)
    BY <1>2 DEF PartyKept
  <2>2. Agrees(G, G, L, p, Saved(p), disk[p].accepted, disk[p].delivered)
    BY <1>0, <1>4, <1>9, <2>1, SameAgrees DEF SavedDepth
  <2>3. G \cup {} = G
    OBVIOUS
  <2>4. Agrees(G, G \cup Drafts(p), L, p, session[p], accepted[p], delivered[p])'
    BY <1>1, <1>5, <1>8, <2>2, <2>3 DEF Agrees
  <2>5. Agrees(G, G, L, p, Saved(p), disk[p].accepted, disk[p].delivered)'
    BY <1>1, <1>6, <2>2 DEF Agrees
  <2>6. NetworkOK(G \cup Drafts(p), L)'
    BY <1>4, <1>8, <2>3
  <2>7. Ahead(p)'
    <3>1. Saved(p).send_message_number \in Nat
      BY <1>2 DEF RatchetState
    <3>2. Saved(p).send_message_number <= Saved(p).send_message_number
      BY <3>1
    <3> QED BY <1>0, <1>2, <1>5, <1>6, <1>7, <1>9, <3>2 DEF Ahead
  <2>8. \A x \in G : x.from = p => Chain(x) <= SavedDepth(p)'
    BY <1>2, <1>6 DEF PartyKept
  <2>9. sends'[p] <= MaxSends
    BY <1>1, <1>2 DEF PartyKept
  <2> QED BY <1>8, <2>4, <2>5, <2>6, <2>7, <2>8, <2>9 DEF PartyKept
<1>11. PartyKept(G, L, q)'
  <2>1. PartyKept(G, L, q)
    <3>1. /\ Agrees(G, G \cup Drafts(q), K, q, session[q], accepted[q], delivered[q])
          /\ Agrees(G, G, K, q, Saved(q), disk[q].accepted, disk[q].delivered)
          /\ NetworkOK(G \cup Drafts(q), K)
      BY <1>3 DEF PartyKept
    <3>2. Agrees(G, G \cup Drafts(q), L, q, session[q], accepted[q], delivered[q])
      BY <1>2, <1>4, <1>9, <3>1, SameAgrees DEF Depth
    <3>3. Agrees(G, G, L, q, Saved(q), disk[q].accepted, disk[q].delivered)
      BY <1>2, <1>4, <1>9, <3>1, SameAgrees DEF SavedDepth
    <3>4. ASSUME NEW x \in G \cup Drafts(q) PROVE Chain(x) <= b
      <4>1. Chain(x) \in Nat /\ x.from \in Party /\ (x.from = q => Chain(x) <= Depth(q))
        BY <1>2, SentUpTo
      <4>2. x.from = p => Chain(x) <= a
        <5>1. x.from = p => x \in G
          BY <1>2 DEF Drafts
        <5> QED BY <1>0, <1>2, <5>1 DEF PartyKept
      <4>3. x.from = p \/ x.from = q
        BY <1>0, <4>1 DEF Peer
      <4> QED BY <1>2, <1>3, <1>9, <4>1, <4>2, <4>3
    <3>5. NetworkOK(G \cup Drafts(q), L)
      <4>1. PICK N : N = G \cup Drafts(q)
        OBVIOUS
      <4>2. NetworkOK(N, K) /\ \A x \in N : Chain(x) <= b
        BY <3>1, <3>4, <4>1
      <4>3. NetworkOK(N, L)
        BY <1>2, <1>4, <1>9, <4>2, SameNetwork
      <4> QED BY <4>1, <4>3
    <3> QED BY <1>3, <3>2, <3>3, <3>5 DEF PartyKept
  <2> QED BY <1>1, <1>2, <1>5, <1>8, <2>1, PartyStays
<1>12. \A r \in Party : PartyKept(G, L, r)'
  BY <1>0, <1>10, <1>11 DEF Peer
<1>13. Keyed(L)'
  <2>1. \A i \in Nat : /\ L[Depth(p)' + 2 + 2 * i] = <<p, keygen'[p] + i>>
                       /\ L[Depth(q)' + 2 + 2 * i] = <<q, keygen'[q] + i>>
    BY <1>1, <1>4, <1>7
  <2>2. \A r \in Party : r = p \/ r = q
    BY <1>0 DEF Peer
  <2> QED BY <1>4, <2>1, <2>2 DEF Keyed
<1>14. network' \ unsaved' \subseteq G /\ \A x \in G \cup unsaved' : Short(x)
  BY <1>1 DEF StoreInv, Kept
<1>15. Kept(G, L)'
  BY <1>4, <1>12, <1>13, <1>14 DEF Kept, Short
<1> QED BY <1>1, <1>15

\* The states both sides start from.
LEMMA StoreInitKept == StoreInit => KeptInv
<1> SUFFICES ASSUME StoreInit PROVE KeptInv
  OBVIOUS
<1>1. StoreInv /\ HonestInv /\ Init
  BY StoreInitInv, InitHonest DEF StoreInit
<1>2. /\ network = {} /\ unsaved = {}
      /\ disk = [p \in Party |-> OnDisk(session[p], {}, {})]
      /\ accepted = [p \in Party |-> {}] /\ delivered = [p \in Party |-> {}]
      /\ sends = [p \in Party |-> 0] /\ keygen = [p \in Party |-> 1]
  BY DEF StoreInit, Init
<1>3. ASSUME NEW p \in Party
      PROVE  /\ Saved(p) = session[p] /\ SavedDepth(p) = Depth(p) /\ Drafts(p) = {}
             /\ disk[p].accepted = {} /\ disk[p].delivered = {}
             /\ accepted[p] = {} /\ delivered[p] = {} /\ sends[p] = 0 /\ keygen[p] = 1
             /\ session[p].send_message_number = 0 /\ session[p].previous_chain_length = 0
             /\ Depth(p) \in {0, 1} /\ Depth(p) % 2 = Par(p)
             /\ View({}, Turns, p, session[p], Depth(p), {})
             /\ SendsOn({}, Turns, session[p], Depth(p))
             /\ Apart(Depth(p), Depth(Peer(p)))
  <2>1. /\ disk[p].bytes = to_bytes(session[p]) /\ disk[p].accepted = {} /\ disk[p].delivered = {}
        /\ accepted[p] = {} /\ delivered[p] = {} /\ sends[p] = 0 /\ keygen[p] = 1
        /\ Drafts(p) = {}
    BY <1>2 DEF OnDisk, Drafts
  <2>2. session[p] \in RatchetState /\ session[p].skipped_keys = {}
        /\ session[p].send_message_number = 0 /\ session[p].previous_chain_length = 0
    BY <1>1 DEF StoreInv, Init, init_sender, init_receiver
  <2>3. Saved(p) = session[p]
    <3>1. IsMap({})
      BY FS_EmptySet DEF IsMap
    <3> QED BY <2>1, <2>2, <3>1, SaveRestores DEF Saved
  <2>4. SavedDepth(p) = Depth(p)
    BY <2>3 DEF SavedDepth, Depth
  <2>5. /\ View(network, Turns, p, session[p], Depth(p), accepted[p])
        /\ Depth(p) \in Nat /\ Depth(p) % 2 = Par(p)
        /\ Depth(p) = Depth(Peer(p)) + 1 \/ Depth(Peer(p)) = Depth(p) + 1
    BY <1>1, HonestViews
  <2>6. SendsOn(network, Turns, session[p], Depth(p)) /\ keygen[p] = (Depth(p) \div 2) + 1
    BY <1>1 DEF HonestInv, PartyOK, SendsOn
  <2>7. Depth(p) \in {0, 1}
    <3>1. Depth(p) \div 2 = 0
      BY <2>1, <2>5, <2>6
    <3> QED BY <2>5, <3>1
  <2> QED BY <1>2, <2>1, <2>2, <2>3, <2>4, <2>5, <2>6, <2>7 DEF Apart
<1>4. NetworkOK({}, Turns)
  BY DEF NetworkOK
<1>5. Keyed(Turns)
  <2>1. ASSUME NEW p \in Party, NEW i \in Nat
        PROVE  Turns[Depth(p) + 2 + 2 * i] = <<p, keygen[p] + i>>
    <3>1. PICK d, k : d = Depth(p) /\ k = d + 2 * i
      OBVIOUS
    <3>2. d \in {0, 1} /\ d % 2 = Par(p) /\ keygen[p] = 1
      BY <1>3, <3>1
    <3>3. k \in Nat /\ k % 2 = Par(p) /\ k \div 2 = i /\ k + 2 = Depth(p) + 2 + 2 * i
      <4>1. k \in Nat /\ k % 2 = d % 2 /\ k \div 2 = i /\ k + 2 = d + 2 + 2 * i
        <5>1. CASE d = 0
          BY <3>1, <5>1
        <5>2. CASE d = 1
          BY <3>1, <5>2
        <5> QED BY <3>2, <5>1, <5>2
      <4> QED BY <3>1, <3>2, <4>1
    <3>4. Turns[k + 2] = <<p, (k \div 2) + 1>>
      BY <3>3, OwnKeys
    <3>5. i + 1 = keygen[p] + i
      BY <3>2
    <3> QED BY <3>3, <3>4, <3>5
  <2> QED BY <2>1, TurnsLine DEF Keyed
<1>6. ASSUME NEW p \in Party PROVE PartyKept({}, Turns, p)
  <2>1. Peer(p) \in Party
    BY DEF Peer
  <2>2. Ahead(p)
    BY <1>3, <2>1 DEF Ahead
  <2>3. Agrees({}, {}, Turns, p, session[p], {}, {})
    BY <1>3 DEF Agrees, Within, Depth
  <2>4. {} \cup Drafts(p) = {} /\ Drafts(p) = {} /\ Saved(p) = session[p] /\ sends[p] <= MaxSends
    BY <1>3
  <2>5. /\ Agrees({}, {} \cup Drafts(p), Turns, p, session[p], accepted[p], delivered[p])
        /\ Agrees({}, {}, Turns, p, Saved(p), disk[p].accepted, disk[p].delivered)
        /\ NetworkOK({} \cup Drafts(p), Turns)
    BY <1>3, <1>4, <2>3, <2>4
  <2> QED BY <2>2, <2>4, <2>5 DEF PartyKept
<1>7. Kept({}, Turns)
  BY <1>2, <1>4, <1>5, <1>6 DEF Kept
<1> QED BY <1>1, <1>2, <1>7 DEF KeptInv

\* KeptInv holds throughout every behaviour with a relay that hands nothing over again
\* once it was read.
THEOREM KeptInvariance ==
    ASSUME ~Redelivery
    PROVE  StoreSpec => []KeptInv
<1>1. ASSUME KeptInv, [StoreNext]_storeVars
      PROVE  KeptInv'
  <2>1. PICK G, K : Kept(G, K)
    BY <1>1 DEF KeptInv
  <2>2. /\ StoreInv /\ accepted = [p \in Party |-> accepted[p]]
        /\ delivered = [p \in Party |-> delivered[p]]
    BY <1>1 DEF KeptInv
  <2>3. CASE \E p \in Party : EncryptHeld(p)
    <3>1. PICK p \in Party : EncryptHeld(p)
      BY <2>3
    <3>2. UNCHANGED <<accepted, delivered>>
      BY <3>1 DEF EncryptHeld, Encrypt
    <3>3. StoreInv' /\ Kept(G, K)'
      BY <2>1, <2>2, <3>1, EncryptHeldInv, EncryptKept
    <3> QED BY <2>2, <3>2, <3>3 DEF KeptInv
  <2>4. CASE \E p \in Party : Save(p)
    <3>1. PICK p \in Party : Save(p)
      BY <2>4
    <3>2. UNCHANGED <<accepted, delivered>>
      BY <3>1 DEF Save, vars
    <3>3. StoreInv' /\ \E H : Kept(H, K)'
      BY <2>1, <2>2, <3>1, SaveInv, SaveKept
    <3> QED BY <2>2, <3>2, <3>3 DEF KeptInv
  <2>5. CASE \E p \in Party : Reopen(p)
    <3>1. PICK p \in Party : Reopen(p)
      BY <2>5
    <3>2. /\ StoreInv' /\ \E L : Kept(G, L)'
          /\ accepted' = [q \in Party |-> accepted'[q]]
          /\ delivered' = [q \in Party |-> delivered'[q]]
      BY <2>1, <2>2, <3>1, ReopenInv, ReopenKept
    <3> QED BY <3>2 DEF KeptInv
  <2>6. CASE \E p \in Party, m \in network : DecryptReleased(p, m)
    <3>1. PICK p \in Party, m \in network : DecryptReleased(p, m)
      BY <2>6
    <3>2. /\ StoreInv' /\ Kept(G, K)'
          /\ accepted' = [q \in Party |-> accepted'[q]]
          /\ delivered' = [q \in Party |-> delivered'[q]]
      BY <2>1, <2>2, <3>1, DecryptReleasedInv, DecryptKept
    <3> QED BY <3>2 DEF KeptInv
  <2>7. CASE (\E m \in held : Release(m)) \/ UNCHANGED storeVars
    <3>1. UNCHANGED <<session, keygen, sends, network, delivered, accepted, disk, unsaved>>
      BY <2>7 DEF Release, vars, storeVars
    <3>2. StoreInv'
      BY <2>2, <2>7 DEF Release, vars, storeVars, StoreInv, Saved, Sound, UsedBefore,
                        UniqueMessageKeys
    <3>3. \A p \in Party : PartyKept(G, K, p)'
      BY <2>1, <3>1, PartyStays DEF Kept, Drafts
    <3>4. Keyed(K)'
      BY <2>1, <3>1 DEF Kept, Keyed, Depth
    <3>5. Kept(G, K)'
      BY <2>1, <3>1, <3>3, <3>4 DEF Kept, Short
    <3> QED BY <2>2, <3>1, <3>2, <3>5 DEF KeptInv
  <2> QED BY <1>1, <2>3, <2>4, <2>5, <2>6, <2>7 DEF StoreNext
<1> QED BY <1>1, StoreInitKept, PTL DEF StoreSpec

\* While no device sends more messages than MAX_SKIP, the next process can read every message
\* that reached the relay and that the disk does not record as read, whenever the processes
\* of both sides end and however often.
THEOREM RestartSafe ==
    ASSUME ~Redelivery, MaxSends <= MAX_SKIP
    PROVE  StoreSpec => []RestartLosesNothing
<1>1. ASSUME KeptInv PROVE RestartLosesNothing
  <2> SUFFICES ASSUME NEW p \in Party, NEW m \in network \ held, m.from = Peer(p),
                      m \notin disk[p].delivered
               PROVE  Opens(Saved(p), m.header, m.mk, FreshKey(p))
    BY DEF RestartLosesNothing, Saved
  <2>1. PICK G, K : Kept(G, K) /\ StoreInv
    BY <1>1 DEF KeptInv
  <2>2. PICK s, k, A, L, c : /\ s = Saved(p) /\ k = SavedDepth(p) /\ A = disk[p].accepted
                             /\ L = Rekeyed(K, p) /\ c = SavedDepth(Peer(p))
    OBVIOUS
  <2>3. /\ PartyKept(G, K, p) /\ k \in Nat /\ k % 2 = Par(p) /\ s \in RatchetState
        /\ Peer(p) \in Party /\ Par(Peer(p)) # Par(p) /\ keygen[p] \in Nat /\ NetworkOK(G, K)
        /\ Line(K)
    BY <2>1, <2>2, KeptTypes
  <2>4. c \in Nat /\ PartyKept(G, K, Peer(p))
    BY <2>1, <2>2, <2>3, KeptTypes
  <2>5. m \in G
    BY <2>1 DEF StoreInv, Kept
  <2>6. /\ Line(L) /\ SameUpTo(K, L, k + 1) /\ NetworkOK(G, L)
        /\ \A i \in Nat : L[k + 2 + 2 * i] = <<p, keygen[p] + i>>
    <3>1. NextLine(G, K, p, L)
      BY <2>1, <2>2, RekeyedLine
    <3> QED BY <2>2, <3>1 DEF NextLine
  <2>7. FreshKey(p) = L[k + 2]
    <3>1. L[k + 2 + 2 * 0] = <<p, keygen[p] + 0>>
      BY <2>6
    <3>2. k + 2 + 2 * 0 = k + 2 /\ keygen[p] + 0 = keygen[p]
      BY <2>3
    <3> QED BY <3>1, <3>2 DEF FreshKey
  <2>8. View(G, L, p, s, k, A) /\ m \notin A
    <3>1. View(G, K, p, s, k, A) /\ A \subseteq disk[p].delivered
      BY <2>2, <2>3 DEF PartyKept, Agrees, SavedDepth
    <3>2. k + 1 \in Nat /\ k <= k + 1
      BY <2>3
    <3> QED BY <2>6, <3>1, <3>2, SameView
  <2>9. Short(m)
    BY <2>1, <2>5 DEF Kept
  <2>10. Chain(m) <= k + 1
    <3>1. Chain(m) <= c /\ Chain(m) \in Nat
      BY <2>2, <2>3, <2>4, <2>5, NetworkTypes DEF PartyKept
    <3>2. Apart(k, c)
      BY <2>2, <2>3 DEF PartyKept, Ahead
    <3> QED BY <2>3, <2>4, <3>1, <3>2 DEF Apart
  <2>11. Opens(s, m.header, m.mk, L[k + 2])
    BY <2>5, <2>6, <2>8, <2>9, <2>10, ShortOpens
  <2> QED BY <2>2, <2>7, <2>11
<1> QED BY <1>1, KeptInvariance, PTL
=============================================================================
