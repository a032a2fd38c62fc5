--------------------------- MODULE ContactsProofs ---------------------------
(***************************************************************************)
(* Proofs about safety numbers and about Contacts, for any users, any      *)
(* number of installations and keys of any length, and for a directory and *)
(* a relay that answer what they like.                                     *)
(***************************************************************************)
EXTENDS Contacts, NatLemmas, SequenceTheorems, TLAPS

USE KeyLenAssumption

-----------------------------------------------------------------------------
(* Byte strings of one length *)

Strings == {s \in Seq(Nat) : Len(s) = KEY_LEN}

\* A string as a function
LEMMA StringIsFcn ==
    ASSUME NEW s \in Strings
    PROVE  /\ s \in Seq(Nat) /\ Len(s) = KEY_LEN
           /\ s \in [1 .. KEY_LEN -> Nat] /\ DOMAIN s = 1 .. KEY_LEN
BY DEF Strings

\* Two different strings differ first at some place.
LEMMA FirstDifference ==
    ASSUME NEW s \in Strings, NEW t \in Strings, s # t
    PROVE  \E i \in 1 .. KEY_LEN :
              s[i] # t[i] /\ \A j \in 1 .. (i - 1) : s[j] = t[j]
<1> DEFINE D == {i \in 1 .. KEY_LEN : s[i] # t[i]}
<1>1. s \in [1 .. KEY_LEN -> Nat] /\ t \in [1 .. KEY_LEN -> Nat]
  BY StringIsFcn
<1>2. D # {}
  BY <1>1
<1>3. PICK i \in D : \A j \in D : i <= j
  <2>1. D \subseteq Nat
    OBVIOUS
  <2> QED BY <1>2, <2>1, LeastNatural
<1> QED BY <1>3

\* The parts that are compared are the same if and only if their bytes are.
LEMMA SamePrefix ==
    ASSUME NEW s \in Strings, NEW t \in Strings, NEW i \in 1 .. KEY_LEN
    PROVE  SubSeq(s, 1, i - 1) = SubSeq(t, 1, i - 1) <=> \A j \in 1 .. (i - 1) : s[j] = t[j]
<1>1. /\ s \in Seq(Nat) /\ t \in Seq(Nat) /\ i - 1 \in Nat
      /\ i - 1 <= Len(s) /\ i - 1 <= Len(t)
  BY DEF Strings
<1>2. /\ SubSeq(s, 1, i - 1) = [j \in 1 .. (i - 1) |-> s[j]]
      /\ SubSeq(t, 1, i - 1) = [j \in 1 .. (i - 1) |-> t[j]]
  BY <1>1
<1>3. SUFFICES [j \in 1 .. (i - 1) |-> s[j]] = [j \in 1 .. (i - 1) |-> t[j]]
                 <=> \A j \in 1 .. (i - 1) : s[j] = t[j]
  BY <1>2
<1> QED OBVIOUS

\* On strings of one length LexLeq is decided where they first differ.
LEMMA LexDecided ==
    ASSUME NEW s \in Strings, NEW t \in Strings, NEW i \in 1 .. KEY_LEN,
           s[i] # t[i], \A j \in 1 .. (i - 1) : s[j] = t[j]
    PROVE  LexLeq(s, t) <=> s[i] < t[i]
<1>1. /\ s \in [1 .. KEY_LEN -> Nat] /\ t \in [1 .. KEY_LEN -> Nat]
      /\ DOMAIN s = 1 .. KEY_LEN /\ DOMAIN t = 1 .. KEY_LEN
      /\ Len(s) = KEY_LEN /\ Len(t) = KEY_LEN
  BY StringIsFcn
<1>2. SubSeq(t, 1, Len(s)) # s
  <2>1. SubSeq(t, 1, Len(s))[i] = t[i]
    BY <1>1 DEF Strings
  <2> QED BY <2>1
<1>3. ASSUME s[i] < t[i] PROVE LexLeq(s, t)
  BY <1>1, <1>3, SamePrefix DEF LexLeq
<1>4. ASSUME LexLeq(s, t) PROVE s[i] < t[i]
  <2>1. PICK k \in 1 .. KEY_LEN :
           SubSeq(s, 1, k - 1) = SubSeq(t, 1, k - 1) /\ s[k] < t[k]
    BY <1>1, <1>2, <1>4 DEF LexLeq
  <2>2. \A j \in 1 .. (k - 1) : s[j] = t[j]
    BY <2>1, SamePrefix
  <2>3. k = i
    <3>1. ~(i < k)
      BY <2>2
    <3>2. ~(k < i)
      BY <1>1, <2>1
    <3> QED BY <3>1, <3>2
  <2> QED BY <2>1, <2>3
<1> QED BY <1>3, <1>4

\* <= of byte slices is total on them, and antisymmetric.
LEMMA LexOrder ==
    ASSUME NEW s \in Strings, NEW t \in Strings, s # t
    PROVE  LexLeq(s, t) <=> ~LexLeq(t, s)
<1>1. PICK i \in 1 .. KEY_LEN : s[i] # t[i] /\ \A j \in 1 .. (i - 1) : s[j] = t[j]
  BY FirstDifference
<1>2. s[i] \in Nat /\ t[i] \in Nat
  BY DEF Strings
<1>3. LexLeq(s, t) <=> s[i] < t[i]
  BY <1>1, LexDecided
<1>4. LexLeq(t, s) <=> t[i] < s[i]
  BY <1>1, LexDecided
<1> QED BY <1>1, <1>2, <1>3, <1>4

Joined(a, b) == a \o b

\* Where the bytes of two strings are in their concatenation.
LEMMA JoinedParts ==
    ASSUME NEW a \in Strings, NEW b \in Strings
    PROVE  \A i \in 1 .. KEY_LEN : Joined(a, b)[i] = a[i] /\ Joined(a, b)[i + KEY_LEN] = b[i]
<1>1. a \in Seq(Nat) /\ b \in Seq(Nat) /\ Len(a) = KEY_LEN /\ Len(b) = KEY_LEN
  BY StringIsFcn
<1>2. \A i \in 1 .. (Len(a) + Len(b)) :
         (a \o b)[i] = IF i <= Len(a) THEN a[i] ELSE b[i - Len(a)]
  BY <1>1, ConcatProperties, Zenon
<1>3. \A i \in 1 .. (KEY_LEN + KEY_LEN) :
         Joined(a, b)[i] = IF i <= KEY_LEN THEN a[i] ELSE b[i - KEY_LEN]
  BY <1>1, <1>2, Zenon DEF Joined
<1> SUFFICES ASSUME NEW i \in 1 .. KEY_LEN
             PROVE  Joined(a, b)[i] = a[i] /\ Joined(a, b)[i + KEY_LEN] = b[i]
  OBVIOUS
<1>4. /\ i \in 1 .. (KEY_LEN + KEY_LEN) /\ i <= KEY_LEN
      /\ i + KEY_LEN \in 1 .. (KEY_LEN + KEY_LEN) /\ ~(i + KEY_LEN <= KEY_LEN)
      /\ (i + KEY_LEN) - KEY_LEN = i
  OBVIOUS
<1> QED BY <1>3, <1>4, Zenon

\* The concatenation of two strings of known length tells them both.
LEMMA JoinedInjective ==
    ASSUME NEW a \in Strings, NEW b \in Strings, NEW c \in Strings, NEW d \in Strings,
           Joined(a, b) = Joined(c, d)
    PROVE  a = c /\ b = d
<1>1. /\ a \in [1 .. KEY_LEN -> Nat] /\ b \in [1 .. KEY_LEN -> Nat]
      /\ c \in [1 .. KEY_LEN -> Nat] /\ d \in [1 .. KEY_LEN -> Nat]
  BY StringIsFcn
<1>2. \A i \in 1 .. KEY_LEN : a[i] = c[i] /\ b[i] = d[i]
  BY JoinedParts
<1> QED BY <1>1, <1>2

-----------------------------------------------------------------------------
(* Safety numbers *)

\* A safety number stands for the unordered pair of the two keys: it is the same
\* from either side, and no other pair of keys has it.
THEOREM NumberIsPair ==
    ASSUME NEW a \in Strings, NEW b \in Strings, NEW c \in Strings, NEW d \in Strings
    PROVE  generate_safety_number(a, b) = generate_safety_number(c, d)
               <=> (a = c /\ b = d) \/ (a = d /\ b = c)
<1>1. generate_safety_number(a, b) = generate_safety_number(b, a)
  BY LexOrder DEF generate_safety_number
<1>2. ASSUME generate_safety_number(a, b) = generate_safety_number(c, d)
      PROVE  (a = c /\ b = d) \/ (a = d /\ b = c)
  <2>1. generate_safety_number(a, b) \in {Joined(a, b), Joined(b, a)}
    BY DEF generate_safety_number, Joined
  <2>2. generate_safety_number(c, d) \in {Joined(c, d), Joined(d, c)}
    BY DEF generate_safety_number, Joined
  <2> QED BY <1>2, <2>1, <2>2, JoinedInjective
<1> QED BY <1>1, <1>2

-----------------------------------------------------------------------------
(* The inductive invariant *)

USE ContactsAssumption

Contact == [key : DirectoryKeys, verified : BOOLEAN]

\* What is stored is a key pair, and what is in memory is what is stored.
IdentitiesOK ==
    /\ installed \in [Users -> Nat]
    /\ disk \in [Users -> [public : Seq(Nat), secret : Seq(Nat)]]
    /\ DOMAIN identity = Users
    /\ \A u \in Users :
          /\ installed[u] \in DOMAIN IdentityKeys[u]
          /\ disk[u].public \in KeysOf(u) /\ disk[u].secret = disk[u].public
          /\ identity[u] \in {None, disk[u]}

ContactsTyped == contacts \in [Users -> [Users -> Contact \cup {None}]]

\* A number that was read out has in it a key of the one who read it.
NumberOK(s) ==
    /\ s.from \in Users /\ s.to \in Users /\ s.from # s.to
    /\ \E own \in KeysOf(s.from), other \in Strings :
          s.number = generate_safety_number(own, other)

\* A call is sealed with a secret of the one who made it.
CallOK(call) ==
    /\ call.by \in Users \cup {Relay}
    /\ call.sealed.text = call.by
    /\ \E secret \in call.sealed.key :
          \/ call.by \in Users /\ secret \in KeysOf(call.by)
          \/ call.by = Relay /\ secret = RelayKey

AnsweredOK ==
    \A x \in answered :
        /\ x.on \in Users /\ x.by \in Users \cup {Relay}
        /\ x.verified => x.by \in {x.from, x.on}

ContactsInv ==
    /\ IdentitiesOK
    /\ ContactsTyped
    /\ VerifiedIsTrue
    /\ \A s \in numbers : NumberOK(s)
    /\ \A call \in calls : CallOK(call)
    /\ AnsweredOK

-----------------------------------------------------------------------------
(* The steps *)

\* The keys users generate are strings of the right length, and a key is one user's.
LEMMA UsersKeys ==
    ASSUME NEW u \in Users, NEW v \in Users, NEW key \in KeysOf(u)
    PROVE  /\ key \in Strings /\ key # RelayKey
           /\ key \in KeysOf(v) => u = v
<1>1. key \in Seq(Nat)
  BY DEF KeysOf
<1>2. key \in Strings /\ key # RelayKey
  BY <1>1 DEF Strings
<1> QED BY <1>2

\* A user's n-th key is one of its keys.
LEMMA GeneratedKey ==
    ASSUME NEW u \in Users, NEW n \in DOMAIN IdentityKeys[u]
    PROVE  /\ generate(u, n) \in [public : Seq(Nat), secret : Seq(Nat)]
           /\ generate(u, n).public \in KeysOf(u)
           /\ generate(u, n).secret = generate(u, n).public
           /\ n \in Nat
BY DEF generate, KeysOf

\* A running user's identity is the stored one.
LEMMA RunningIdentity ==
    ASSUME ContactsInv, NEW u \in Users, identity[u] # None
    PROVE  /\ identity[u] = disk[u] /\ identity[u].public \in KeysOf(u)
           /\ identity[u].secret = identity[u].public
BY DEF ContactsInv, IdentitiesOK

\* A known contact has a key and a mark.
LEMMA KnownContact ==
    ASSUME ContactsInv, NEW u \in Users, NEW v \in Users, Knows(u, v)
    PROVE  identity[u] # None /\ contacts[u][v] \in Contact
BY DEF ContactsInv, ContactsTyped, Knows

\* The number a user sees holds its own key and the contact's, if it sees one.
LEMMA SeenNumber ==
    ASSUME ContactsInv, NEW u \in Users, NEW v \in Users, Knows(u, v), NEW x \in NumberFor(u, v)
    PROVE  /\ identity[u].public \in KeysOf(u) /\ identity[u].public \in Strings
           /\ contacts[u][v].key \in Strings
           /\ x = generate_safety_number(identity[u].public, contacts[u][v].key)
<1>1. identity[u].public \in KeysOf(u) /\ contacts[u][v] \in Contact
  BY RunningIdentity, KnownContact
<1>2. contacts[u][v].key \in Seq(Nat)
  BY <1>1 DEF Contact
<1>3. Len(contacts[u][v].key) = KEY_LEN
      /\ x = generate_safety_number(identity[u].public, contacts[u][v].key)
  BY DEF NumberFor, generate_safety_number_from_hex
<1> QED BY <1>1, <1>2, <1>3, UsersKeys DEF Strings

\* A new installation: its keys are the user's too, and nobody is verified there.
LEMMA ReinstallKeeps ==
    ASSUME ContactsInv, NEW u \in Users, Reinstall(u)
    PROVE  ContactsInv'
<1> DEFINE n == installed[u] + 1
<1>1. /\ n \in DOMAIN IdentityKeys[u]
      /\ installed' = [installed EXCEPT ![u] = n]
      /\ disk' = [disk EXCEPT ![u] = generate(u, n)]
      /\ identity' = [identity EXCEPT ![u] = generate(u, n)]
      /\ contacts' = [contacts EXCEPT ![u] = NoContacts]
      /\ UNCHANGED <<numbers, calls, answered>>
  BY DEF Reinstall
<1>2. IdentitiesOK'
  BY <1>1, GeneratedKey DEF ContactsInv, IdentitiesOK
<1>3. ContactsTyped' /\ VerifiedIsTrue'
  BY <1>1 DEF ContactsInv, ContactsTyped, VerifiedIsTrue, NoContacts
<1> QED BY <1>1, <1>2, <1>3 DEF ContactsInv, AnsweredOK, NumberOK, CallOK

\* The process ends or starts: what is loaded is what was stored.
LEMMA RestartKeeps ==
    ASSUME ContactsInv, NEW u \in Users, Stop(u) \/ Start(u)
    PROVE  ContactsInv'
<1>1. /\ \E x \in {None, disk[u]} : identity' = [identity EXCEPT ![u] = x]
      /\ UNCHANGED <<installed, disk, contacts, numbers, calls, answered>>
  BY DEF ContactsInv, IdentitiesOK, Stop, Start, from_bytes
<1>2. IdentitiesOK'
  BY <1>1 DEF ContactsInv, IdentitiesOK
<1> QED BY <1>1, <1>2 DEF ContactsInv, ContactsTyped, VerifiedIsTrue, AnsweredOK, NumberOK, CallOK

\* A key from the directory takes the mark away.
LEMMA AddContactKeeps ==
    ASSUME ContactsInv, NEW u \in Users, NEW v \in Users, NEW key \in DirectoryKeys,
           AddContact(u, v, key)
    PROVE  ContactsInv'
<1> DEFINE new == [key |-> key, verified |-> FALSE]
<1>1. /\ contacts' = [contacts EXCEPT ![u][v] = new]
      /\ UNCHANGED <<installed, disk, identity, numbers, calls, answered>>
  BY DEF AddContact
<1>2. new \in Contact /\ new.verified = FALSE
  BY DEF Contact
<1>3. ContactsTyped' /\ VerifiedIsTrue'
  <2> HIDE DEF new
  <2> QED BY <1>1, <1>2 DEF ContactsInv, ContactsTyped, VerifiedIsTrue
<1> QED BY <1>1, <1>3 DEF ContactsInv, IdentitiesOK, AnsweredOK, NumberOK, CallOK

\* Reading out: the number holds a key of the reader's.
LEMMA ReadOutKeeps ==
    ASSUME ContactsInv, NEW u \in Users, NEW v \in Users \ {u}, ReadOut(u, v)
    PROVE  ContactsInv'
<1>1. /\ Knows(u, v)
      /\ numbers' = numbers \cup {[from |-> u, to |-> v, number |-> x] : x \in NumberFor(u, v)}
      /\ UNCHANGED <<installed, disk, identity, contacts, calls, answered>>
  BY DEF ReadOut
<1>2. ASSUME NEW x \in NumberFor(u, v)
      PROVE  NumberOK([from |-> u, to |-> v, number |-> x])
  <2>1. \E own \in KeysOf(u), other \in Strings : x = generate_safety_number(own, other)
    <3>1. /\ identity[u].public \in KeysOf(u) /\ contacts[u][v].key \in Strings
          /\ x = generate_safety_number(identity[u].public, contacts[u][v].key)
      BY <1>1, SeenNumber
    <3> QED BY <3>1
  <2> QED BY <2>1 DEF NumberOK
<1>3. \A s \in numbers' : NumberOK(s)
  BY <1>1, <1>2 DEF ContactsInv
<1>4. (\A s \in numbers : NumberOK(s))'
  BY <1>3 DEF NumberOK
<1> QED BY <1>1, <1>4 DEF ContactsInv, IdentitiesOK, ContactsTyped, VerifiedIsTrue, AnsweredOK, CallOK

\* Comparing: if the numbers are the same, the key is one of the reader's.
LEMMA CompareKeeps ==
    ASSUME ContactsInv, NEW s \in numbers, Compare(s)
    PROVE  ContactsInv'
<1> DEFINE u == s.to
           v == s.from
<1>1. /\ Knows(u, v) /\ s.number \in NumberFor(u, v)
      /\ contacts' = [contacts EXCEPT ![u][v].verified = TRUE]
      /\ UNCHANGED <<installed, disk, identity, numbers, calls, answered>>
  BY DEF Compare
<1>2. u \in Users /\ v \in Users /\ u # v
  BY DEF ContactsInv, NumberOK
<1>3. PICK own \in KeysOf(v), other \in Strings : s.number = generate_safety_number(own, other)
  BY DEF ContactsInv, NumberOK
<1>4. /\ identity[u].public \in KeysOf(u) /\ identity[u].public \in Strings
      /\ contacts[u][v].key \in Strings
      /\ s.number = generate_safety_number(identity[u].public, contacts[u][v].key)
  BY <1>1, <1>2, SeenNumber
<1>5. own \in Strings /\ own # identity[u].public
  BY <1>2, <1>3, <1>4, UsersKeys
<1>6. contacts[u][v].key \in KeysOf(v)
  <2> DEFINE pu == identity[u].public
             k  == contacts[u][v].key
  <2>1. generate_safety_number(own, other) = generate_safety_number(pu, k)
    BY <1>3, <1>4
  <2>2. (own = pu /\ other = k) \/ (own = k /\ other = pu)
    BY <1>3, <1>4, <1>5, <2>1, NumberIsPair
  <2> QED BY <1>5, <2>2
<1>7. contacts[u][v] \in Contact
  BY <1>1, <1>2, KnownContact
<1>8. ContactsTyped' /\ VerifiedIsTrue'
  <2>1. PICK new \in Contact : /\ new.key = contacts[u][v].key
                               /\ contacts' = [contacts EXCEPT ![u][v] = new]
    <3>1. [contacts[u][v] EXCEPT !.verified = TRUE] \in Contact
      BY <1>7 DEF Contact
    <3>2. [contacts[u][v] EXCEPT !.verified = TRUE].key = contacts[u][v].key
      BY <1>7 DEF Contact
    <3>3. contacts' = [contacts EXCEPT ![u][v] = [contacts[u][v] EXCEPT !.verified = TRUE]]
      BY <1>1, <1>2 DEF ContactsInv, ContactsTyped
    <3> QED BY <3>1, <3>2, <3>3
  <2> HIDE DEF u, v
  <2> QED BY <1>2, <1>6, <2>1 DEF ContactsInv, ContactsTyped, VerifiedIsTrue
<1> QED BY <1>1, <1>8 DEF ContactsInv, IdentitiesOK, AnsweredOK, NumberOK, CallOK

\* A call holds the secret of the one who sends it.
LEMMA SendKeeps ==
    ASSUME ContactsInv, NEW by, NEW sender, NEW pk, Send(by, sender, pk),
           \/ by \in Users /\ sender.secret \in KeysOf(by)
           \/ by = Relay /\ sender.secret = RelayKey
    PROVE  ContactsInv'
<1> DEFINE call == [sealed |-> encrypt_to_identity(sender, pk, by), by |-> by]
<1>1. /\ calls' = calls \cup {call}
      /\ UNCHANGED <<installed, disk, identity, contacts, numbers, answered>>
  BY DEF Send
<1>2. call.by = by /\ call.sealed.text = by /\ call.sealed.key = {sender.secret, pk}
  BY DEF encrypt_to_identity, BoxKey
<1>3. CallOK(call)
  <2> HIDE DEF call
  <2> QED BY <1>2 DEF CallOK
<1>4. (\A x \in calls : CallOK(x))'
  BY <1>1, <1>3 DEF ContactsInv, CallOK
<1> QED BY <1>1, <1>4 DEF ContactsInv, IdentitiesOK, ContactsTyped, VerifiedIsTrue, AnsweredOK, NumberOK

\* Answering: a call that opens with a verified key was sealed by its owner or by
\* the device itself.
LEMMA AnswerKeeps ==
    ASSUME ContactsInv, NEW v \in Users, NEW u \in Users \ {v}, NEW call \in calls,
           Answer(v, u, call)
    PROVE  ContactsInv'
<1>1. /\ Knows(v, u)
      /\ UNCHANGED <<installed, disk, identity, contacts, numbers, calls>>
  BY DEF Answer
<1>2. PICK by \in decrypt_from_identity(identity[v], contacts[v][u].key, call.sealed) :
         answered' = answered \cup
            {[on |-> v, from |-> u, verified |-> contacts[v][u].verified, by |-> by]}
  BY DEF Answer
<1>3. /\ by = call.sealed.text
      /\ call.sealed.key = {identity[v].secret, contacts[v][u].key}
  BY DEF decrypt_from_identity, BoxKey
<1>4. by = call.by /\ CallOK(call)
  BY <1>3 DEF ContactsInv, CallOK
<1>5. by \in Users \cup {Relay}
  BY <1>4 DEF CallOK
<1>6. identity[v].secret \in KeysOf(v)
  BY <1>1, KnownContact, RunningIdentity
<1>7. ASSUME contacts[v][u].verified
      PROVE  by \in {u, v}
  <2>1. contacts[v][u].key \in KeysOf(u)
    BY <1>1, <1>7 DEF ContactsInv, VerifiedIsTrue, Knows
  <2>2. PICK secret \in {identity[v].secret, contacts[v][u].key} :
           \/ by \in Users /\ secret \in KeysOf(by)
           \/ by = Relay /\ secret = RelayKey
    BY <1>3, <1>4 DEF CallOK
  <2>3. \E w \in {u, v} : secret \in KeysOf(w)
    BY <1>6, <2>1
  <2> QED BY <2>2, <2>3, UsersKeys
<1>8. AnsweredOK'
  BY <1>2, <1>5, <1>7 DEF ContactsInv, AnsweredOK
<1> QED BY <1>1, <1>8 DEF ContactsInv, IdentitiesOK, ContactsTyped, VerifiedIsTrue, NumberOK, CallOK

\* ContactsInv is an invariant of users, directory and relay.
THEOREM ContactsInvariance == Spec => []ContactsInv
<1>1. Init => ContactsInv
  <2> SUFFICES ASSUME Init PROVE ContactsInv
    OBVIOUS
  <2>1. \A u \in Users : 1 \in DOMAIN IdentityKeys[u]
    OBVIOUS
  <2>2. IdentitiesOK
    BY <2>1, GeneratedKey DEF Init, IdentitiesOK
  <2>3. ContactsTyped /\ VerifiedIsTrue
    BY DEF Init, ContactsTyped, VerifiedIsTrue, NoContacts
  <2> QED BY <2>2, <2>3 DEF Init, ContactsInv, AnsweredOK
<1>2. ContactsInv /\ [Next]_vars => ContactsInv'
  <2> SUFFICES ASSUME ContactsInv, [Next]_vars
               PROVE  ContactsInv'
    OBVIOUS
  <2>1. CASE \E u \in Users : Reinstall(u) \/ Stop(u) \/ Start(u)
    BY <2>1, ReinstallKeeps, RestartKeeps
  <2>2. ASSUME NEW u \in Users, NEW v \in Users \ {u},
               \/ \E key \in DirectoryKeys : AddContact(u, v, key)
               \/ ReadOut(u, v)
               \/ Call(u, v)
               \/ \E call \in calls : Answer(u, v, call)
        PROVE  ContactsInv'
    <3>1. CASE Call(u, v)
      <4>1. identity[u].secret \in KeysOf(u)
        BY <3>1, KnownContact, RunningIdentity DEF Call
      <4> QED BY <3>1, <4>1, SendKeeps DEF Call
    <3> QED BY <2>2, <3>1, AddContactKeeps, ReadOutKeeps, AnswerKeeps
  <2>3. CASE \E s \in numbers : Compare(s)
    BY <2>3, CompareKeeps
  <2>4. CASE \E u \in Users : \E key \in KeysOf(u) : RelayCall(key)
    <3>1. [public |-> RelayKey, secret |-> RelayKey].secret = RelayKey
      OBVIOUS
    <3> QED BY <2>4, <3>1, SendKeeps DEF RelayCall
  <2>5. CASE UNCHANGED vars
    BY <2>5 DEF vars, ContactsInv, IdentitiesOK, ContactsTyped, VerifiedIsTrue, AnsweredOK,
                NumberOK, CallOK
  <2> QED BY <2>1, <2>2, <2>3, <2>4, <2>5 DEF Next
<1> QED BY <1>1, <1>2, PTL DEF Spec

-----------------------------------------------------------------------------
(* What follows from it *)

\* Identities, contacts and marks keep their types.
THEOREM ContactsTypeCorrect == Spec => []TypeOK
<1>1. ContactsInv => TypeOK
  BY DEF ContactsInv, IdentitiesOK, ContactsTyped, Contact, AnsweredOK, TypeOK
<1> QED BY <1>1, ContactsInvariance, PTL

\* A key that is marked as verified is the contact's, whatever the directory gave
\* to either side and whoever reinstalled between reading out and comparing.
THEOREM VerificationSound == Spec => []VerifiedIsTrue
<1>1. ContactsInv => VerifiedIsTrue
  BY DEF ContactsInv
<1> QED BY <1>1, ContactsInvariance, PTL

\* A call that is taken for one from a verified contact was sealed by that contact
\* or by the answering device.
THEOREM CallsAuthentic == Spec => []VerifiedCallsAuthentic
<1>1. ContactsInv => VerifiedCallsAuthentic
  BY DEF ContactsInv, AnsweredOK, VerifiedCallsAuthentic
<1> QED BY <1>1, ContactsInvariance, PTL

\* Two users see one number exactly when each has the other's current key.
THEOREM NumbersTell == Spec => []NumbersAgree
<1>1. ContactsInv => NumbersAgree
  <2> SUFFICES ASSUME ContactsInv, NEW u \in Users, NEW v \in Users, u # v,
                      Knows(u, v), Knows(v, u)
               PROVE  NumberFor(u, v) \cap NumberFor(v, u) # {} <=> HoldTrueKeys(u, v)
    BY DEF NumbersAgree
  <2> DEFINE pu == identity[u].public
             pv == identity[v].public
             ku == contacts[v][u].key
             kv == contacts[u][v].key
  <2>1. /\ pu = disk[u].public /\ pv = disk[v].public
        /\ pu \in KeysOf(u) /\ pv \in KeysOf(v)
    BY KnownContact, RunningIdentity
  <2>2. pu \in Strings /\ pv \in Strings /\ pu # pv
    BY <2>1, UsersKeys
  <2>3. ASSUME NEW x \in NumberFor(u, v) \cap NumberFor(v, u)
        PROVE  HoldTrueKeys(u, v)
    <3>1. /\ kv \in Strings /\ ku \in Strings
          /\ generate_safety_number(pu, kv) = generate_safety_number(pv, ku)
      BY <2>3, SeenNumber
    <3>2. pu = ku /\ kv = pv
      BY <2>2, <3>1, NumberIsPair
    <3> QED BY <2>1, <3>2 DEF HoldTrueKeys
  <2>4. ASSUME HoldTrueKeys(u, v)
        PROVE  NumberFor(u, v) \cap NumberFor(v, u) # {}
    <3>1. kv = pv /\ ku = pu
      BY <2>1, <2>4 DEF HoldTrueKeys
    <3>2. generate_safety_number(pu, pv) = generate_safety_number(pv, pu)
      BY <2>2, NumberIsPair
    <3>3. Len(pu) = KEY_LEN /\ Len(pv) = KEY_LEN
      BY <2>2 DEF Strings
    <3>4. /\ NumberFor(u, v) = {generate_safety_number(pu, pv)}
          /\ NumberFor(v, u) = {generate_safety_number(pv, pu)}
      BY <3>1, <3>3 DEF NumberFor, generate_safety_number_from_hex
    <3> QED BY <3>2, <3>4
  <2> QED BY <2>3, <2>4
<1> QED BY <1>1, ContactsInvariance, PTL

\* A call between two who hold each other's keys opens, after a restart as before.
THEOREM CallsReach == Spec => []CallsOpen
<1>1. ContactsInv => CallsOpen
  <2> SUFFICES ASSUME ContactsInv, NEW u \in Users, NEW v \in Users, HoldTrueKeys(u, v)
               PROVE  u \in decrypt_from_identity(identity[v], contacts[v][u].key,
                                encrypt_to_identity(identity[u], contacts[u][v].key, u))
    BY DEF CallsOpen
  <2>1. /\ identity[u].secret = disk[u].public /\ contacts[v][u].key = disk[u].public
        /\ identity[v].secret = disk[v].public /\ contacts[u][v].key = disk[v].public
    BY RunningIdentity DEF HoldTrueKeys, Knows
  <2> QED BY <2>1 DEF decrypt_from_identity, encrypt_to_identity, BoxKey
<1> QED BY <1>1, ContactsInvariance, PTL
=============================================================================
