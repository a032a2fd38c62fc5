------------------------------ MODULE Contacts ------------------------------
(***************************************************************************)
(* Users who learn each other's identity keys from a directory, compare    *)
(* safety numbers, and call each other (identity.rs, safety_number.rs, the *)
(* identity box of sealed_sender.rs).  The directory may give a key that   *)
(* is out of date, someone else's or no key at all; installations are      *)
(* replaced and processes restarted at any time; numbers that were read    *)
(* out and calls on their way outlive both.                                *)
(*                                                                         *)
(* A contact's key and its "verified" mark are kept by the applications,   *)
(* which are modelled from docs/protocol-spec.md and CHANGELOG.md.         *)
(***************************************************************************)
EXTENDS SafetyNumber, SealedSender, FiniteSets

CONSTANTS
    Users,
    IdentityKeys,    \* IdentityKeys[u]: the public keys u's installations generate
    DirectoryKeys,   \* what the directory may give out
    RelayKey,        \* the public half of a pair the relay made for itself
    Relay, None,
    MaxNumbers,      \* bound: safety numbers read out
    MaxCalls         \* bound: calls sent

KeysOf(u) == {IdentityKeys[u][i] : i \in DOMAIN IdentityKeys[u]}

ASSUME ContactsAssumption ==
    /\ IdentityKeys \in [Users -> Seq(Seq(Nat))]
    /\ DirectoryKeys \subseteq Seq(Nat)
    /\ Relay \notin Users /\ None \notin Users \cup {Relay}
    \* Everybody has a key; a key has its length; nobody generates another's.
    /\ \A u \in Users :
          /\ IdentityKeys[u] # <<>>
          /\ \A key \in KeysOf(u) : Len(key) = KEY_LEN
          /\ RelayKey \notin KeysOf(u)
    /\ \A u, v \in Users : u # v => KeysOf(u) \cap KeysOf(v) = {}

VARIABLES
    installed,   \* installed[u]: how many installations u has had
    disk,        \* disk[u]: the stored identity: [public, secret]
    identity,    \* identity[u]: the one in memory, or None
    contacts,    \* contacts[u][v]: [key, verified], or None
    numbers,     \* safety numbers read out: [from, to, number]
    calls,       \* calls on their way: [sealed, by]
    answered     \* calls accepted: [on, from, verified, by]

vars == <<installed, disk, identity, contacts, numbers, calls, answered>>

-----------------------------------------------------------------------------
(* Identities *)

\* A secret key is named by its public half.
generate(u, n) == [public |-> IdentityKeys[u][n], secret |-> IdentityKeys[u][n]]

\* Fault: only the public half is restored.
from_bytes_public_only(public_key, secret_key) == [public |-> public_key, secret |-> None]

\* from_bytes on what secret_key_bytes gave: both halves have their length.
from_bytes(public_key, secret_key) == [public |-> public_key, secret |-> secret_key]

NoContacts == [v \in Users |-> None]

Init ==
    /\ installed = [u \in Users |-> 1]
    /\ disk = [u \in Users |-> generate(u, 1)]
    /\ identity = disk
    /\ contacts = [u \in Users |-> NoContacts]
    /\ numbers = {}
    /\ calls = {}
    /\ answered = {}

\* A new installation has a new identity and no contacts.
Reinstall(u) ==
    LET n == installed[u] + 1
    IN  /\ n \in DOMAIN IdentityKeys[u]
        /\ installed' = [installed EXCEPT ![u] = n]
        /\ disk' = [disk EXCEPT ![u] = generate(u, n)]
        /\ identity' = [identity EXCEPT ![u] = generate(u, n)]
        /\ contacts' = [contacts EXCEPT ![u] = NoContacts]
        /\ UNCHANGED <<numbers, calls, answered>>

\* Drop: the process ends, and the secret is wiped from memory.
Stop(u) ==
    /\ identity[u] # None
    /\ identity' = [identity EXCEPT ![u] = None]
    /\ UNCHANGED <<installed, disk, contacts, numbers, calls, answered>>

Start(u) ==
    /\ identity[u] = None
    /\ identity' = [identity EXCEPT ![u] = from_bytes(disk[u].public, disk[u].secret)]
    /\ UNCHANGED <<installed, disk, contacts, numbers, calls, answered>>

Knows(u, v) == identity[u] # None /\ contacts[u][v] # None

-----------------------------------------------------------------------------
(* Contacts and safety numbers *)

\* A key from the directory, for the first time or in place of another.
AddContact(u, v, key) ==
    /\ identity[u] # None
    /\ contacts' = [contacts EXCEPT ![u][v] = [key |-> key, verified |-> FALSE]]
    /\ contacts' # contacts
    /\ UNCHANGED <<installed, disk, identity, numbers, calls, answered>>

\* The numbers u sees for v: none if a key is malformed.
NumberFor(u, v) == generate_safety_number_from_hex(identity[u].public, contacts[u][v].key)

\* u reads its number out to v, over a channel that keeps its words.
ReadOut(u, v) ==
    /\ Cardinality(numbers) < MaxNumbers
    /\ Knows(u, v)
    /\ numbers' = numbers \cup {[from |-> u, to |-> v, number |-> x] : x \in NumberFor(u, v)}
    /\ numbers' # numbers
    /\ UNCHANGED <<installed, disk, identity, contacts, calls, answered>>

\* The listener sees the same number and marks the contact.
Compare(s) ==
    /\ Knows(s.to, s.from)
    /\ s.number \in NumberFor(s.to, s.from)
    /\ contacts' = [contacts EXCEPT ![s.to][s.from].verified = TRUE]
    /\ UNCHANGED <<installed, disk, identity, numbers, calls, answered>>

-----------------------------------------------------------------------------
(* Calls *)

IsKey(bytes) == Len(bytes) = KEY_LEN

Send(by, sender, recipient_pk) ==
    /\ Cardinality(calls) < MaxCalls
    /\ IsKey(recipient_pk)
    /\ calls' = calls \cup {[sealed |-> encrypt_to_identity(sender, recipient_pk, by), by |-> by]}
    /\ UNCHANGED <<installed, disk, identity, contacts, numbers, answered>>

Call(u, v) == Knows(u, v) /\ Send(u, identity[u], contacts[u][v].key)

\* Whoever runs the relay can seal with a pair of its own.
RelayCall(recipient_pk) == Send(Relay, [public |-> RelayKey, secret |-> RelayKey], recipient_pk)

\* v takes a call for one from u, and checks it with the key it has for u.
Answer(v, u, call) ==
    /\ Knows(v, u)
    /\ IsKey(contacts[v][u].key)
    /\ \E by \in decrypt_from_identity(identity[v], contacts[v][u].key, call.sealed) :
          answered' = answered \cup
              {[on |-> v, from |-> u, verified |-> contacts[v][u].verified, by |-> by]}
    /\ UNCHANGED <<installed, disk, identity, contacts, numbers, calls>>

Next ==
    \/ \E u \in Users : Reinstall(u) \/ Stop(u) \/ Start(u)
    \/ \E u \in Users : \E v \in Users \ {u} :
          \/ \E key \in DirectoryKeys : AddContact(u, v, key)
          \/ ReadOut(u, v)
          \/ Call(u, v)
          \/ \E call \in calls : Answer(u, v, call)
    \/ \E s \in numbers : Compare(s)
    \/ \E u \in Users : \E key \in KeysOf(u) : RelayCall(key)

Spec == Init /\ [][Next]_vars
-----------------------------------------------------------------------------
(* Properties *)

\* Identities, contacts and marks have their types.
TypeOK ==
    /\ \A u \in Users :
          /\ installed[u] \in DOMAIN IdentityKeys[u]
          /\ disk[u] \in [public : KeysOf(u), secret : KeysOf(u)]
          /\ identity[u] \in {None, disk[u]}
          /\ \A v \in Users : contacts[u][v] = None
                 \/ contacts[u][v] \in [key : DirectoryKeys, verified : BOOLEAN]
    /\ \A x \in answered : x.on \in Users /\ x.by \in Users \cup {Relay}

\* A key marked as verified is one of the contact's own, whatever the directory
\* gave to either side, and whoever reinstalled between reading out and comparing.
VerifiedIsTrue ==
    \A u, v \in Users :
        contacts[u][v] # None /\ contacts[u][v].verified => contacts[u][v].key \in KeysOf(v)

\* The current keys of each other
HoldTrueKeys(u, v) ==
    /\ Knows(u, v) /\ contacts[u][v].key = disk[v].public
    /\ Knows(v, u) /\ contacts[v][u].key = disk[u].public

\* Two users see the same number if and only if each has the other's key.
NumbersAgree ==
    \A u, v \in Users :
        u # v /\ Knows(u, v) /\ Knows(v, u) =>
            (NumberFor(u, v) \cap NumberFor(v, u) # {} <=> HoldTrueKeys(u, v))

\* A call that is taken for one from a verified contact was sealed by that contact,
\* or by the very device that answers: never by the relay or by another user.
VerifiedCallsAuthentic ==
    \A x \in answered : x.verified => x.by \in {x.from, x.on}

\* A call between two who hold each other's keys opens, after a restart as before.
CallsOpen ==
    \A u, v \in Users :
        u # v /\ HoldTrueKeys(u, v) =>
            u \in decrypt_from_identity(identity[v], contacts[v][u].key,
                      encrypt_to_identity(identity[u], contacts[u][v].key, u))
=============================================================================
