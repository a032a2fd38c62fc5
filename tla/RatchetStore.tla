---------------------------- MODULE RatchetStore ----------------------------
(***************************************************************************)
(* A Double Ratchet session that outlives the process: to_bytes and        *)
(* from_bytes of double_ratchet.rs around the session of RatchetSession,   *)
(* and processes that end at any moment.                                   *)
(*                                                                         *)
(* Saving is the client's, and the client is not in the repository.  Taken *)
(* for granted is the order that the library needs: a ciphertext goes to   *)
(* the relay after the state that made it was saved, and the record of     *)
(* what was read is saved together with the state that read it.  So a      *)
(* message is delivered again exactly if its reading was lost.             *)
(***************************************************************************)
EXTENDS RatchetSession, SequencesExt

CONSTANT MaxCrashes   \* bound: how often the processes end

ASSUME StoreAssumption == MaxCrashes \in Nat

VARIABLES
    disk,      \* disk[p]: the bytes last saved, and what was read by then
    held,      \* messages encrypted and not yet given to the relay
    unsaved,   \* those of them whose sending state is not saved yet
    crashes

storeVars == <<session, keygen, sends, network, delivered, accepted, returned,
               disk, held, unsaved, crashes>>

-----------------------------------------------------------------------------
(* RatchetStateSer: the map is a list, the key pair two optional fields *)

RatchetStateSer(s, secret_key, list) ==
    [root_key              |-> s.root_key,
     sending_chain_key     |-> s.sending_chain_key,
     receiving_chain_key   |-> s.receiving_chain_key,
     sending_public_key    |-> s.sending_keypair,
     sending_secret_key    |-> secret_key,
     remote_ratchet_key    |-> s.remote_ratchet_key,
     send_message_number   |-> s.send_message_number,
     recv_message_number   |-> s.recv_message_number,
     previous_chain_length |-> s.previous_chain_length,
     skipped_keys          |-> list]

\* Fault: the cache is taken for a cache and not saved.
to_bytes_no_cache(s) == RatchetStateSer(s, s.sending_keypair, <<>>)

\* Fault: the secret key is left out.
to_bytes_no_secret(s) == RatchetStateSer(s, None, SetToSeq(s.skipped_keys))

to_bytes(s) == RatchetStateSer(s, s.sending_keypair, SetToSeq(s.skipped_keys))

\* A later entry replaces an earlier one for the same header.
ToMap(list) ==
    {list[i] : i \in {k \in DOMAIN list :
                        \A j \in (k + 1) .. Len(list) :
                            <<list[j].pk, list[j].n>> # <<list[k].pk, list[k].n>>}}

\* A key pair of which one half is missing is no key pair.
Restored(ser, sending_chain_key) ==
    [root_key              |-> ser.root_key,
     sending_chain_key     |-> sending_chain_key,
     receiving_chain_key   |-> ser.receiving_chain_key,
     sending_keypair       |-> IF None \in {ser.sending_public_key, ser.sending_secret_key}
                               THEN None ELSE ser.sending_public_key,
     remote_ratchet_key    |-> ser.remote_ratchet_key,
     send_message_number   |-> ser.send_message_number,
     recv_message_number   |-> ser.recv_message_number,
     previous_chain_length |-> ser.previous_chain_length,
     skipped_keys          |-> ToMap(ser.skipped_keys)]

\* Fault: the sending chain is split off from the root key again.
from_bytes_resplit(ser) ==
    Restored(ser, IF ser.sending_chain_key = None THEN None ELSE NewChain(ser.root_key))

from_bytes(ser) == Restored(ser, ser.sending_chain_key)

-----------------------------------------------------------------------------

OnDisk(s, read, ok) == [bytes |-> to_bytes(s), delivered |-> read, accepted |-> ok]

StoreInit ==
    /\ Init
    /\ disk = [p \in Party |-> OnDisk(session[p], {}, {})]
    /\ held = {}
    /\ unsaved = {}
    /\ crashes = 0

\* A call of encrypt; the ciphertext is kept back.
EncryptHeld(p) ==
    /\ Encrypt(p)
    /\ held' = held \cup (network' \ network)
    /\ unsaved' = unsaved \cup (network' \ network)
    /\ UNCHANGED <<disk, crashes>>

\* A call of decrypt with a message the relay has.
DecryptReleased(p, m) ==
    /\ m \notin held
    /\ Decrypt(p, m, m.header, TRUE)
    /\ UNCHANGED <<disk, held, unsaved, crashes>>

Save(p) ==
    /\ disk' = [disk EXCEPT ![p] = OnDisk(session[p], delivered[p], accepted[p])]
    /\ unsaved' = {m \in unsaved : m.from # p}
    /\ UNCHANGED <<vars, held, crashes>>

Release(m) ==
    /\ m \in held \ unsaved
    /\ held' = held \ {m}
    /\ UNCHANGED <<vars, disk, unsaved, crashes>>

\* The process ends: the state in memory is dropped, with what was not released,
\* and the next process starts from what is on the disk.
Reopen(p) ==
    LET lost == {m \in held : m.from = p}
    IN  /\ crashes < MaxCrashes
        /\ crashes' = crashes + 1
        /\ session' = [session EXCEPT ![p] = from_bytes(disk[p].bytes)]
        /\ delivered' = [delivered EXCEPT ![p] = disk[p].delivered]
        /\ accepted' = [accepted EXCEPT ![p] = disk[p].accepted]
        /\ network' = network \ lost
        /\ held' = held \ lost
        /\ unsaved' = unsaved \ lost
        /\ UNCHANGED <<keygen, sends, returned, disk>>

StoreNext ==
    \/ \E p \in Party : EncryptHeld(p) \/ Save(p) \/ Reopen(p)
    \/ \E p \in Party, m \in network : DecryptReleased(p, m)
    \/ \E m \in held : Release(m)

StoreSpec == StoreInit /\ [][StoreNext]_storeVars
-----------------------------------------------------------------------------
(* Properties *)

\* The restored states have the fields a session needs, whenever they are restored.
StoreTypeOK ==
    /\ session \in [Party -> RatchetState]
    /\ \A p \in Party : from_bytes(disk[p].bytes) \in RatchetState
    /\ unsaved \subseteq held /\ held \subseteq network

\* Two messages that left a device, before or after any number of restarts, are
\* sealed with different keys.
RestartKeysUnique ==
    \A m1, m2 \in network \ held : m1.mk = m2.mk => m1 = m2

\* If p's process ended now, the next would read every message for p that
\* reached the relay and is not recorded as read, those whose reading was lost
\* included.
RestartLosesNothing ==
    \A p \in Party : \A m \in network \ held :
        m.from = Peer(p) /\ m \notin disk[p].delivered
            => Opens(from_bytes(disk[p].bytes), m.header, m.mk, FreshKey(p))
=============================================================================
