----------------------------- MODULE GroupFanout -----------------------------
(***************************************************************************)
(* A group message on its way: its author takes the list of the other      *)
(* members, and for one after the other encrypts a copy in the pairwise    *)
(* session with that member and seals it (group.rs, sealed_sender.rs),     *)
(* while the list may change and the process may end.  The relay loses,    *)
(* reorders, misdirects and repeats envelopes and mixes their halves.  A   *)
(* message may name an attachment, which the server keeps (media.rs).      *)
(*                                                                         *)
(* The applications that call the library are modelled from CHANGELOG.md   *)
(* and docs/protocol-spec.md.  A pairwise session is what RatchetSession   *)
(* shows of it: it hands over each copy at most once and nothing else, in  *)
(* any order, as long as decrypt is never called with anything but an      *)
(* unread copy of that session.  A call that fails changes the session, and*)
(* from then on copies in either direction open or do not.                 *)
(***************************************************************************)
EXTENDS Group, Media, SealedSender, FiniteSets

CONSTANTS
    Devices,
    Strangers,     \* pairs {d, e} without a session
    GroupIds,
    GivenLists,    \* member lists the user enters for a new group
    FileSizes,
    UploadPaths,   \* paths clients upload to, as lists of segments
    None,
    MaxMessages,   \* bound: messages sent
    MaxChanges     \* bound: members added or removed

ASSUME GroupAssumption ==
    /\ GivenLists \subseteq Seq(Devices)
    /\ FileSizes \subseteq Nat
    /\ UploadPaths \subseteq Seq(STRING)
    /\ None \notin FileSizes \cup Seq(Devices)
    /\ \A members \in SUBSET Devices : None # members

VARIABLES
    groups,    \* groups[d][g]: the members of g on d, or None
    changes,   \* how many members were added or removed
    sent,      \* messages: [from, group, file, members, to], with file the length
               \* of the attachment or None, members the group's list at that
               \* moment, and to the list of the fan-out
    refused,   \* lengths of files the server refused
    todo,      \* todo[d]: the rest of the fan-out that d is busy with
    cut,       \* messages whose fan-out ended early
    relay,     \* envelopes uploaded
    disturbed, \* sessions {d, e} in which a decrypt has failed
    inbox,     \* copies read: [on, from, copy]
    opened     \* attachments opened: [on, post, content]

vars == <<groups, changes, sent, refused, todo, cut, relay, disturbed, inbox, opened>>

HaveSession(d, e) == {d, e} \notin Strangers

-----------------------------------------------------------------------------
(* The member list on each device *)

Init ==
    /\ groups = [d \in Devices |-> [g \in GroupIds |-> None]]
    /\ changes = 0
    /\ sent = <<>>
    /\ refused = {}
    /\ todo = [d \in Devices |-> <<>>]
    /\ cut = {}
    /\ relay = {}
    /\ disturbed = {}
    /\ inbox = {}
    /\ opened = {}

\* GroupId::generate gives an id nobody has.
CreateGroup(d, g, given) ==
    /\ \A e \in Devices : groups[e][g] = None
    /\ groups' = [groups EXCEPT ![d][g] = new(d, given)]
    /\ UNCHANGED <<changes, sent, refused, todo, cut, relay, disturbed, inbox, opened>>

ChangeMembers(d, g, members) ==
    /\ changes < MaxChanges
    /\ groups[d][g] # None
    /\ groups' = [groups EXCEPT ![d][g] = members]
    /\ groups' # groups
    /\ changes' = changes + 1
    /\ UNCHANGED <<sent, refused, todo, cut, relay, disturbed, inbox, opened>>

AddMember(d, g, m) == ChangeMembers(d, g, add_member(groups[d][g], m))

RemoveMember(d, g, m) == ChangeMembers(d, g, remove_member(groups[d][g], m))

-----------------------------------------------------------------------------
(* Attachments *)

\* The attachment of message n, a file that is numbered like the message.
Blob(n) == encrypt_file(n, sent[n].file)

WithFile == {n \in DOMAIN sent : sent[n].file # None}

\* encrypt_file gives a ciphertext and the middleware refuses it.
UploadRefused(len, path) ==
    /\ ~EncryptRejects(len)
    /\ encrypt_file(Len(sent) + 1, len).len > body_limit(path)
    /\ refused' = refused \cup {len}
    /\ UNCHANGED <<groups, changes, sent, todo, cut, relay, disturbed, inbox, opened>>

\* encrypt_file and the upload succeed.
Uploaded(len, path) ==
    /\ ~EncryptRejects(len)
    /\ encrypt_file(Len(sent) + 1, len).len <= body_limit(path)

\* The blobs the server may hand out: what it was given, or that damaged.
ServerBlobs == LET blobs == {Blob(n) : n \in WithFile} IN blobs \cup UNION {Damaged(b) : b \in blobs}

\* A reader downloads the attachment the message names, under the key in it.
OpenFile(x, blob) ==
    LET n == x.copy[1]
    IN  /\ n \in WithFile
        /\ \E content \in decrypt_file(blob, Blob(n).key) :
              opened' = opened \cup {[on |-> x.on, post |-> n, content |-> content]}
        /\ UNCHANGED <<groups, changes, sent, refused, todo, cut, relay, disturbed, inbox>>

-----------------------------------------------------------------------------
(* The fan-out *)

\* The list is taken once; later changes of the group do not reach it.
StartFanout(d, g, file) ==
    /\ Len(sent) < MaxMessages
    /\ groups[d][g] # None
    /\ todo[d] = <<>>
    /\ file # None => \E path \in UploadPaths : Uploaded(file, path)
    /\ LET to == other_members(groups[d][g], d)
       IN  /\ sent' = Append(sent, [from |-> d, group |-> to_hex(g), file |-> file,
                                    members |-> groups[d][g], to |-> to])
           /\ todo' = [todo EXCEPT ![d] = [i \in DOMAIN to |-> <<Len(sent) + 1, i>>]]
    /\ UNCHANGED <<groups, changes, refused, cut, relay, disturbed, inbox, opened>>

\* The member the i-th copy of message n is for.
Addressee(copy) == sent[copy[1]].to[copy[2]]

\* A ratchet message of the session between two devices.
Ciphertext(from, to, copy) == [from |-> from, to |-> to, copy |-> copy]

\* One turn of the loop; a member the author has no session with is left out.
SendCopy(d) ==
    /\ todo[d] # <<>>
    /\ todo' = [todo EXCEPT ![d] = Tail(@)]
    /\ LET copy == Head(todo[d])
           m    == Addressee(copy)
       IN  relay' = IF HaveSession(d, m)
                    THEN relay \cup {seal(d, Ciphertext(d, m, copy), m)}
                    ELSE relay
    /\ UNCHANGED <<groups, changes, sent, refused, cut, disturbed, inbox, opened>>

\* The process ends, or the upload fails for good: the loop is not resumed.
EndEarly(d) ==
    /\ todo[d] # <<>>
    /\ cut' = cut \cup {Head(todo[d])[1]}
    /\ todo' = [todo EXCEPT ![d] = <<>>]
    /\ UNCHANGED <<groups, changes, sent, refused, relay, disturbed, inbox, opened>>

-----------------------------------------------------------------------------
(* The receiver *)

\* The session with the named sender has the key of the ciphertext.
SessionOpens(d, sender, msg) == msg.from = sender /\ msg.to = d

\* The copy's key is used up.
Read(msg) == \E x \in inbox : x.copy = msg.copy

\* A group the device does not know yet is set up with itself and the sender.
Discovered(d, sender) == <<d, sender>>

\* unseal, decrypt, and the group the payload names
Reads(d, envelope) ==
    \E u \in unseal(envelope, d) :
        LET sender == u[1]
            msg    == u[2]
            x      == [on |-> d, from |-> sender, copy |-> msg.copy]
        IN  /\ SessionOpens(d, sender, msg)
            /\ ~Read(msg)
            /\ inbox' = inbox \cup {x}
            /\ \E g \in from_hex(sent[msg.copy[1]].group) :
                  groups' = [groups EXCEPT ![d][g] =
                                IF @ = None THEN Discovered(d, sender) ELSE @]
            /\ UNCHANGED <<changes, sent, refused, todo, cut, relay, disturbed, opened>>

\* unseal, and a decrypt that fails: the message is of another session or was read
\* before, or the session was disturbed already.  By then decrypt has passed over
\* keys, and made the DH step of the header it was given.
FailsToRead(d, envelope) ==
    \E u \in unseal(envelope, d) :
        LET sender == u[1]
            msg    == u[2]
        IN  /\ HaveSession(d, sender)
            /\ ~SessionOpens(d, sender, msg) \/ Read(msg) \/ {d, sender} \in disturbed
            /\ disturbed' = disturbed \cup {{d, sender}}
            /\ UNCHANGED <<groups, changes, sent, refused, todo, cut, relay, inbox, opened>>

Receive(d, envelope) == Reads(d, envelope) \/ FailsToRead(d, envelope)

\* The relay's envelopes, and those made of the halves of two.
Envelopes ==
    {[encrypted_sender |-> e.encrypted_sender, encrypted_message |-> f.encrypted_message] :
        e, f \in relay}

Next ==
    \/ \E d \in Devices :
          \/ \E g \in GroupIds :
                \/ \E given \in GivenLists : CreateGroup(d, g, given)
                \/ \E m \in Devices : AddMember(d, g, m) \/ RemoveMember(d, g, m)
                \/ \E file \in FileSizes \cup {None} : StartFanout(d, g, file)
          \/ SendCopy(d)
          \/ EndEarly(d)
          \/ \E e \in Envelopes : Receive(d, e)
    \/ \E len \in FileSizes, path \in UploadPaths : UploadRefused(len, path)
    \/ \E x \in inbox, b \in ServerBlobs : OpenFile(x, b)

Spec == Init /\ [][Next]_vars

\* The loop goes on; the relay keeps an envelope until its recipient has it, and a
\* session that nothing has disturbed opens it.
FairSpec ==
    /\ Spec
    /\ \A d \in Devices : WF_vars(SendCopy(d))
    /\ \A d \in Devices :
          WF_vars(\E e \in relay : {d, e.encrypted_sender.text} \notin disturbed /\ Reads(d, e))

-----------------------------------------------------------------------------
(* Properties *)

\* Member lists, fan-outs and what was read have their types.
TypeOK ==
    /\ groups \in [Devices -> [GroupIds -> GroupInfo(Devices) \cup {None}]]
    /\ \A n \in DOMAIN sent : sent[n].from \in Devices /\ sent[n].to \in Seq(Devices)
    /\ refused \cup {sent[n].file : n \in WithFile} \subseteq 0 .. MAX_FILE_SIZE
    /\ \A d \in Devices : \A i \in DOMAIN todo[d] : Addressee(todo[d][i]) \in Devices
    /\ disturbed \subseteq (SUBSET Devices) \ Strangers
    /\ \A x \in inbox : x.on \in Devices /\ x.from \in Devices
    /\ \A x \in opened : x.post \in WithFile

\* What GroupChannel sees: a list stands for the set of its entries.
Known == [d \in Devices |-> [g \in GroupIds |->
             IF groups[d][g] = None THEN None ELSE Range(groups[d][g])]]

Posts == [n \in DOMAIN sent |->
             [from |-> sent[n].from, group |-> sent[n].group.id, to |-> Range(sent[n].to)]]

Shown == {[on |-> x.on, post |-> x.copy[1], from |-> x.from,
           group |-> sent[x.copy[1]].group.id] : x \in inbox}

Promised == INSTANCE GroupChannel WITH
    edits <- changes, known <- Known, posts <- Posts, shown <- Shown

\* The promise of GroupChannel is kept: repeated entries, envelopes that are mixed
\* or misdirected, changes of the list in the middle of a fan-out make no
\* difference to who reads what as whose.
ImplementsGroupChannel == Promised!Spec

Copies(d, n) == {x \in inbox : x.on = d /\ x.copy[1] = n}

Repeats(list, d) == Cardinality({i \in DOMAIN list : list[i] = d})

\* A device reads a message once, or as often as the list the user entered for
\* the group repeats the device: neither adding members nor the relay's
\* repetitions make another copy.
NoExtraCopies ==
    \A d \in Devices, n \in DOMAIN sent :
        \/ Cardinality(Copies(d, n)) <= 1
        \/ \E l \in GivenLists : Cardinality(Copies(d, n)) <= Repeats(l, d)

\* Whatever blob the server hands out, an attachment that opens is the file its
\* author attached; and the right blob opens, from the empty file to the largest that
\* the middleware lets through.
AttachmentsTrue ==
    /\ \A x \in opened : x.content = x.post
    /\ \A n \in WithFile : decrypt_file(Blob(n), Blob(n).key) = {n}

\* Every file encrypt_file takes can be uploaded.
UploadsAccepted == refused = {}

\* A decrypt has failed in the session of d with the author of message n.
SessionDisturbed(d, n) == n \in DOMAIN sent /\ {d, sent[n].from} \in disturbed

\* Whoever is a member when the message is sent, and has a session with the author,
\* reads it in the end, unless the author's process ended first or a failed decrypt
\* disturbed the session between the two: an earlier member without a session, a
\* change of the list, the place in it, or trouble in the session of another member
\* hold up nobody.
EveryMemberReads ==
    \A n \in 1 .. MaxMessages, d \in Devices :
        (n \in DOMAIN sent /\ d # sent[n].from /\ is_member(sent[n].members, d)
                            /\ HaveSession(sent[n].from, d))
            ~> (n \in cut \/ Copies(d, n) # {} \/ SessionDisturbed(d, n))
=============================================================================
