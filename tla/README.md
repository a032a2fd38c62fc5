# A formal model of the VAULTEX cryptographic core

VAULTEX is an end-to-end encrypted messenger. The repository publishes its
cryptographic library (`crates/vaultex-crypto`) and one file of its server, the
authentication middleware (`extracted/server-middleware/auth.rs`). Each
primitive is a call to libsodium; what can go wrong is in the protocol logic
around them: which key is used when, what is remembered and forgotten, and what
happens if messages come late, twice, damaged or not at all. That is what these
modules model.

Cryptography is symbolic throughout. A key pair is named by its owner and a
serial number, a derived key is the list of inputs it was derived from, a
signature is its signer and the signed message, a ciphertext is the key it was
sealed with. Two keys are equal exactly if they were derived the same way.

## Inventory

| Component | State | Operations | Interacts with |
|---|---|---|---|
| Double Ratchet (`double_ratchet.rs`) | `RatchetState`: root key, two chain keys, own key pair, peer's key, three counters, cache of skipped message keys | `init_sender`, `init_receiver`, `encrypt`, `decrypt`, `to_bytes`, `from_bytes` | started from the X3DH secret; its messages pass the relay |
| X3DH (`x3dh.rs`) | none | `initiate_x3dh`, `accept_x3dh` | takes prekeys and identities, gives the ratchet its first root key |
| Prekeys (`prekeys.rs`) | a signed prekey with creation time, one-time prekeys by id | `generate`, `needs_rotation`, `generate_one_time_prekeys`, `from_bytes` | published on the server, used up by X3DH |
| Request signing (`auth.rs`) | none | `sign_request`, `sign_request_with_timestamp` | the middleware |
| Middleware (`extracted/.../auth.rs`) | none of its own; reads the account table and the clock across two awaits | `auth_middleware` | every HTTP handler of the server |
| Padding (`padding.rs`) | none | `pad_message`, `unpad_message`, `generate_dummy_message`, `is_dummy_message` | the payload |
| Payload (`message_payload.rs`) | a message and its metadata | constructors, `to_padded_bytes`, `from_padded_bytes`, `to_bytes`, `from_bytes`, `normalize_group_id` | plaintext of the ratchet |
| Group (`group.rs`) | member list, creator | `new`, `add_member`, `remove_member`, `is_member`, `other_members`, `GroupId` and its hex form | fan-out over pairwise sessions |
| Sealed sender (`sealed_sender.rs`) | none | `seal`, `unseal`; `encrypt_to_identity`, `decrypt_from_identity` | wraps ratchet messages; carries call set-up |
| Media (`media.rs`) | none | `encrypt_file`, `decrypt_file` | the ciphertext is uploaded through the middleware, the key travels in a message |
| Identity (`identity.rs`) | an Ed25519 pair | `generate`, `from_bytes`, `sign`, `verify` | all of the above |
| Safety numbers (`safety_number.rs`) | none | `generate_safety_number`, `generate_safety_number_from_hex` | users compare them and mark contacts as verified |
| AEAD, memory hygiene | none | calls to libsodium | all of the above |

The hard behaviours are these.

- *Order and repetition.* The relay stores messages until they are fetched and
  deleted. A client that stops between decrypting and deleting gets the message
  again; messages come from the queue and from live connections, so they overtake
  each other.
- *Mutation before verification.* `decrypt` changes the session (removes a cached
  key, caches others, makes a DH step) before the AEAD has accepted the
  ciphertext, and an error undoes nothing.
- *Two parties ratcheting at once.* A DH step on one side crosses messages the
  other sent on the chain that has just ended.
- *Lifetimes.* Signed prekeys rotate, retired ones are dropped after a grace
  period, one-time prekeys run out and are replenished, all while first messages
  that depend on them are in transit.
- *Awaits.* The middleware checks the timestamp, waits for the database, waits
  for the body and only then checks the signature.
- *One message, many sends.* A group message is one ratchet message and one
  envelope per member; lists change, a member cannot be reached or the process
  ends in the middle. Message and attachment travel separately.
- *Keys of others.* A contact's key comes from a directory and goes stale with the
  next installation, while numbers read out and calls sealed with it are around.
- *Boundaries.* Limits on skipped messages, clock drift, bucket and file sizes.

`PROJECT.json` lists every hazard at its line with the properties that cover it.

## Modules

| Module | What it is |
|---|---|
| `DoubleRatchet` | `RatchetState` and its operations as operators from state to state. `decrypt` is split where its early returns are: cache hit, rejection in the old chain, a DH step that fails halfway, rejection in the new chain, AEAD. |
| `RatchetSession` | Two devices and the relay. Actions: `Encrypt`, and the five outcomes of `Decrypt`. Constants `Redelivery`, `Retry` and `Damage` choose what the relay may do. |
| `MessageChannel` | Abstract specification: an unordered channel that hands over each message at most once. |
| `RatchetProofs` | The theorems about `RatchetSession`, in two parts: over any relay, and over one that damages nothing and repeats nothing that was read. |
| `RatchetStore` | The session saved and restored (`to_bytes`, `from_bytes`) around `RatchetSession`, with processes that end between any two of: call, save, upload. |
| `StoreProofs`, `HandshakeProofs`, `AuthProofs`, `PayloadProofs`, `GroupProofs`, `ContactsProofs` | The theorems about `RatchetStore`, `Handshake`, `RequestAuth`, `PayloadPath`, `GroupFanout` and `Contacts`. |
| `NatLemmas` | Every non-empty set of naturals has a least element: the induction the other proofs use. |
| `X3DH` | Both sides of the key agreement, the prekey operations. |
| `Handshake` | The recipient's prekeys over time, and first messages through X3DH into `DoubleRatchet`'s first `decrypt`. |
| `RequestAuth` | Clients that sign requests, a network that changes, delays and repeats them, and the middleware in three steps. |
| `Padding`, `PayloadPath` | Padding as operators; the path of a payload through padding, cover traffic and the receiver. |
| `Group`, `Media`, `SealedSender`, `SafetyNumber` | The functions of the four files as operators. |
| `GroupChannel` | Abstract specification: sets of members, posts for the members of the moment, reading. |
| `GroupFanout` | Devices with their lists, the fan-out loop, a relay that mixes envelopes, attachments on the server; implements `GroupChannel`. |
| `Contacts` | Users who get keys from a directory, compare safety numbers, reinstall, restart and call each other. |
| `MC*` | Instances for TLC. |

Definitions have the names of the code where they stand for a function;
operators whose comment starts with "Fault:" are deliberate mistakes, each used
to confirm that a property notices it.

### How the state corresponds

`session[p]` is the `RatchetState` of party p, field by field; the one
difference is that `skipped_keys` is the set of the map's entries.
`sending_keypair` is never absent in the code's reachable states, so the model
gives it no `None`. `network` holds every message ever encrypted, with its
header, the key it is sealed with and a serial number in place of the
plaintext. Not choosing a message again is losing it. The header is not
part of the associated data, so a damaged delivery may have any header
(`DamagedHeaders`): any key of either party or of an outsider, and any numbers. Its
ciphertext may fail the AEAD too, which also stands for a wrong associated data. A key
in `LowOrder` is one `curve25519::scalarmult` refuses: `dh_ratchet_step` then returns
with the numbers reset and the remote key replaced, but root and chains as they were
(`StepBegun`), and `decrypt` with an error (`DecryptStepFails`).

`RatchetStore` adds what is on each device's disk, the messages encrypted and not
yet uploaded, and which of those belong to a state that is saved. The client
decides when to save; `CHANGELOG.md` only says that it does. The model takes the
order for granted that the library needs (state saved before its ciphertext is
uploaded, the record of reading saved with the state), and shows that this order
is enough. `Reopen` is the end of a process at any moment and the start of the
next one.

`Handshake` keeps the recipient's signed prekey with its age, retired ones, the
one-time prekeys held and those the server still has, and the first messages
sent. The applications that call the library are not in the repository: what
they do with prekeys (try the held signed prekeys, remove the one-time prekey on
success, drop retired keys after `SIGNED_PREKEY_GRACE_PERIOD`) is modelled from
the constants and comments of `prekeys.rs` and from `CHANGELOG.md`, and marked
external in the map.

`RequestAuth` keeps, for each call of `auth_middleware` that waits at an await,
what it has established so far. `Arrive` goes up to the database await, `Lookup`
up to the body await, `Finish` to the end; clock ticks, account deletions and
other requests happen in between. A request on the network is the one that was
signed or one with a single field replaced; the query string is a field, which handlers
read and `build_signed_message` leaves out. `deleted` records when an account went.

`GroupFanout` keeps each device's own list of each group: the library synchronises
none, so what a removal means is relative to the device that removes. A copy of a
message is numbered by its place in the list it was sent to; `todo[d]` is the rest
of the loop device d is in, `cut` the messages whose loop was not finished. A
pairwise session is taken at the word of `MessageChannel` as long as every `decrypt` in
it succeeds. One that fails, because the halves of two envelopes were mixed or a copy
came again, has cached keys and may have made a DH step by then; the session is
`disturbed` from there on, and what comes later may be read or may fail. How applications fan
out, skip members without a session and set up an unknown group on receipt is
from `CHANGELOG.md`, and marked external. A file is numbered by its message, and
that number is its key too; lengths are the code's own. A path is the list of its
segments, so that `starts_with("/api/v1/media/")` can be told apart from equality
with `/api/v1/media`.

`Contacts` has keys as byte strings, since concatenation without lengths is what a
safety number depends on. A box is the unordered pair of keys it was made with:
`crypto_box` derives the same key on both sides. The "verified" mark, and that a
new key clears it, belong to the applications.

`PayloadPath` keeps only the length of a byte string, its last four bytes and
which payload it is the JSON of. Sizes are the code's own. The library answers a
malformed group id with an error; what becomes of the message is up to the application,
and both answers are modelled: a receiver that stops there, and one that takes it for a
direct message (`AsDirect`), as `CHANGELOG.md` (line 265) says of the desktop client.

## Runs

| Run | Bounds | Shows |
|---|---|---|
| `ratchet_reorder` | 4 messages and 5 key pairs each, MAX_SKIP 1, refused messages tried again, fair | Root keys stay one DH step apart; the cache holds exactly the keys of messages passed over and not read; MAX_SKIP is exact, in the old chain and the new; every message is read in the end |
| `ratchet_faulty` | 2 messages, 2 key pairs, MAX_SKIP 1, redelivery, damage to the body, headers with the keys of either party or two of an outsider, one of small order, and the number 1 | No message read twice, no key used twice, no used key derivable, also after DH steps that failed halfway; refinement of `MessageChannel` |
| `ratchet_store` | 3 messages, MAX_SKIP 3, 1 restart, of either side at any moment (`RestartLosesNothing` looks ahead to the next) | No key used twice and nothing unreadable after a restart, if states are saved before ciphertexts leave |
| `ratchet_cache_bound` | 4 messages, MAX_SKIP 1 | **Violated**: the cache outgrows MAX_SKIP |
| `ratchet_redelivery` | 3 messages, MAX_SKIP 3, redelivery | **Violated**: a redelivered message makes others unreadable |
| `handshake` | 2 initiators, 2 first messages, 2 batches, 5 ticks, rotation and grace of 2 ticks | First messages open within the grace period; one-time prekeys serve once and protect afterwards |
| `auth_requests` | 2 accounts, 2 routes, 2 queries, 2 bodies, 2 signed requests, clocks one tick early or late, drift limit 1, from the epoch on | Handlers act only on what was signed, the query apart; admitted requests are fresh, punctual ones are admitted; deleted accounts stay out |
| `auth_duplicate` | 2 arrivals | **Violated**: a duplicate is handled again |
| `payload_sizes` | 1 message with bodies on and around six bucket boundaries, dummies | Read back as sent, dummies told apart, smallest bucket, the same size for groups and direct messages |
| `group_fanout` | 3 devices, 2 of them without a session, a list with a repetition, 2 messages, 1 change of a list, no file or one of 0 bytes or of the most that fits 100 MiB with nonce and MAC, uploads of one byte more and files above MAX_FILE_SIZE, fair | Refinement of `GroupChannel`; no copies beyond those the entered list repeats; attachments open as what was attached; every member that can be reached, by a session nothing has disturbed, reads the message |
| `media_limit` | one file of 2 MiB | **Violated**: the middleware refuses it on the documented route |
| `contacts` | 2 users, one reinstalls, keys of two bytes, a directory with true, foreign and malformed keys, 2 numbers, 1 call | Equal numbers mean true keys on both sides; a verified mark is on a key of the contact; calls of verified contacts come from one of the two; calls open after a restart |

The bounds are enough for what each run asks. Three messages and four key pairs
a side (`ratchet_store`) give two chains in each direction with messages of the
older one late, the smallest case in which a message of an old chain can arrive
after both sides have moved on; four messages let both limits of MAX_SKIP be met
at once. With headers damaged as well two messages suffice for that: a number or key
put in a header stands for any later message. The number 1 in a header makes decrypt
pass over a key, in the old chain and in the new one; with 0 as well the run is out of
reach (more than 135000 states after five minutes), and the proofs below cover every
header. Two
initiators with two batches let the one-time prekeys run out and be replenished
under a message in transit, and five ticks hold two rotations and a cleanup. One
change of a list meets a fan-out at its start, middle and end, and with three devices a
receiver can be one the author lists twice, one it cannot reach and one that does not
know the group. Two messages let blobs be mixed up, and the halves of two copies by one
author; two authors never reach a common reader within these bounds, so that a half that
names another sender is the business of the theorem, `GroupRefinement`, alone. So is a
third user who seals calls, in `CallsAuthentic`. Files of other sizes and the documented
route are covered by `AttachmentsOpen`. The
keys of `contacts` are chosen so that malformed ones would give equal numbers. A
byte has 64 values in the payload runs, since 256^4 exceeds TLC's integers, and
`MaxExponent` bounds the powers of two that are bucket sizes to the same range; the
assumption in `Padding` states what is needed of them, and the code meets it with
a wide margin. Deadlock is not checked: with the bounds used up the systems
stop, and a relay that has delivered everything may well be idle.

### Fairness

`RatchetSession!FairSpec`: each message is handed to its recipient undamaged
some time, and again if `decrypt` refused it (`Retry`). The relay keeps messages
until the client deletes them, and clients fetch when they connect; a relay that
withholds a message can always prevent its arrival, so nothing arrives without
this assumption. Sending is not fair: nobody
has to write. `GroupFanout!FairSpec`: a loop that has begun goes on,
unless its process ends, and the relay hands over an envelope in the end; it is read
if no `decrypt` has failed in the session, and nothing is assumed of sessions in which
one has. Nothing is assumed of the middleware: its awaits for the database
(`auth.rs:153`) and for the body (178-179) have no timeout, so a stalled one holds its
call for ever, and no liveness is claimed.

## Proofs

The theorems hold for all values of the constants that the named assumptions allow:
any number of messages, parties, key pairs, ticks and restarts, any lengths. Each
`...Proofs` module states the inductive invariant of its component, proves that
every action preserves it, and draws the properties from it. TLC has checked each
invariant on the instance of the component's run before it was proved.

All safety invariants and both refinements that the passing runs check are
theorems.

### The ratchet over any relay (`RatchetProofs`, first part)

With `Redelivery`, `Retry` and `Damage` left open, damaged headers of any key, small order
included, and any numbers:
`TypeCorrect`, `NoKeyReuse`, `ReplaySafe`, `ForwardSecret` and `Refinement`, from
`RatchetInv`. None of the properties is inductive. What they rest on is this: a
chain is named by the root key it was split from, and a root key is a sequence, so
chains have an order, their length.

- Each side's root key has one parity: Alice's sending chains have odd length,
  Bob's even, and receiving chains the other. So the two never send on the same
  chain, although they may stop agreeing on root keys once a redelivered message
  has set one of them back.
- The sending chain is the newest root, the receiving chain the one before it,
  and a DH step lengthens the root by two. So no chain is ever entered again,
  and a chain key only moves forward. A DH step that fails leaves all three alone.
- Positions are those of the chain keys (`Past`), not the numbers in the state: a failed
  DH step sets the numbers to 0 while the chains stay, so that afterwards a header's
  number and the position of its key differ.
- Everything a side has sealed with lies behind its sending chain key, and
  everything it has read lies behind its receiving chain key or is older; and
  nothing it has read is in its cache. Redelivery cannot bring it back, because
  the cache is only filled from the chain key onwards.

### The ratchet over a relay that repeats nothing that was read (second part)

`InStep`, `CacheExact` and `LimitExact` state `RootsInStep`, `CacheIsPending` and
`SkipLimitExact` under `~Redelivery` and `~Damage`; messages are still lost and
reordered, and come again after `decrypt` refused them. Without the assumption they
are false, as `ratchet_redelivery` shows. They rest on `HonestInv`: there is one line
of chains, the k-th with the ratchet key `Turns[k]` and the root `Root(Turns, k)`, and a
party is at one place on it, `Depth(p)`, which determines its keys and that chains and numbers agree (`Tracks`, `Aligned`: no key
on the line is of small order, so no DH step fails). Besides that it says

- of every message: its header names its place, and `previous_chain_length` is the
  length of the sender's chain before (`HeaderOK`). This is what makes the keys cached
  at a DH step the right ones;
- of every chain: a prefix of its numbers has been sent and nothing else (`ChainIs`),
  and what the receiver has counted was sent (`Counted`), so that a new message is
  never behind the receiver;
- of the cache: it consists of the entries of what was passed over and not read
  (`Pending`);
- of the two: one is one step ahead. So a message is on the receiver's chain, an
  older one or the very next one (`Places`), and no DH step leaves out a chain.

One lemma per stage of `decrypt` shows what it does to such a state: `HitView` the
cache, `SkipView` the loop that both skip functions run, `StepView` the DH step,
`AdvanceView` the chain, `RatchetView` the second stage as a whole; `DecryptView` and
`EncryptView` put them together, and `OpensView` says which messages open, in the numbers
of their headers. These lemmas are about one state, any line of keys K (`Line`) and any
set N of messages that fill its chains (`NetworkOK`), so that they serve for saved states
too. `LimitExact` also counts: a gap has as many messages as numbers (`Stretch`, by a
bijection).

`LateOpens` is `LateArrivalsOpen`, the property that `ratchet_redelivery` shows violated,
for a relay without redelivery and sessions with at most MAX_SKIP messages a side.

### The saved session (`StoreProofs`)

`SaveRestores`: `from_bytes` undoes `to_bytes` on every state whose cache is a map,
although the map becomes a list in any order and a later entry replaces an earlier
one. `StoreTypeCorrect` and `RestartUnique` follow from `StoreInv`. The hard part is
that a restart takes the sending chain back to where it was saved, so that keys are
used again: the invariant says that every message whose state was saved, which those
that left the device are, was sealed with a key before the *saved* position (`Saved`,
`UsedBefore`). Only messages kept back are beyond it, and a restart drops them.

`RestartSafe` is `RestartLosesNothing`, under `~Redelivery` and `MaxSends <= MAX_SKIP`
(with more messages a gap may be above the limit, restart or not). Two things that hold
of a session which never restarts are lost here. A restart drops messages that were
saved and not uploaded: the numbers of a chain then have holes in `network`. And it
makes a device forget a key pair it has generated since it saved, so that the line of
keys is not known beforehand. Therefore `KeptInv` quantifies over both: there are a set G
of messages, those ever saved, and a line K, such that (`Kept`)

- each of the four states, in memory and on disk, is at a place on K and knows of the
  chains what G says (`Agrees`); the one in memory has sent the messages of G and, after
  what its disk knows, those not saved yet (`Drafts`, `AfterSaved`);
- memory is at most one DH step ahead of the disk, and each is one DH output away from
  what the *peer* has saved (`Ahead`). The reason is that only saved messages leave;
- the places on K that a device has not reached have the keys it will generate, in
  order (`Keyed`).

Encrypting adds a draft and saving adds the drafts to G, which nobody's count has passed
(`EndNotPassed`). Restarting changes K: the keys after the saved place are those not
generated yet (`Rekeyed`, `Shifted`). Everything saved is up to one place further
than the saved state, where the two lines are the same (`SameView`, `SameNetwork`). The
theorem then asks `OpensView` about the saved state on the line after such a restart.
For TLC, G and K were history variables of `RatchetStore`, changed as the proofs say.

### The other components

- `HandshakeProofs`: `X3DHAgrees` (both sides compute one secret), and from
  `HandshakeInv` the five invariants of `Handshake`. It relates the age of each
  first message to when its signed prekey was retired, and says that the ids of
  one-time prekeys are never used again.
- `AuthProofs`: the five invariants of `RequestAuth` from `AuthInv`, which keeps for
  each call at an await what has been checked so far, and when. A signature is in a
  request only if its account signed exactly that.
- `PayloadProofs`: `PadUnpad`, for messages of every length, the bytes of the suffix
  computed as the code does; and the five invariants of `PayloadPath`. That the next
  power of two is the smallest bucket (`BucketsSmallest`) is an argument about the
  recursive function `pow2`.
- `GroupProofs`: the invariants of `GroupFanout`, and `GroupRefinement`, that it
  implements `GroupChannel`. `GroupInv` follows each copy of a message by its place in
  the list: waiting in the loop, in an envelope, or read. The list functions are what
  `retain` of Rust does, a recursive function here, of which the proofs need that it
  keeps the members and no repetition is added.
- `ContactsProofs`: `NumberIsPair`, that a safety number determines the unordered pair
  of keys, from the lemma that sorted keys of one length are determined by their
  concatenation; and the five invariants of `Contacts`.

What is needed of a recursive function is proved from its least counterexample:
`LeastNatural` gives the smallest argument the claim fails for, and the function's
equation a contradiction.

The assumptions are those named in the modules: different parties, constants of the
right kind, `None` different from all values it stands beside; for padding, that
buckets are powers of two and that the marker is longer than any padding; for
contacts, that keys have one length and two users do not generate the same one. That
derivation is injective is part of the symbolic representation.

### Left to TLC

The liveness properties `EveryMessageArrives` and `EveryMemberReads`, since they need
fairness.

## Where code and documents disagree

- `MAX_SKIP` bounds what one call skips; its comment says it bounds what a
  session stores (`ratchet_cache_bound`).
- A message that is redelivered after its chain has ended takes the session to a
  root key the peer never has; messages in transit are lost, though the cache is
  there "so late-arriving messages can be decrypted" (`ratchet_redelivery`).
- The timestamp check is called replay protection, and admits a duplicate within
  300 s (`auth_duplicate`).
- The signature is there "to prevent request tampering", and the query string, which
  handlers read (`GET /users?q=`), is not part of what is signed: the middleware builds
  the message from `uri().path()` (`auth.rs`, line 98), as `CHANGELOG.md` (line 352) says
  too. `OnlyQueryUnsigned` states what the signature does cover; in `auth_requests`
  the network changes queries among the rest, and such requests are handled.
- The larger body limit is for paths below `/api/v1/media/`, the documented upload
  route is `/api/v1/media`; and the limit is that of the plaintext, 40 bytes less
  than the largest ciphertext (`media_limit`).
- Without a run: `normalize_group_id` makes a message with a malformed group id an error,
  `CHANGELOG.md` has it "treated as a 1:1", which only an application that goes on after
  the error can do (`PayloadPath` has both); the protocol document lists five padded sizes up to 4096, the code
  goes on in powers of two to 65536 and then in multiples of it; `crypto_box`
  authenticates the pair of its two ends and not which of them sealed, as
  `VerifiedCallsAuthentic` states, where the comment in `sealed_sender.rs` names the
  sender; the document hashes safety numbers with SHA-512, the code with SHA-256; the comments of `padding.rs`
  speak of a two-byte length and the marker 0xFFFF where the code has four bytes
  and 0xFFFFFFFF; the protocol document replenishes one-time prekeys below 20,
  `MIN_ONE_TIME_PREKEYS` is 10.

## Not modelled

The AEAD and memory hygiene are calls to libsodium without state; the modules above
assume their contracts. Byte layouts, hex and JSON are left out except for lengths
in `PayloadPath` and `Media`. Fingerprints are a display form of a key, and
`from_bytes` of prekeys only checks lengths. The conversion of Ed25519 keys to X25519
is the identity in `SealedSender`: that it fails for what is no point of the curve
(`sealed_sender.rs`, lines 95-99 and 110-114), and that it maps two keys to one, no
property depends on. One fetch of a prekey bundle is one step. Ids of one-time prekeys
are naturals, so nothing is said of the end of the `u32` range. Message numbers do not overflow: 2^32
messages on one chain are out of reach. The relay, the database and the
applications are outside the repository; of these only what the library's use
implies is modelled.

## Plan

The session after `Handshake`: a first message redelivered while the session it started
is in use.
