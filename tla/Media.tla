-------------------------------- MODULE Media --------------------------------
(***************************************************************************)
(* File encryption of crates/vaultex-crypto/src/media.rs, and the limit the*)
(* server's middleware sets on the upload.  A file is its serial number,   *)
(* which also names the random key it is sealed with, and its length.      *)
(***************************************************************************)
EXTENDS Integers, Sequences

MiB == 1024 * 1024

MAX_FILE_SIZE == 100 * MiB

NONCEBYTES == 24
MACBYTES == 16

\* Fault: the limit is put on the ciphertext, nonce and MAC included.
CiphertextRejects(len) == len > MAX_FILE_SIZE + NONCEBYTES + MACBYTES

EncryptRejects(len) == len > MAX_FILE_SIZE

\* Fault: one key for all files.
encrypt_file_same_key(file, len) ==
    [key |-> 0, content |-> file, len |-> NONCEBYTES + len + MACBYTES, intact |-> TRUE]

\* nonce || ciphertext || MAC under a fresh key
encrypt_file(file, len) ==
    [key |-> file, content |-> file, len |-> NONCEBYTES + len + MACBYTES, intact |-> TRUE]

TooShort(blob) == blob.len < NONCEBYTES + MACBYTES

\* The contents a key gives: none if the blob is too short or the MAC is wrong.
decrypt_file(blob, key) ==
    IF ~TooShort(blob) /\ blob.intact /\ blob.key = key THEN {blob.content} ELSE {}

\* What may become of a blob in storage or on the way: a byte changed, or cut short.
Damaged(blob) ==
    {[blob EXCEPT !.intact = FALSE], [blob EXCEPT !.intact = FALSE, !.len = NONCEBYTES]}

-----------------------------------------------------------------------------
(* The upload.  A path is the list of its segments. *)

\* auth_middleware: the larger limit is for paths that go on after /api/v1/media/.
body_limit(path) ==
    IF Len(path) > 3 /\ SubSeq(path, 1, 3) = <<"api", "v1", "media">> THEN 100 * MiB ELSE MiB
=============================================================================
