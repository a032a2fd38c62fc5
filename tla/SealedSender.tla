---------------------------- MODULE SealedSender ----------------------------
(***************************************************************************)
(* crates/vaultex-crypto/src/sealed_sender.rs: the envelope that hides the *)
(* sender of a message, and the box between two identities that carries    *)
(* call set-up.  A public key stands for its pair; a box or sealed box is  *)
(* the key it opens with, and what is inside.                              *)
(***************************************************************************)

\* libsodium's sealed box: anyone can make one, its recipient opens it.
sealedbox(text, pk) == [pk |-> pk, text |-> text]

\* Sender and message are two boxes that nothing ties together.
seal(sender, message, recipient) ==
    [encrypted_sender |-> sealedbox(sender, recipient),
     encrypted_message |-> sealedbox(message, recipient)]

\* The pairs <<sender, message>> unseal returns: none if a box is not ours.
unseal(envelope, recipient) ==
    IF envelope.encrypted_sender.pk = recipient /\ envelope.encrypted_message.pk = recipient
    THEN {<<envelope.encrypted_sender.text, envelope.encrypted_message.text>>}
    ELSE {}

-----------------------------------------------------------------------------

\* Fault: the key depends on the side it is computed on.
BoxKeyOrdered(secret, public) == <<secret, public>>

\* crypto_box: the key is the exchange of one side's secret and the other's
\* public key, which is the same from either side.  Left out of the conversion from
\* Ed25519: that it refuses what is no point of the curve, and that a key and its
\* negative become one.
BoxKey(secret, public) == {secret, public}

encrypt_to_identity(sender, recipient_pk, plaintext) ==
    [key |-> BoxKey(sender.secret, recipient_pk), text |-> plaintext]

\* Fault: the key is made from the recipient's pair alone.
decrypt_anonymous(recipient, sender_pk, sealed) ==
    IF recipient.secret \in sealed.key THEN {sealed.text} ELSE {}

\* The plaintexts it returns: none if the key is another.
decrypt_from_identity(recipient, sender_pk, sealed) ==
    IF sealed.key = BoxKey(recipient.secret, sender_pk) THEN {sealed.text} ELSE {}
=============================================================================
