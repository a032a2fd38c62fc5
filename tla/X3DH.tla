-------------------------------- MODULE X3DH --------------------------------
(***************************************************************************)
(* The X3DH key agreement of crates/vaultex-crypto/src/x3dh.rs, with the   *)
(* signed and one-time prekeys of prekeys.rs, as operators.                *)
(*                                                                         *)
(* A party's Ed25519 identity key is named by the party.  The secret both  *)
(* sides derive is the list of DH outputs fed to the KDF, and so a root    *)
(* key of DoubleRatchet.                                                   *)
(***************************************************************************)
EXTENDS DoubleRatchet

\* ed25519_sk_to_curve25519, ed25519_pk_to_curve25519: the X25519 key made
\* from an identity key.  It is no generated key: those count from 1.
Curve(identity) == <<identity, 0>>

\* Ed25519: a signature is tied to its signer and to the signed key.
sign(identity, key) == <<identity, key>>

verify_detached(signature, key, identity) == signature = sign(identity, key)

\* Fault: the buffer is returned as it was initialised.
dh_zeroed(sk, pk) == {}

\* scalarmult: the same from either side.
dh(sk, pk) == {sk, pk}

\* HKDF of the concatenated outputs, named by the list of them.
kdf(dh_concat) == dh_concat

\* What the server hands to an initiator; one_time_prekey is None or [id, key].
Bundle(identity, spk, signature, otpk) ==
    [identity_key |-> identity, signed_prekey |-> spk,
     signed_prekey_signature |-> signature, one_time_prekey |-> otpk]

\* initiate_x3dh refuses a bundle whose signed prekey is not the identity's.
InvalidPreKeySignature(bundle) ==
    ~verify_detached(bundle.signed_prekey_signature, bundle.signed_prekey, bundle.identity_key)

\* The initiator's secret, with ek the ephemeral key pair it generates.
initiate_x3dh(sender, bundle, ek) ==
    LET spk  == bundle.signed_prekey
        opk  == bundle.one_time_prekey
    IN  kdf(<<dh(Curve(sender), spk), dh(ek, Curve(bundle.identity_key)), dh(ek, spk)>>
                \o IF opk = None THEN <<>> ELSE <<dh(ek, opk.key)>>)

\* Fault: DH1 and DH2 change places, as they do if the sides are confused.
accept_swapped(receiver, spk, otpk, sender, ek) ==
    kdf(<<dh(Curve(receiver), ek), dh(spk, Curve(sender)), dh(spk, ek)>>
            \o IF otpk = None THEN <<>> ELSE <<dh(otpk.key, ek)>>)

\* The responder's secret, from the signed and the one-time prekey it picked.
accept_x3dh(receiver, spk, otpk, sender, ek) ==
    kdf(<<dh(spk, Curve(sender)), dh(Curve(receiver), ek), dh(spk, ek)>>
            \o IF otpk = None THEN <<>> ELSE <<dh(otpk.key, ek)>>)

-----------------------------------------------------------------------------
(* prekeys.rs *)

\* Fault: the batch starts one id too low.
BatchBefore(count, starting_id, first_key, party) ==
    {[id |-> starting_id + i - 1, key |-> <<party, first_key + i>>] : i \in 0 .. (count - 1)}

\* Fault: the batch restarts at id 0.
BatchFromZero(count, starting_id, first_key, party) ==
    {[id |-> i, key |-> <<party, first_key + i>>] : i \in 0 .. (count - 1)}

\* generate_one_time_prekeys; party's next key pairs are numbered from first_key.
generate_one_time_prekeys(count, starting_id, first_key, party) ==
    {[id |-> starting_id + i, key |-> <<party, first_key + i>>] : i \in 0 .. (count - 1)}

\* saturating_sub: a created_at in the future counts as age 0.
needs_rotation(created_at, max_age_secs, now) ==
    (IF now < created_at THEN 0 ELSE now - created_at) >= max_age_secs
=============================================================================
