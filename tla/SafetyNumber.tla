---------------------------- MODULE SafetyNumber ----------------------------
(***************************************************************************)
(* crates/vaultex-crypto/src/safety_number.rs.  A key is a string of bytes. *)
(* The hash is taken to be injective, and so are the twelve groups, each   *)
(* of which holds two bytes of it (value % 100000 changes no u16): a number *)
(* is the string that is hashed.                                           *)
(***************************************************************************)
EXTENDS Integers, Sequences

CONSTANT KEY_LEN    \* bytes of a public key: 32

ASSUME KeyLenAssumption == KEY_LEN \in Nat

\* <= of byte slices
LexLeq(s, t) ==
    \/ Len(s) <= Len(t) /\ SubSeq(t, 1, Len(s)) = s
    \/ \E i \in DOMAIN s \cap DOMAIN t :
          SubSeq(s, 1, i - 1) = SubSeq(t, 1, i - 1) /\ s[i] < t[i]

\* Fault: each side puts its own key first.
own_key_first(our_key, their_key) == our_key \o their_key

generate_safety_number(our_key, their_key) ==
    IF LexLeq(our_key, their_key) THEN our_key \o their_key ELSE their_key \o our_key

\* Fault: the lengths are not looked at.
from_hex_any_length(our_key, their_key) == {generate_safety_number(our_key, their_key)}

\* The numbers it returns: none if a key has another length.
generate_safety_number_from_hex(our_key, their_key) ==
    IF Len(our_key) = KEY_LEN /\ Len(their_key) = KEY_LEN
    THEN {generate_safety_number(our_key, their_key)}
    ELSE {}
=============================================================================
