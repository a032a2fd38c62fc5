----------------------------- MODULE MCContacts -----------------------------
(* TLC instance of Contacts: two users, one of whom reinstalls, keys of two    *)
(* bytes.                                                                      *)
EXTENDS Contacts, TLC

CONSTANTS a, b

MCUsers == {a, b}
MCIdentityKeys == (a :> << <<1, 2>>, <<5, 1>> >>) @@ (b :> << <<3, 4>> >>)
MCRelayKey == <<2, 2>>

\* The users' keys, the relay's, and two strings that are too long for a key and
\* make the same text with the others: 1 2 | 2 3 4 and 1 2 2 | 3 4.
MCDirectoryKeys == {<<1, 2>>, <<5, 1>>, <<3, 4>>, <<2, 2>>, <<1, 2, 2>>, <<2, 3, 4>>}
=============================================================================
