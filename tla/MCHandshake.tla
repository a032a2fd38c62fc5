----------------------------- MODULE MCHandshake -----------------------------
(* TLC instance of Handshake: one recipient, two initiators.                   *)
EXTENDS Handshake, TLC

CONSTANTS a, b, r, o

MCInitiators == {a, b}
MCParty == {a, b, r}

\* The initiators are interchangeable.
MCSymmetry == Permutations(MCInitiators)
=============================================================================
