------------------------------ MODULE MCRatchet ------------------------------
(* TLC instances of RatchetSession: two parties, a handful of messages.      *)
EXTENDS RatchetSession

CONSTANTS a, b, o

MCParty == {a, b}

\* A key an outsider generated, and one of small order.
MCOutsideKeys == {<<o, 0>>, <<o, 1>>}
MCLowOrder == {<<o, 1>>}
=============================================================================
