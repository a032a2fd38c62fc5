--------------------------- MODULE MCRatchetStore ---------------------------
(* TLC instance of RatchetStore: two parties and one restart.                *)
EXTENDS RatchetStore

CONSTANTS a, b, o

MCParty == {a, b}
=============================================================================
