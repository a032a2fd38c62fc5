---------------------------- MODULE MCRequestAuth ----------------------------
(* TLC instances of RequestAuth: two accounts, a public and another route, a   *)
(* drift limit of one tick.  A query is none or one that a handler reads.      *)
EXTENDS RequestAuth, TLC

CONSTANTS a, b

MCAccounts == {a, b}

\* Nothing tells the accounts apart.
MCSymmetry == Permutations(MCAccounts)

MCTargets ==
    {<<"GET", "/api/v1/messages/inbox">>,
     <<"POST", "/api/v1/messages/send">>}

MCTargetsOne == {<<"GET", "/api/v1/messages/inbox">>, <<"get", "/api/v1/messages/inbox">>}

\* A body every route takes and one that this route does not take.
MCBodies == {<<"x", 1>>, <<"y", 2>>}
MCBodiesOne == {<<"x", 1>>}

MCMediaPaths == {"/api/v1/media/upload"}

MCSkews == {-1, 1}
MCSkewsNone == {0}
=============================================================================
