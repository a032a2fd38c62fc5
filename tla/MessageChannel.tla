---------------------------- MODULE MessageChannel ----------------------------
(***************************************************************************)
(* What two parties get from an established session, whatever the relay    *)
(* does with their ciphertexts: a message is handed to its recipient at    *)
(* most once, only if the other party sent it, and in any order.  Nothing  *)
(* is promised to arrive.                                                  *)
(***************************************************************************)
EXTENDS Integers

CONSTANTS Alice, Bob

VARIABLES
    count,     \* count[p]: how many messages p has sent
    received,  \* received[p]: the messages p has read, as <<sender, serial number>>
    reads      \* reads[p]: how many times p has read a message

chanVars == <<count, received, reads>>

Ends == {Alice, Bob}

ChanInit ==
    /\ count = [p \in Ends |-> 0]
    /\ received = [p \in Ends |-> {}]
    /\ reads = [p \in Ends |-> 0]

Send(p) ==
    /\ count' = [count EXCEPT ![p] = @ + 1]
    /\ UNCHANGED <<received, reads>>

\* p reads the i-th message of q, for the first time.
Read(p, q, i) ==
    /\ p # q
    /\ i < count[q]
    /\ <<q, i>> \notin received[p]
    /\ received' = [received EXCEPT ![p] = @ \cup {<<q, i>>}]
    /\ reads' = [reads EXCEPT ![p] = @ + 1]
    /\ UNCHANGED count

ChanNext ==
    \E p \in Ends :
        \/ Send(p)
        \/ \E q \in Ends : \E i \in 0 .. (count[q] - 1) : Read(p, q, i)

ChanSpec == ChanInit /\ [][ChanNext]_chanVars
=============================================================================
