---------------------------- MODULE GroupChannel ----------------------------
(***************************************************************************)
(* What group messaging promises: every device has its own set of members  *)
(* for each group it knows; a post is for the members its author has at    *)
(* that moment, without the author; only they read it, as the author's and *)
(* in the group it was posted to, in any order and perhaps never.          *)
(***************************************************************************)
EXTENDS Naturals, Sequences

CONSTANTS Devices, GroupIds, None

VARIABLES
    edits,   \* how often a user has added or removed a member
    known,   \* known[d][g]: the members of g on device d; None if d does not know g
    posts,   \* what was posted: [from, group, to]
    shown    \* what was read: [on, post, from, group]

vars == <<edits, known, posts, shown>>

Init ==
    /\ edits = 0
    /\ known = [d \in Devices |-> [g \in GroupIds |-> None]]
    /\ posts = <<>>
    /\ shown = {}

SetMembers(d, g, members) == known' = [known EXCEPT ![d][g] = members]

\* A new group always has its creator in it.
Create(d, g, given) ==
    /\ \A e \in Devices : known[e][g] = None
    /\ SetMembers(d, g, given \cup {d})
    /\ UNCHANGED <<edits, posts, shown>>

\* Adding and removing take effect at once, and on one device.
Add(d, g, m) ==
    /\ known[d][g] # None /\ m \notin known[d][g]
    /\ SetMembers(d, g, known[d][g] \cup {m})
    /\ edits' = edits + 1
    /\ UNCHANGED <<posts, shown>>

Remove(d, g, m) ==
    /\ known[d][g] # None /\ m \in known[d][g]
    /\ SetMembers(d, g, known[d][g] \ {m})
    /\ edits' = edits + 1
    /\ UNCHANGED <<posts, shown>>

Post(d, g) ==
    /\ known[d][g] # None
    /\ posts' = Append(posts, [from |-> d, group |-> g, to |-> known[d][g] \ {d}])
    /\ UNCHANGED <<edits, known, shown>>

\* A device that does not know the group gets to know it with its first post.
Read(d, i) ==
    LET p == posts[i]
    IN  /\ d \in p.to
        /\ shown' = shown \cup {[on |-> d, post |-> i, from |-> p.from, group |-> p.group]}
        /\ IF known[d][p.group] = None THEN SetMembers(d, p.group, {d, p.from})
                                     ELSE UNCHANGED known
        /\ UNCHANGED <<edits, posts>>

Next ==
    \E d \in Devices :
        \/ \E g \in GroupIds :
              \/ \E given \in SUBSET Devices : Create(d, g, given)
              \/ \E m \in Devices : Add(d, g, m) \/ Remove(d, g, m)
              \/ Post(d, g)
        \/ \E i \in DOMAIN posts : Read(d, i)

Spec == Init /\ [][Next]_vars
=============================================================================
