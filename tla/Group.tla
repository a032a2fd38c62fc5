-------------------------------- MODULE Group --------------------------------
(***************************************************************************)
(* The member list of crates/vaultex-crypto/src/group.rs.  A GroupInfo is  *)
(* its list of members: the name and the time of creation are shown to the *)
(* user and decide nothing, and no operation reads created_by.  A group id *)
(* is 32 random bytes, and travels as 64 hexadecimal digits.               *)
(***************************************************************************)
EXTENDS Naturals, Sequences, Functions

\* The part of a GroupInfo that decides anything.
GroupInfo(devices) == Seq(devices)

\* The hex form holds all of the id; from_hex takes 64 digits and nothing else.
to_hex(id) == [id |-> id, digits |-> 64]

from_hex(hex) == IF hex.digits = 64 THEN {hex.id} ELSE {}

\* Vec::contains, and is_member
is_member(members, m) == m \in Range(members)

\* GroupInfo::new keeps the given list as it is, repetitions included.
new(creator, given) == IF is_member(given, creator) THEN given ELSE Append(given, creator)

\* Fault: the member is added without a look at the list.
add_again(members, m) == Append(members, m)

add_member(members, m) == IF is_member(members, m) THEN members ELSE Append(members, m)

\* Vec::retain(|x| x != m), and the filter of other_members: the entries that
\* are not m, in their order.
retain(list, m) ==
    LET kept[i \in 0 .. Len(list)] ==
            IF i = 0 THEN <<>>
            ELSE IF list[i] = m THEN kept[i - 1]
            ELSE Append(kept[i - 1], list[i])
    IN  kept[Len(list)]

\* Fault: the first entry goes, and a second one stays.
remove_first(members, m) ==
    LET at == {i \in DOMAIN members : members[i] = m}
        i  == CHOOSE j \in at : \A k \in at : j <= k
    IN  IF at = {} THEN members
        ELSE SubSeq(members, 1, i - 1) \o SubSeq(members, i + 1, Len(members))

\* Every entry goes.
remove_member(members, m) == retain(members, m)

\* Fault: the list ends where the device itself stands in it.
others_before_self(members, self) ==
    LET at == {i \in DOMAIN members : members[i] = self}
    IN  SubSeq(members, 1, IF at = {} THEN Len(members)
                           ELSE (CHOOSE j \in at : \A k \in at : j <= k) - 1)

\* The fan-out list, in the order of the members and with their repetitions.
other_members(members, self) == retain(members, self)
=============================================================================
