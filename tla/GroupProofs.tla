----------------------------- MODULE GroupProofs -----------------------------
(***************************************************************************)
(* Proofs about member lists and about GroupFanout, for any devices, any   *)
(* groups, any lists a user may enter and any number of messages.          *)
(***************************************************************************)
EXTENDS GroupFanout, NatLemmas, FiniteSetTheorems, SequenceTheorems, TLAPS

-----------------------------------------------------------------------------
(* Lists *)

\* What retain has kept of list up to an entry, as long as it runs.
Kept(h, list, m, i) ==
    IF i = 0 THEN <<>>
    ELSE IF list[i] = m THEN h[i - 1] ELSE Append(h[i - 1], list[i])

\* The loop of retain is a function of the place it has come to.
LEMMA RetainLoop ==
    ASSUME NEW S, NEW list \in Seq(S), NEW m
    PROVE  \E h : /\ h = [i \in 0 .. Len(list) |-> Kept(h, list, m, i)]
                  /\ retain(list, m) = h[Len(list)]
<1> DEFINE Loop(n) == \E h : h = [i \in 0 .. n |-> Kept(h, list, m, i)]
<1>0. Len(list) \in Nat
  OBVIOUS
<1>1. Loop(0)
  <2> DEFINE h == [i \in 0 .. 0 |-> <<>>]
  <2>1. h = [i \in 0 .. 0 |-> Kept(h, list, m, i)]
    BY DEF Kept
  <2> HIDE DEF h
  <2> QED BY <2>1
<1>2. ASSUME NEW n \in Nat, n # 0, Loop(n - 1)
      PROVE  Loop(n)
  <2>1. PICK g : g = [i \in 0 .. n - 1 |-> Kept(g, list, m, i)]
    BY <1>2
  <2> DEFINE h == [i \in 0 .. n |-> IF i = n THEN Kept(g, list, m, n) ELSE g[i]]
  <2>2. \A i \in 0 .. n - 1 : h[i] = g[i]
    OBVIOUS
  <2>3. \A i \in 0 .. n : Kept(h, list, m, i) = Kept(g, list, m, i)
    <3> HIDE DEF h
    <3> QED BY <2>2 DEF Kept
  <2>4. \A i \in 0 .. n : h[i] = Kept(h, list, m, i)
    <3>1. \A i \in 0 .. n - 1 : g[i] = Kept(g, list, m, i)
      BY <2>1
    <3>2. ASSUME NEW i \in 0 .. n
          PROVE  h[i] = Kept(g, list, m, i)
      BY <3>1
    <3> HIDE DEF h
    <3> QED BY <3>2, <2>3
  <2>5. h = [i \in 0 .. n |-> h[i]]
    OBVIOUS
  <2> HIDE DEF h
  <2>6. h = [i \in 0 .. n |-> Kept(h, list, m, i)]
    BY <2>4, <2>5
  <2> QED BY <2>6
<1>3. \A n \in Nat : Loop(n)
  <2> DEFINE Bad == {n \in Nat : ~Loop(n)}
  <2> HIDE DEF Loop
  <2>1. SUFFICES ASSUME Bad # {} PROVE FALSE
    OBVIOUS
  <2>2. PICK n \in Bad : \A k \in Bad : n <= k
    BY <2>1, LeastNatural
  <2>3. n # 0
    BY <1>1
  <2>4. n - 1 \in Nat /\ n - 1 \notin Bad
    BY <2>2, <2>3
  <2> QED BY <1>2, <2>3, <2>4
<1>4. Loop(Len(list))
  BY <1>0, <1>3
<1> DEFINE h == CHOOSE k : k = [i \in 0 .. Len(list) |-> Kept(k, list, m, i)]
<1>5. h = [i \in 0 .. Len(list) |-> Kept(h, list, m, i)]
  BY <1>4
<1>6. retain(list, m) = h[Len(list)]
  BY DEF retain, Kept
<1> HIDE DEF h
<1> QED BY <1>5, <1>6

\* What retain has done at place i: the entries up to there that are not m are
\* kept, each once, and nothing else.
KeptOK(k, list, m, n) ==
    /\ Len(k) <= n
    /\ \E f \in [1 .. Len(k) -> 1 .. n] :
          /\ \A i, j \in 1 .. Len(k) : f[i] = f[j] => i = j
          /\ \A i \in 1 .. Len(k) : k[i] = list[f[i]] /\ list[f[i]] # m
    /\ \A i \in 1 .. n : list[i] # m => \E j \in 1 .. Len(k) : k[j] = list[i]
    /\ (\A i \in 1 .. n : list[i] # m) => Len(k) = n /\ \A i \in 1 .. n : k[i] = list[i]

\* One turn of the loop.
LEMMA KeptStep ==
    ASSUME NEW S, NEW list \in Seq(S), NEW m, NEW n \in 1 .. Len(list),
           NEW k \in Seq(S), KeptOK(k, list, m, n - 1)
    PROVE  LET r == IF list[n] = m THEN k ELSE Append(k, list[n])
           IN  r \in Seq(S) /\ KeptOK(r, list, m, n)
<1>0. Len(list) \in Nat /\ Len(k) \in Nat /\ n \in Nat /\ list[n] \in S
  OBVIOUS
<1>1. PICK f \in [1 .. Len(k) -> 1 .. n - 1] :
          /\ \A i, j \in 1 .. Len(k) : f[i] = f[j] => i = j
          /\ \A i \in 1 .. Len(k) : k[i] = list[f[i]] /\ list[f[i]] # m
  BY DEF KeptOK
<1>2. /\ Len(k) <= n - 1
      /\ \A i \in 1 .. n - 1 : list[i] # m => \E j \in 1 .. Len(k) : k[j] = list[i]
      /\ (\A i \in 1 .. n - 1 : list[i] # m) =>
            Len(k) = n - 1 /\ \A i \in 1 .. n - 1 : k[i] = list[i]
  BY DEF KeptOK
<1>3. CASE list[n] = m
  <2>1. f \in [1 .. Len(k) -> 1 .. n]
    BY <1>0
  <2>2. KeptOK(k, list, m, n)
    BY <1>0, <1>1, <1>2, <1>3, <2>1 DEF KeptOK
  <2> QED BY <1>3, <2>2
<1>4. CASE list[n] # m
  <2> DEFINE r == Append(k, list[n])
             g == [i \in 1 .. Len(k) + 1 |-> IF i = Len(k) + 1 THEN n ELSE f[i]]
  <2>1. /\ r \in Seq(S) /\ Len(r) = Len(k) + 1
        /\ \A i \in 1 .. Len(k) : r[i] = k[i]
        /\ r[Len(k) + 1] = list[n]
    BY <1>0, AppendProperties
  <2>2. /\ g \in [1 .. Len(k) + 1 -> 1 .. n]
        /\ \A i \in 1 .. Len(k) : g[i] = f[i] /\ g[i] < n
        /\ g[Len(k) + 1] = n
    <3>1. \A i \in 1 .. Len(k) : f[i] \in 1 .. n - 1 /\ i \in 1 .. Len(k) + 1 /\ i # Len(k) + 1
      BY <1>0
    <3>2. \A i \in 1 .. Len(k) + 1 : i \in 1 .. Len(k) \/ i = Len(k) + 1
      BY <1>0
    <3>3. g \in [1 .. Len(k) + 1 -> 1 .. n]
      BY <1>0, <3>1, <3>2
    <3>4. ASSUME NEW i \in 1 .. Len(k)
          PROVE  g[i] = f[i]
      BY <3>1
    <3>5. Len(k) + 1 \in 1 .. Len(k) + 1
      BY <1>0
    <3>6. g[Len(k) + 1] = n
      BY <3>5
    <3> HIDE DEF g
    <3> QED BY <1>0, <3>1, <3>3, <3>4, <3>6
  <2> HIDE DEF r, g
  <2>3. \A i, j \in 1 .. Len(k) + 1 : g[i] = g[j] => i = j
    BY <1>0, <1>1, <2>2
  <2>4. \A i \in 1 .. Len(k) + 1 : r[i] = list[g[i]] /\ list[g[i]] # m
    BY <1>0, <1>1, <1>4, <2>1, <2>2
  <2>5. \A i \in 1 .. n : list[i] # m => \E j \in 1 .. Len(r) : r[j] = list[i]
    <3>1. ASSUME NEW i \in 1 .. n - 1, list[i] # m
          PROVE  \E j \in 1 .. Len(r) : r[j] = list[i]
      <4>1. PICK j \in 1 .. Len(k) : k[j] = list[i]
        BY <1>2, <3>1
      <4> QED BY <1>0, <2>1, <4>1
    <3>2. Len(k) + 1 \in 1 .. Len(r) /\ r[Len(k) + 1] = list[n]
      BY <1>0, <2>1
    <3> QED BY <1>0, <3>1, <3>2
  <2>6. ASSUME \A i \in 1 .. n : list[i] # m
        PROVE  Len(r) = n /\ \A i \in 1 .. n : r[i] = list[i]
    <3>1. Len(k) = n - 1 /\ \A i \in 1 .. n - 1 : k[i] = list[i]
      BY <1>0, <1>2, <2>6
    <3>2. \A i \in 1 .. n : i \in 1 .. n - 1 \/ i = n
      BY <1>0
    <3> QED BY <1>0, <2>1, <3>1, <3>2
  <2>7. KeptOK(r, list, m, n)
    <3>1. Len(r) <= n
      BY <1>0, <1>2, <2>1
    <3>2. \E e \in [1 .. Len(r) -> 1 .. n] :
             /\ \A i, j \in 1 .. Len(r) : e[i] = e[j] => i = j
             /\ \A i \in 1 .. Len(r) : r[i] = list[e[i]] /\ list[e[i]] # m
      <4>1. g \in [1 .. Len(r) -> 1 .. n]
        BY <2>1, <2>2
      <4>2. \A i, j \in 1 .. Len(r) : g[i] = g[j] => i = j
        BY <2>1, <2>3
      <4>3. \A i \in 1 .. Len(r) : r[i] = list[g[i]] /\ list[g[i]] # m
        BY <2>1, <2>4
      <4> QED BY <4>1, <4>2, <4>3, Zenon
    <3> QED BY <2>5, <2>6, <3>1, <3>2, Zenon DEF KeptOK
  <2> QED BY <1>4, <2>1, <2>7 DEF r
<1> QED BY <1>3, <1>4

LEMMA RetainKeeps ==
    ASSUME NEW S, NEW list \in Seq(S), NEW m
    PROVE  retain(list, m) \in Seq(S) /\ KeptOK(retain(list, m), list, m, Len(list))
<1>0. Len(list) \in Nat
  OBVIOUS
<1>1. PICK h : /\ h = [i \in 0 .. Len(list) |-> Kept(h, list, m, i)]
               /\ retain(list, m) = h[Len(list)]
  BY RetainLoop
<1>2. \A i \in 0 .. Len(list) : h[i] = Kept(h, list, m, i)
  BY <1>1
<1> DEFINE Good(i) == h[i] \in Seq(S) /\ KeptOK(h[i], list, m, i)
<1>3. Good(0)
  <2>1. h[0] = <<>>
    BY <1>0, <1>2 DEF Kept
  <2>2. <<>> \in [1 .. 0 -> 1 .. 0] /\ \A i \in 1 .. 0 : FALSE
    OBVIOUS
  <2>3. <<>> \in Seq(S) /\ Len(<<>>) = 0
    OBVIOUS
  <2>4. KeptOK(<<>>, list, m, 0)
    <3> DEFINE e == <<>>
    <3>1. e \in [1 .. Len(e) -> 1 .. 0] /\ Len(e) <= 0 /\ \A i \in 1 .. Len(e) : FALSE
      BY <2>2, <2>3
    <3> HIDE DEF e
    <3>2. KeptOK(e, list, m, 0)
      BY <2>2, <2>3, <3>1 DEF KeptOK
    <3> QED BY <3>2 DEF e
  <2> QED BY <2>1, <2>3, <2>4
<1>4. ASSUME NEW n \in 1 .. Len(list), Good(n - 1)
      PROVE  Good(n)
  <2>1. h[n] = IF list[n] = m THEN h[n - 1] ELSE Append(h[n - 1], list[n])
    BY <1>0, <1>2 DEF Kept
  <2> QED BY <1>4, <2>1, KeptStep
<1>5. \A n \in 0 .. Len(list) : Good(n)
  <2> DEFINE Bad == {n \in 0 .. Len(list) : ~Good(n)}
  <2> HIDE DEF Good
  <2>1. SUFFICES ASSUME Bad # {} PROVE FALSE
    OBVIOUS
  <2>2. Bad \subseteq Nat
    BY <1>0
  <2>3. PICK n \in Bad : \A k \in Bad : n <= k
    <3> HIDE DEF Bad
    <3> QED BY <2>1, <2>2, LeastNatural
  <2>4. n # 0
    BY <1>3
  <2>5. n \in 1 .. Len(list) /\ n - 1 \in 0 .. Len(list) /\ n - 1 \notin Bad
    BY <1>0, <2>3, <2>4
  <2> QED BY <1>4, <2>5
<1> QED BY <1>0, <1>1, <1>5

\* The members that stay are the ones that were not removed, and removing a
\* stranger changes nothing.
LEMMA RetainSet ==
    ASSUME NEW S, NEW list \in Seq(S), NEW m
    PROVE  /\ retain(list, m) \in Seq(S)
           /\ Range(retain(list, m)) = Range(list) \ {m}
           /\ m \notin Range(list) => retain(list, m) = list
<1> DEFINE r == retain(list, m)
<1>1. r \in Seq(S) /\ KeptOK(r, list, m, Len(list))
  BY RetainKeeps
<1> HIDE DEF r
<1>2. DOMAIN r = 1 .. Len(r) /\ DOMAIN list = 1 .. Len(list) /\ Len(list) \in Nat
  BY <1>1
<1>3. PICK f \in [1 .. Len(r) -> 1 .. Len(list)] :
          \A i \in 1 .. Len(r) : r[i] = list[f[i]] /\ list[f[i]] # m
  BY <1>1 DEF KeptOK
<1>4. Range(r) \subseteq Range(list) \ {m}
  BY <1>2, <1>3 DEF Range
<1>5. Range(list) \ {m} \subseteq Range(r)
  <2>1. \A i \in 1 .. Len(list) : list[i] # m => \E j \in 1 .. Len(r) : r[j] = list[i]
    BY <1>1 DEF KeptOK
  <2> QED BY <1>2, <2>1 DEF Range
<1>6. ASSUME m \notin Range(list)
      PROVE  r = list
  <2>1. \A i \in 1 .. Len(list) : list[i] # m
    BY <1>2, <1>6 DEF Range
  <2>2. Len(r) = Len(list) /\ \A i \in 1 .. Len(list) : r[i] = list[i]
    BY <1>1, <2>1 DEF KeptOK
  <2> QED BY <1>1, <2>2, SeqEqual
<1> QED BY <1>1, <1>4, <1>5, <1>6 DEF r

\* A list has finitely many places, hence every entry finitely many.
LEMMA Places ==
    ASSUME NEW S, NEW list \in Seq(S), NEW d
    PROVE  /\ IsFiniteSet({i \in DOMAIN list : list[i] = d})
           /\ Repeats(list, d) \in Nat
<1>1. DOMAIN list = 1 .. Len(list) /\ Len(list) \in Nat
  OBVIOUS
<1>2. IsFiniteSet(1 .. Len(list))
  BY <1>1, FS_Interval
<1>3. IsFiniteSet({i \in DOMAIN list : list[i] = d})
  BY <1>1, <1>2, FS_Subset
<1> QED BY <1>3, FS_CardinalityType DEF Repeats

\* retain repeats nothing more often than it was.
LEMMA RetainRepeats ==
    ASSUME NEW S, NEW list \in Seq(S), NEW m, NEW d
    PROVE  Repeats(retain(list, m), d) <= Repeats(list, d)
<1> DEFINE r == retain(list, m)
           A == {i \in DOMAIN r : r[i] = d}
           B == {i \in DOMAIN list : list[i] = d}
<1>1. r \in Seq(S) /\ KeptOK(r, list, m, Len(list))
  BY RetainKeeps
<1>2. IsFiniteSet(B)
  BY Places
<1>3. ExistsInjection(A, B)
  <2> HIDE DEF r
  <2>1. DOMAIN r = 1 .. Len(r) /\ DOMAIN list = 1 .. Len(list)
    BY <1>1
  <2>2. PICK f \in [1 .. Len(r) -> 1 .. Len(list)] :
           /\ \A i, j \in 1 .. Len(r) : f[i] = f[j] => i = j
           /\ \A i \in 1 .. Len(r) : r[i] = list[f[i]] /\ list[f[i]] # m
    BY <1>1 DEF KeptOK
  <2> DEFINE g == [i \in A |-> f[i]]
  <2>3. g \in [A -> B]
    BY <2>1, <2>2
  <2>4. \A i, j \in A : g[i] = g[j] => i = j
    BY <2>1, <2>2
  <2>5. g \in Injection(A, B)
    <3> HIDE DEF g, A, B
    <3> QED BY <2>3, <2>4 DEF Injection, IsInjective
  <2> QED BY <2>5 DEF ExistsInjection
<1>4. Cardinality(A) <= Cardinality(B)
  <2> HIDE DEF A, B
  <2>1. PICK f \in Injection(A, B) : TRUE
    BY <1>3 DEF ExistsInjection
  <2> QED BY <1>2, <2>1, FS_Injection
<1> QED BY <1>4 DEF Repeats

\* A new member stands in the list once, and the others as often as before.
LEMMA AppendRepeats ==
    ASSUME NEW S, NEW list \in Seq(S), NEW m \in S, m \notin Range(list), NEW d
    PROVE  Repeats(Append(list, m), d) = IF d = m THEN 1 ELSE Repeats(list, d)
<1> DEFINE r == Append(list, m)
<1>1. /\ r \in Seq(S) /\ Len(r) = Len(list) + 1
      /\ \A i \in 1 .. Len(list) : r[i] = list[i]
      /\ r[Len(list) + 1] = m
  BY AppendProperties
<1> HIDE DEF r
<1>2. /\ DOMAIN list = 1 .. Len(list) /\ Len(list) \in Nat
      /\ DOMAIN r = 1 .. Len(list) + 1
  BY <1>1
<1>3. \A i \in 1 .. Len(list) : list[i] # m
  BY <1>2 DEF Range
<1>4. \A i \in 1 .. Len(list) + 1 : i \in 1 .. Len(list) \/ i = Len(list) + 1
  BY <1>2
<1>5. Len(list) + 1 \in DOMAIN r /\ \A i \in 1 .. Len(list) : i \in DOMAIN r
  BY <1>2
<1>6. CASE d = m
  <2>1. {i \in DOMAIN r : r[i] = d} = {Len(list) + 1}
    BY <1>1, <1>2, <1>3, <1>4, <1>5, <1>6
  <2>2. Cardinality({Len(list) + 1}) = 1
    BY FS_Singleton
  <2> QED BY <1>6, <2>1, <2>2 DEF Repeats, r
<1>7. CASE d # m
  <2>1. {i \in DOMAIN r : r[i] = d} = {i \in DOMAIN list : list[i] = d}
    BY <1>1, <1>2, <1>4, <1>5, <1>7
  <2> QED BY <1>7, <2>1 DEF Repeats, r
<1> QED BY <1>6, <1>7

\* A list repeats nobody, or no more often than a list some user entered does.
Entered(list) ==
    \A d \in Devices :
        Repeats(list, d) <= 1 \/ \E l \in GivenLists : Repeats(list, d) <= Repeats(l, d)

\* The operations on member lists: the set of members they leave, and that they
\* make no repetitions.
LEMMA ListOperations ==
    ASSUME NEW list \in Seq(Devices), Entered(list), NEW m \in Devices
    PROVE  /\ add_member(list, m) \in Seq(Devices)
           /\ Range(add_member(list, m)) = Range(list) \cup {m}
           /\ Entered(add_member(list, m))
           /\ retain(list, m) \in Seq(Devices)
           /\ Range(retain(list, m)) = Range(list) \ {m}
           /\ Entered(retain(list, m))
           /\ m \in Range(list) => add_member(list, m) = list
           /\ m \notin Range(list) => retain(list, m) = list
<1>1. /\ retain(list, m) \in Seq(Devices)
      /\ Range(retain(list, m)) = Range(list) \ {m}
      /\ m \notin Range(list) => retain(list, m) = list
  BY RetainSet
<1>2. Entered(retain(list, m))
  <2> DEFINE r == retain(list, m)
  <2>1. ASSUME NEW d \in Devices
        PROVE  Repeats(r, d) <= 1 \/ \E l \in GivenLists : Repeats(r, d) <= Repeats(l, d)
    <3>1. Repeats(r, d) <= Repeats(list, d)
      BY RetainRepeats
    <3>2. Repeats(r, d) \in Nat /\ Repeats(list, d) \in Nat
      BY <1>1, Places
    <3>3. \A l \in GivenLists : Repeats(l, d) \in Nat
      BY Places, GroupAssumption
    <3>4. Repeats(list, d) <= 1 \/ \E l \in GivenLists : Repeats(list, d) <= Repeats(l, d)
      BY DEF Entered
    <3> HIDE DEF r
    <3> QED BY <3>1, <3>2, <3>3, <3>4
  <2> QED BY <2>1 DEF Entered
<1>3. CASE m \in Range(list)
  <2>1. add_member(list, m) = list
    BY <1>3 DEF add_member, is_member
  <2> QED BY <1>1, <1>2, <1>3, <2>1
<1>4. CASE m \notin Range(list)
  <2> DEFINE r == Append(list, m)
  <2>1. add_member(list, m) = r
    BY <1>4 DEF add_member, is_member
  <2>2. r \in Seq(Devices)
    OBVIOUS
  <2>3. Range(r) = Range(list) \cup {m}
    <3>1. /\ DOMAIN list = 1 .. Len(list) /\ Len(list) \in Nat
          /\ DOMAIN r = 1 .. Len(list) + 1
          /\ \A i \in 1 .. Len(list) : r[i] = list[i]
          /\ r[Len(list) + 1] = m
      BY AppendProperties
    <3>2. /\ \A i \in 1 .. Len(list) + 1 : i \in 1 .. Len(list) \/ i = Len(list) + 1
          /\ \A i \in 1 .. Len(list) : i \in 1 .. Len(list) + 1
          /\ Len(list) + 1 \in 1 .. Len(list) + 1
      BY <3>1
    <3> HIDE DEF r
    <3> QED BY <3>1, <3>2 DEF Range
  <2>4. \A d \in Devices : Repeats(r, d) = IF d = m THEN 1 ELSE Repeats(list, d)
    BY <1>4, AppendRepeats
  <2>5. Entered(r)
    <3> HIDE DEF r
    <3> QED BY <2>4 DEF Entered
  <2> HIDE DEF r
  <2> QED BY <1>1, <1>2, <1>4, <2>1, <2>2, <2>3, <2>5
<1> QED BY <1>3, <1>4

-----------------------------------------------------------------------------
(* The inductive invariant *)

Message == [from : Devices, group : [id : GroupIds, digits : {64}],
            file : FileSizes \cup {None}, members : Seq(Devices), to : Seq(Devices)]

\* c is a place in the fan-out of a message in s.
IsCopy(s, c) == c \in Nat \X Nat /\ c[1] \in DOMAIN s /\ c[2] \in DOMAIN s[c[1]].to

\* The envelope that copy c travels in, and the entry it leaves when it is read.
EnvelopeOf(s, c) ==
    LET p == s[c[1]]
    IN  seal(p.from, Ciphertext(p.from, p.to[c[2]], c), p.to[c[2]])

EntryOf(s, c) == [on |-> s[c[1]].to[c[2]], from |-> s[c[1]].from, copy |-> c]

\* Every list in use has its repetitions from a list that was entered.
ListsOK ==
    /\ groups \in [Devices -> [GroupIds -> Seq(Devices) \cup {None}]]
    /\ \A d \in Devices, g \in GroupIds : groups[d][g] # None => Entered(groups[d][g])

\* So has every fan-out, which goes to the members without the author.
SentOK ==
    /\ sent \in Seq(Message)
    /\ \A n \in DOMAIN sent :
          /\ Entered(sent[n].to)
          /\ Range(sent[n].to) = Range(sent[n].members) \ {sent[n].from}
          /\ sent[n].file # None => sent[n].file \in 0 .. MAX_FILE_SIZE

\* A device is busy with copies of its own messages.
TodoOK ==
    /\ todo \in [Devices -> Seq(Nat \X Nat)]
    /\ \A d \in Devices : \A i \in DOMAIN todo[d] :
          IsCopy(sent, todo[d][i]) /\ sent[todo[d][i][1]].from = d

\* An envelope holds a copy of a message for the member the copy is for, from
\* the message's author; what was read is a copy its reader was meant to have.
RelayOK ==
    \A e \in relay :
        LET c == e.encrypted_message.text.copy
        IN  IsCopy(sent, c) /\ e = EnvelopeOf(sent, c)

InboxOK == \A x \in inbox : IsCopy(sent, x.copy) /\ x = EntryOf(sent, x.copy)

\* What was opened is the file of the message that names it.
FilesOK ==
    /\ refused \subseteq 0 .. MAX_FILE_SIZE
    /\ \A x \in opened : x.post \in WithFile /\ x.content = x.post

GroupInv == ListsOK /\ SentOK /\ TodoOK /\ RelayOK /\ InboxOK /\ FilesOK

\* t is s with message p at its end, and says the same of the copies before p.
Grown(s, p, t) ==
    /\ t \in Seq(Message)
    /\ DOMAIN t = DOMAIN s \cup {Len(s) + 1}
    /\ t[Len(s) + 1] = p
    /\ \A n \in DOMAIN s : t[n] = s[n]
    /\ \A c : IsCopy(s, c) => /\ IsCopy(t, c)
                              /\ t[c[1]] = s[c[1]]
                              /\ EnvelopeOf(t, c) = EnvelopeOf(s, c)
                              /\ EntryOf(t, c) = EntryOf(s, c)

LEMMA CopiesStay ==
    ASSUME NEW s \in Seq(Message), NEW p \in Message
    PROVE  Grown(s, p, Append(s, p))
<1> DEFINE t == Append(s, p)
<1>1. /\ t \in Seq(Message) /\ Len(t) = Len(s) + 1
      /\ \A i \in 1 .. Len(s) : t[i] = s[i]
      /\ t[Len(s) + 1] = p
  BY AppendProperties
<1> HIDE DEF t
<1>2. DOMAIN s = 1 .. Len(s) /\ DOMAIN t = 1 .. Len(s) + 1 /\ Len(s) \in Nat
  BY <1>1
<1>3. DOMAIN t = DOMAIN s \cup {Len(s) + 1}
  BY <1>2
<1>4. ASSUME NEW c, IsCopy(s, c)
      PROVE  /\ IsCopy(t, c)
             /\ t[c[1]] = s[c[1]]
             /\ EnvelopeOf(t, c) = EnvelopeOf(s, c)
             /\ EntryOf(t, c) = EntryOf(s, c)
  <2>1. c[1] \in DOMAIN s
    BY <1>4 DEF IsCopy
  <2>2. t[c[1]] = s[c[1]] /\ c[1] \in DOMAIN t
    BY <1>1, <1>2, <1>3, <2>1
  <2> QED BY <1>4, <2>2 DEF IsCopy, EnvelopeOf, EntryOf
<1>5. \A n \in DOMAIN s : t[n] = s[n]
  BY <1>1, <1>2
<1>6. Grown(s, p, t)
  BY <1>1, <1>3, <1>4, <1>5 DEF Grown
<1> QED BY <1>6 DEF t

LEMMA GroupInit == Init => GroupInv
<1> SUFFICES ASSUME Init PROVE GroupInv
  OBVIOUS
<1>1. ListsOK
  BY DEF Init, ListsOK
<1>2. SentOK
  BY DEF Init, SentOK
<1>3. TodoOK
  <2>1. <<>> \in Seq(Nat \X Nat) /\ DOMAIN <<>> = {}
    OBVIOUS
  <2>2. todo = [d \in Devices |-> <<>>]
    BY DEF Init
  <2> QED BY <2>1, <2>2 DEF TodoOK
<1>4. RelayOK /\ InboxOK /\ FilesOK
  BY DEF Init, RelayOK, InboxOK, FilesOK
<1> QED BY <1>1, <1>2, <1>3, <1>4 DEF GroupInv

\* new keeps the list, or puts the creator at its end.
LEMMA NewList ==
    ASSUME NEW d \in Devices, NEW given \in GivenLists
    PROVE  /\ new(d, given) \in Seq(Devices)
           /\ Range(new(d, given)) = Range(given) \cup {d}
           /\ Entered(new(d, given))
<1>1. given \in Seq(Devices)
  BY GroupAssumption
<1>2. Entered(given)
  <2>1. \A e \in Devices : Repeats(given, e) \in Nat
    BY <1>1, Places
  <2>2. \A e \in Devices : Repeats(given, e) <= Repeats(given, e)
    BY <2>1
  <2> QED BY <2>2 DEF Entered
<1>3. new(d, given) = add_member(given, d)
  BY DEF new, add_member
<1> QED BY <1>1, <1>2, <1>3, ListOperations

\* A change of one list touches nothing but the lists.
LEMMA ListStep ==
    ASSUME GroupInv, NEW d \in Devices, NEW g \in GroupIds,
           NEW list \in Seq(Devices), Entered(list),
           groups' = [groups EXCEPT ![d][g] = list],
           UNCHANGED <<sent, refused, todo, relay, inbox, opened>>
    PROVE  GroupInv'
<1>1. groups \in [Devices -> [GroupIds -> Seq(Devices) \cup {None}]]
  BY DEF GroupInv, ListsOK
<1>2. groups' \in [Devices -> [GroupIds -> Seq(Devices) \cup {None}]]
  BY <1>1
<1>3. \A e \in Devices, k \in GroupIds :
         groups'[e][k] = IF e = d /\ k = g THEN list ELSE groups[e][k]
  BY <1>1
<1>4. \A e \in Devices, k \in GroupIds : groups'[e][k] # None => Entered(groups'[e][k])
  BY <1>3 DEF GroupInv, ListsOK
<1>5. ListsOK'
  BY <1>2, <1>4 DEF ListsOK, Entered, Repeats
<1>6. /\ sent' = sent /\ refused' = refused /\ todo' = todo
      /\ relay' = relay /\ inbox' = inbox /\ opened' = opened
  OBVIOUS
<1>7. SentOK' /\ TodoOK' /\ RelayOK' /\ InboxOK' /\ FilesOK'
  <2>1. SentOK'
    BY <1>6 DEF GroupInv, SentOK
  <2>2. TodoOK'
    BY <1>6 DEF GroupInv, TodoOK
  <2>3. RelayOK'
    BY <1>6 DEF GroupInv, RelayOK
  <2>4. InboxOK'
    BY <1>6 DEF GroupInv, InboxOK
  <2>5. FilesOK'
    BY <1>6 DEF GroupInv, FilesOK, WithFile
  <2> QED BY <2>1, <2>2, <2>3, <2>4, <2>5
<1> QED BY <1>5, <1>7 DEF GroupInv

LEMMA CreateGroupStep ==
    ASSUME GroupInv, NEW d \in Devices, NEW g \in GroupIds, NEW given \in GivenLists,
           CreateGroup(d, g, given)
    PROVE  GroupInv'
<1>1. new(d, given) \in Seq(Devices) /\ Entered(new(d, given))
  BY NewList
<1> QED BY <1>1, ListStep DEF CreateGroup

\* The lists of a known group are lists of devices.
LEMMA KnownList ==
    ASSUME GroupInv, NEW d \in Devices, NEW g \in GroupIds, groups[d][g] # None
    PROVE  groups[d][g] \in Seq(Devices) /\ Entered(groups[d][g])
BY DEF GroupInv, ListsOK

LEMMA AddMemberStep ==
    ASSUME GroupInv, NEW d \in Devices, NEW g \in GroupIds, NEW m \in Devices,
           AddMember(d, g, m)
    PROVE  GroupInv'
<1> DEFINE list == add_member(groups[d][g], m)
<1>1. /\ groups[d][g] # None
      /\ groups' = [groups EXCEPT ![d][g] = list]
      /\ UNCHANGED <<sent, refused, todo, relay, inbox, opened>>
  BY DEF AddMember, ChangeMembers
<1>2. list \in Seq(Devices) /\ Entered(list)
  BY <1>1, KnownList, ListOperations
<1> HIDE DEF list
<1> QED BY <1>1, <1>2, ListStep

LEMMA RemoveMemberStep ==
    ASSUME GroupInv, NEW d \in Devices, NEW g \in GroupIds, NEW m \in Devices,
           RemoveMember(d, g, m)
    PROVE  GroupInv'
<1> DEFINE list == retain(groups[d][g], m)
<1>1. /\ groups[d][g] # None
      /\ groups' = [groups EXCEPT ![d][g] = list]
      /\ UNCHANGED <<sent, refused, todo, relay, inbox, opened>>
  BY DEF RemoveMember, ChangeMembers, remove_member
<1>2. list \in Seq(Devices) /\ Entered(list)
  BY <1>1, KnownList, ListOperations
<1> HIDE DEF list
<1> QED BY <1>1, <1>2, ListStep

\* Files encrypt_file takes
LEMMA FileFits ==
    ASSUME NEW len \in FileSizes, ~EncryptRejects(len)
    PROVE  len \in 0 .. MAX_FILE_SIZE
<1>1. MAX_FILE_SIZE \in Nat
  BY DEF MAX_FILE_SIZE, MiB
<1>2. len \in Nat
  BY GroupAssumption
<1> QED BY <1>1, <1>2 DEF EncryptRejects

LEMMA UploadRefusedStep ==
    ASSUME GroupInv, NEW len \in FileSizes, NEW path, UploadRefused(len, path)
    PROVE  GroupInv'
<1>1. /\ groups' = groups /\ sent' = sent /\ todo' = todo
      /\ relay' = relay /\ inbox' = inbox /\ opened' = opened
      /\ refused' = refused \cup {len} /\ ~EncryptRejects(len)
  BY DEF UploadRefused
<1>2. len \in 0 .. MAX_FILE_SIZE
  BY <1>1, FileFits
<1>3. ListsOK' /\ SentOK'
  BY <1>1 DEF GroupInv, ListsOK, SentOK
<1>4. TodoOK'
  BY <1>1 DEF GroupInv, TodoOK
<1>5. RelayOK' /\ InboxOK'
  BY <1>1 DEF GroupInv, RelayOK, InboxOK
<1>6. FilesOK'
  BY <1>1, <1>2 DEF GroupInv, FilesOK, WithFile
<1> QED BY <1>3, <1>4, <1>5, <1>6 DEF GroupInv

\* What the server hands out opens as the file it is asked for, or not at all.
LEMMA RightFile ==
    ASSUME NEW n \in WithFile, NEW blob \in ServerBlobs,
           NEW content \in decrypt_file(blob, Blob(n).key)
    PROVE  content = n
<1>1. blob.intact /\ blob.key = Blob(n).key /\ content = blob.content
  BY DEF decrypt_file
<1>2. Blob(n).key = n
  BY DEF Blob, encrypt_file
<1>3. CASE \E k \in WithFile : blob = Blob(k)
  BY <1>1, <1>2, <1>3 DEF Blob, encrypt_file
<1>4. CASE \E k \in WithFile : blob \in Damaged(Blob(k))
  <2>1. PICK k \in WithFile : blob \in Damaged(Blob(k))
    BY <1>4
  <2>2. blob.intact = FALSE
    BY <2>1 DEF Damaged, Blob, encrypt_file
  <2> QED BY <1>1, <2>2
<1> QED BY <1>3, <1>4 DEF ServerBlobs

LEMMA OpenFileStep ==
    ASSUME GroupInv, NEW x \in inbox, NEW blob \in ServerBlobs, OpenFile(x, blob)
    PROVE  GroupInv'
<1> DEFINE n == x.copy[1]
<1>1. /\ groups' = groups /\ sent' = sent /\ todo' = todo
      /\ relay' = relay /\ inbox' = inbox /\ refused' = refused
      /\ n \in WithFile
  BY DEF OpenFile
<1>2. PICK content \in decrypt_file(blob, Blob(n).key) :
         opened' = opened \cup {[on |-> x.on, post |-> n, content |-> content]}
  BY DEF OpenFile
<1>3. content = n
  BY <1>1, RightFile
<1>4. ListsOK' /\ SentOK'
  BY <1>1 DEF GroupInv, ListsOK, SentOK
<1>5. TodoOK'
  BY <1>1 DEF GroupInv, TodoOK
<1>6. RelayOK' /\ InboxOK'
  BY <1>1 DEF GroupInv, RelayOK, InboxOK
<1>7. FilesOK'
  <2>1. WithFile' = WithFile
    BY <1>1 DEF WithFile
  <2>2. \A y \in opened : y.post \in WithFile /\ y.content = y.post
    BY DEF GroupInv, FilesOK
  <2>3. \A y \in opened' : y.post \in WithFile /\ y.content = y.post
    BY <1>1, <1>2, <1>3, <2>2
  <2> QED BY <1>1, <2>1, <2>3 DEF GroupInv, FilesOK
<1> QED BY <1>4, <1>5, <1>6, <1>7 DEF GroupInv

LEMMA StartFanoutStep ==
    ASSUME GroupInv, NEW d \in Devices, NEW g \in GroupIds,
           NEW file \in FileSizes \cup {None}, StartFanout(d, g, file)
    PROVE  GroupInv'
<1> DEFINE list == groups[d][g]
           to   == retain(list, d)
           p    == [from |-> d, group |-> to_hex(g), file |-> file,
                    members |-> list, to |-> to]
           n    == Len(sent) + 1
           work == [i \in DOMAIN to |-> <<n, i>>]
<1>1. /\ groups' = groups /\ relay' = relay /\ inbox' = inbox
      /\ refused' = refused /\ opened' = opened
      /\ list # None
      /\ file # None => ~EncryptRejects(file)
      /\ sent' = Append(sent, p)
      /\ todo' = [todo EXCEPT ![d] = work]
  BY DEF StartFanout, Uploaded, other_members
<1>2. list \in Seq(Devices) /\ Entered(list)
  BY <1>1, KnownList
<1>3. to \in Seq(Devices) /\ Entered(to) /\ Range(to) = Range(list) \ {d}
  BY <1>2, ListOperations
<1> HIDE DEF list, to
<1>4. p \in Message
  <2>1. to_hex(g) \in [id : GroupIds, digits : {64}]
    BY DEF to_hex
  <2> QED BY <1>2, <1>3, <2>1 DEF Message
<1>5. file # None => file \in 0 .. MAX_FILE_SIZE
  BY <1>1, FileFits
<1>6. /\ p.from = d /\ p.to = to /\ p.members = list /\ p.file = file
  OBVIOUS
<1> HIDE DEF p
<1>7. sent \in Seq(Message) /\ Len(sent) \in Nat
  BY DEF GroupInv, SentOK
<1>8. /\ sent' \in Seq(Message)
      /\ DOMAIN sent' = DOMAIN sent \cup {n}
      /\ sent'[n] = p
      /\ \A k \in DOMAIN sent : sent'[k] = sent[k]
      /\ \A c : IsCopy(sent, c) => /\ IsCopy(sent', c)
                                   /\ sent'[c[1]] = sent[c[1]]
                                   /\ EnvelopeOf(sent', c) = EnvelopeOf(sent, c)
                                   /\ EntryOf(sent', c) = EntryOf(sent, c)
  <2>1. Grown(sent, p, sent')
    BY <1>1, <1>4, <1>7, CopiesStay
  <2> QED BY <2>1, Zenon DEF Grown
<1>9. ListsOK'
  BY <1>1 DEF GroupInv, ListsOK
<1>10. SentOK'
  <2>1. \A k \in DOMAIN sent :
          /\ Entered(sent[k].to)
          /\ Range(sent[k].to) = Range(sent[k].members) \ {sent[k].from}
          /\ sent[k].file # None => sent[k].file \in 0 .. MAX_FILE_SIZE
    BY DEF GroupInv, SentOK
  <2>2. \A k \in DOMAIN sent' :
          /\ Entered(sent'[k].to)
          /\ Range(sent'[k].to) = Range(sent'[k].members) \ {sent'[k].from}
          /\ sent'[k].file # None => sent'[k].file \in 0 .. MAX_FILE_SIZE
    BY <1>3, <1>5, <1>6, <1>8, <2>1, Zenon
  <2> QED BY <1>8, <2>2 DEF SentOK
<1>11. TodoOK'
  <2>1. /\ todo \in [Devices -> Seq(Nat \X Nat)]
        /\ \A e \in Devices : \A i \in DOMAIN todo[e] :
              IsCopy(sent, todo[e][i]) /\ sent[todo[e][i][1]].from = e
    BY DEF GroupInv, TodoOK
  <2>2. /\ work \in Seq(Nat \X Nat) /\ DOMAIN work = DOMAIN to
        /\ \A i \in DOMAIN to : work[i] = <<n, i>> /\ i \in Nat
    BY <1>3, <1>7
  <2> HIDE DEF work
  <2>3. todo' \in [Devices -> Seq(Nat \X Nat)]
    BY <1>1, <2>1, <2>2
  <2>4. \A e \in Devices : todo'[e] = IF e = d THEN work ELSE todo[e]
    BY <1>1, <2>1
  <2>5. ASSUME NEW i \in DOMAIN to
        PROVE  IsCopy(sent', work[i]) /\ sent'[work[i][1]].from = d
    <3>1. work[i] \in Nat \X Nat /\ work[i][1] = n /\ work[i][2] = i
      BY <1>7, <2>2
    <3>2. n \in DOMAIN sent' /\ sent'[n].to = to /\ sent'[n].from = d
      BY <1>6, <1>8
    <3> HIDE DEF n
    <3> QED BY <3>1, <3>2 DEF IsCopy
  <2>6. ASSUME NEW e \in Devices, NEW i \in DOMAIN todo'[e]
        PROVE  IsCopy(sent', todo'[e][i]) /\ sent'[todo'[e][i][1]].from = e
    <3>1. CASE e = d
      BY <2>2, <2>4, <2>5, <3>1
    <3>2. CASE e # d
      <4>1. todo'[e] = todo[e]
        BY <2>4, <3>2
      <4>2. IsCopy(sent, todo[e][i]) /\ sent[todo[e][i][1]].from = e
        BY <2>1, <4>1
      <4>3. IsCopy(sent', todo[e][i]) /\ sent'[todo[e][i][1]] = sent[todo[e][i][1]]
        BY <1>8, <4>2
      <4> QED BY <4>1, <4>2, <4>3
    <3> QED BY <3>1, <3>2
  <2> QED BY <2>3, <2>6 DEF TodoOK
<1>12. RelayOK'
  BY <1>1, <1>8 DEF GroupInv, RelayOK
<1>13. InboxOK'
  BY <1>1, <1>8 DEF GroupInv, InboxOK
<1>14. FilesOK'
  <2>1. WithFile \subseteq WithFile'
    BY <1>8 DEF WithFile
  <2> QED BY <1>1, <2>1 DEF GroupInv, FilesOK
<1> QED BY <1>9, <1>10, <1>11, <1>12, <1>13, <1>14 DEF GroupInv

\* The first entry of the fan-out, and the rest of it.
LEMMA NextCopy ==
    ASSUME GroupInv, NEW d \in Devices, todo[d] # <<>>
    PROVE  /\ IsCopy(sent, Head(todo[d])) /\ sent[Head(todo[d])[1]].from = d
           /\ Tail(todo[d]) \in Seq(Nat \X Nat)
           /\ \A i \in DOMAIN Tail(todo[d]) :
                 IsCopy(sent, Tail(todo[d])[i]) /\ sent[Tail(todo[d])[i][1]].from = d
<1> DEFINE w == todo[d]
<1>1. /\ w \in Seq(Nat \X Nat)
      /\ \A i \in DOMAIN w : IsCopy(sent, w[i]) /\ sent[w[i][1]].from = d
  BY DEF GroupInv, TodoOK
<1> HIDE DEF w
<1>2. w # <<>>
  BY DEF w
<1>3. /\ DOMAIN w = 1 .. Len(w) /\ Len(w) \in Nat /\ Len(w) >= 1
      /\ Head(w) = w[1]
      /\ Tail(w) \in Seq(Nat \X Nat)
      /\ DOMAIN Tail(w) = 1 .. Len(w) - 1
      /\ \A i \in 1 .. Len(w) - 1 : Tail(w)[i] = w[i + 1]
  BY <1>1, <1>2
<1>4. 1 \in DOMAIN w /\ \A i \in 1 .. Len(w) - 1 : i + 1 \in DOMAIN w
  BY <1>3
<1>5. IsCopy(sent, Head(w)) /\ sent[Head(w)[1]].from = d
  BY <1>1, <1>3, <1>4
<1>6. \A i \in DOMAIN Tail(w) : IsCopy(sent, Tail(w)[i]) /\ sent[Tail(w)[i][1]].from = d
  BY <1>1, <1>3, <1>4
<1> QED BY <1>3, <1>5, <1>6 DEF w

\* A device goes on to copies of its own messages.
LEMMA TodoStep ==
    ASSUME GroupInv, NEW d \in Devices, NEW w \in Seq(Nat \X Nat),
           \A i \in DOMAIN w : IsCopy(sent, w[i]) /\ sent[w[i][1]].from = d,
           todo' = [todo EXCEPT ![d] = w], sent' = sent
    PROVE  TodoOK'
<1>1. /\ todo \in [Devices -> Seq(Nat \X Nat)]
      /\ \A e \in Devices : \A i \in DOMAIN todo[e] :
            IsCopy(sent, todo[e][i]) /\ sent[todo[e][i][1]].from = e
  BY DEF GroupInv, TodoOK
<1>2. todo' \in [Devices -> Seq(Nat \X Nat)]
  BY <1>1
<1>3. \A e \in Devices : todo'[e] = IF e = d THEN w ELSE todo[e]
  BY <1>1
<1>4. \A e \in Devices : \A i \in DOMAIN todo'[e] :
         IsCopy(sent, todo'[e][i]) /\ sent[todo'[e][i][1]].from = e
  BY <1>1, <1>3
<1> QED BY <1>2, <1>4 DEF TodoOK

LEMMA SendCopyStep ==
    ASSUME GroupInv, NEW d \in Devices, SendCopy(d)
    PROVE  GroupInv'
<1> DEFINE copy == Head(todo[d])
           e    == seal(d, Ciphertext(d, Addressee(copy), copy), Addressee(copy))
<1>1. /\ groups' = groups /\ sent' = sent /\ inbox' = inbox
      /\ refused' = refused /\ opened' = opened
      /\ todo[d] # <<>>
      /\ todo' = [todo EXCEPT ![d] = Tail(todo[d])]
      /\ relay' \subseteq relay \cup {e}
  BY DEF SendCopy
<1>2. IsCopy(sent, copy) /\ sent[copy[1]].from = d
  BY <1>1, NextCopy
<1>3. ListsOK' /\ SentOK'
  BY <1>1 DEF GroupInv, ListsOK, SentOK
<1>4. TodoOK'
  BY <1>1, NextCopy, TodoStep
<1>5. RelayOK'
  <2> HIDE DEF copy
  <2>1. e = EnvelopeOf(sent, copy)
    BY <1>2 DEF EnvelopeOf, Addressee
  <2>2. e.encrypted_message.text.copy = copy
    BY DEF seal, sealedbox, Ciphertext
  <2> HIDE DEF e
  <2>3. \A f \in relay' : LET c == f.encrypted_message.text.copy
                         IN  IsCopy(sent, c) /\ f = EnvelopeOf(sent, c)
    BY <1>1, <1>2, <2>1, <2>2 DEF GroupInv, RelayOK
  <2> QED BY <1>1, <2>3 DEF RelayOK
<1>6. InboxOK' /\ FilesOK'
  BY <1>1 DEF GroupInv, InboxOK, FilesOK, WithFile
<1> QED BY <1>3, <1>4, <1>5, <1>6 DEF GroupInv

LEMMA EndEarlyStep ==
    ASSUME GroupInv, NEW d \in Devices, EndEarly(d)
    PROVE  GroupInv'
<1>1. /\ groups' = groups /\ sent' = sent /\ inbox' = inbox /\ relay' = relay
      /\ refused' = refused /\ opened' = opened
      /\ todo' = [todo EXCEPT ![d] = <<>>]
  BY DEF EndEarly
<1>2. ListsOK' /\ SentOK'
  BY <1>1 DEF GroupInv, ListsOK, SentOK
<1>3. TodoOK'
  <2>1. <<>> \in Seq(Nat \X Nat) /\ DOMAIN <<>> = {}
    OBVIOUS
  <2>2. \A i \in DOMAIN <<>> : IsCopy(sent, <<>>[i]) /\ sent[<<>>[i][1]].from = d
    BY <2>1
  <2> QED BY <1>1, <2>1, <2>2, TodoStep
<1>4. RelayOK' /\ InboxOK' /\ FilesOK'
  BY <1>1 DEF GroupInv, RelayOK, InboxOK, FilesOK, WithFile
<1> QED BY <1>2, <1>3, <1>4 DEF GroupInv

\* Whatever halves the relay puts together, and whomever it gives them to: a
\* device that reads a copy is the one the copy is for, and takes it as its
\* author's, in the group it was posted to.
LEMMA ReceiveReads ==
    ASSUME GroupInv, NEW d \in Devices, NEW e \in Envelopes, Reads(d, e)
    PROVE  \E c \in Nat \X Nat :
              /\ IsCopy(sent, c)
              /\ sent[c[1]].to[c[2]] = d
              /\ inbox' = inbox \cup {EntryOf(sent, c)}
              /\ \A y \in inbox : y.copy # c
              /\ groups' = [groups EXCEPT ![d][sent[c[1]].group.id] =
                               IF @ = None THEN <<d, sent[c[1]].from>> ELSE @]
              /\ UNCHANGED <<changes, sent, refused, todo, cut, relay, disturbed, opened>>
<1>1. PICK e1 \in relay, e2 \in relay :
         e = [encrypted_sender |-> e1.encrypted_sender, encrypted_message |-> e2.encrypted_message]
  BY DEF Envelopes
<1> DEFINE c1 == e1.encrypted_message.text.copy
           c  == e2.encrypted_message.text.copy
<1>2. /\ IsCopy(sent, c1) /\ e1 = EnvelopeOf(sent, c1)
      /\ IsCopy(sent, c) /\ e2 = EnvelopeOf(sent, c)
  BY DEF GroupInv, RelayOK
<1> HIDE DEF c1, c
<1>3. /\ e.encrypted_sender = sealedbox(sent[c1[1]].from, sent[c1[1]].to[c1[2]])
      /\ e.encrypted_message =
            sealedbox(Ciphertext(sent[c[1]].from, sent[c[1]].to[c[2]], c), sent[c[1]].to[c[2]])
  BY <1>1, <1>2 DEF EnvelopeOf, seal
<1> DEFINE sender == e.encrypted_sender.text
           msg    == e.encrypted_message.text
<1>4. /\ SessionOpens(d, sender, msg)
      /\ \A y \in inbox : y.copy # msg.copy
      /\ inbox' = inbox \cup {[on |-> d, from |-> sender, copy |-> msg.copy]}
      /\ \E g \in from_hex(sent[msg.copy[1]].group) :
            groups' = [groups EXCEPT ![d][g] = IF @ = None THEN Discovered(d, sender) ELSE @]
      /\ UNCHANGED <<changes, sent, refused, todo, cut, relay, disturbed, opened>>
  <2>1. PICK u \in unseal(e, d) :
         /\ SessionOpens(d, u[1], u[2])
         /\ \A y \in inbox : y.copy # u[2].copy
         /\ inbox' = inbox \cup {[on |-> d, from |-> u[1], copy |-> u[2].copy]}
         /\ \E g \in from_hex(sent[u[2].copy[1]].group) :
               groups' = [groups EXCEPT ![d][g] = IF @ = None THEN Discovered(d, u[1]) ELSE @]
         /\ UNCHANGED <<changes, sent, refused, todo, cut, relay, disturbed, opened>>
    BY Zenon DEF Reads, Read
  <2>2. u = <<sender, msg>>
    BY DEF unseal
  <2>3. u[1] = sender /\ u[2] = msg
    BY <2>2
  <2> HIDE DEF sender, msg
  <2> QED BY <2>1, <2>3
<1>5. msg = Ciphertext(sent[c[1]].from, sent[c[1]].to[c[2]], c)
  BY <1>3 DEF sealedbox
<1> HIDE DEF sender, msg
<1>6. msg.copy = c /\ sent[c[1]].from = sender /\ sent[c[1]].to[c[2]] = d
  BY <1>4, <1>5 DEF SessionOpens, Ciphertext
<1>7. inbox' = inbox \cup {EntryOf(sent, c)} /\ \A y \in inbox : y.copy # c
  BY <1>4, <1>6 DEF EntryOf
<1>8. from_hex(sent[c[1]].group) = {sent[c[1]].group.id}
  <2>1. c[1] \in DOMAIN sent /\ sent \in Seq(Message)
    BY <1>2 DEF GroupInv, SentOK, IsCopy
  <2>2. sent[c[1]] \in Message
    BY <2>1
  <2>3. sent[c[1]].group.digits = 64
    BY <2>2 DEF Message
  <2> QED BY <2>3 DEF from_hex
<1>9. groups' = [groups EXCEPT ![d][sent[c[1]].group.id] =
                    IF @ = None THEN <<d, sent[c[1]].from>> ELSE @]
  <2>1. PICK g \in from_hex(sent[c[1]].group) :
           groups' = [groups EXCEPT ![d][g] = IF @ = None THEN Discovered(d, sender) ELSE @]
    BY <1>4, <1>6
  <2>2. g = sent[c[1]].group.id
    BY <1>8
  <2> QED BY <1>6, <2>1, <2>2 DEF Discovered
<1>10. c \in Nat \X Nat
  BY <1>2 DEF IsCopy
<1> QED BY <1>2, <1>4, <1>6, <1>7, <1>9, <1>10

\* The group of a message is one of the groups, and its author a device.
LEMMA CopyFacts ==
    ASSUME GroupInv, NEW c, IsCopy(sent, c)
    PROVE  /\ c[1] \in DOMAIN sent
           /\ sent[c[1]].group.id \in GroupIds
           /\ sent[c[1]].from \in Devices
           /\ sent[c[1]].to \in Seq(Devices)
           /\ sent[c[1]].to[c[2]] \in Devices
           /\ sent[c[1]].to[c[2]] \in Range(sent[c[1]].to)
<1>1. sent \in Seq(Message) /\ c[1] \in DOMAIN sent /\ c[2] \in DOMAIN sent[c[1]].to
  BY DEF GroupInv, SentOK, IsCopy
<1>2. sent[c[1]] \in Message
  BY <1>1
<1>3. /\ sent[c[1]].group.id \in GroupIds /\ sent[c[1]].from \in Devices
      /\ sent[c[1]].to \in Seq(Devices)
  BY <1>2 DEF Message
<1>4. sent[c[1]].to[c[2]] \in Devices /\ sent[c[1]].to[c[2]] \in Range(sent[c[1]].to)
  BY <1>1, <1>3 DEF Range
<1> QED BY <1>1, <1>3, <1>4

\* A group that is discovered has two members.
LEMMA DiscoveredList ==
    ASSUME NEW d \in Devices, NEW e \in Devices, d # e
    PROVE  <<d, e>> \in Seq(Devices) /\ Range(<<d, e>>) = {d, e} /\ Entered(<<d, e>>)
<1>1. /\ <<d, e>> \in Seq(Devices) /\ DOMAIN <<d, e>> = {1, 2}
      /\ <<d, e>>[1] = d /\ <<d, e>>[2] = e
  OBVIOUS
<1>2. Range(<<d, e>>) = {d, e}
  BY <1>1 DEF Range
<1>3. ASSUME NEW x \in Devices
      PROVE  Repeats(<<d, e>>, x) <= 1
  <2> DEFINE P == {i \in DOMAIN <<d, e>> : <<d, e>>[i] = x}
  <2>1. P = {} \/ \E i : P = {i}
    <3>1. CASE x = d
      <4>1. P = {1}
        BY <1>1, <3>1
      <4> QED BY <4>1
    <3>2. CASE x = e
      <4>1. P = {2}
        BY <1>1, <3>2
      <4> QED BY <4>1
    <3>3. CASE x # d /\ x # e
      BY <1>1, <3>3
    <3> QED BY <3>1, <3>2, <3>3
  <2> HIDE DEF P
  <2>2. Cardinality(P) = 0 \/ Cardinality(P) = 1
    BY <2>1, FS_EmptySet, FS_Singleton
  <2>3. Cardinality(P) <= 1
    BY <2>2
  <2> QED BY <2>3 DEF Repeats, P
<1> QED BY <1>1, <1>2, <1>3 DEF Entered

LEMMA ReadsStep ==
    ASSUME GroupInv, NEW d \in Devices, NEW e \in Envelopes, Reads(d, e)
    PROVE  GroupInv'
<1>1. PICK c \in Nat \X Nat :
         /\ IsCopy(sent, c)
         /\ sent[c[1]].to[c[2]] = d
         /\ inbox' = inbox \cup {EntryOf(sent, c)}
         /\ groups' = [groups EXCEPT ![d][sent[c[1]].group.id] =
                          IF @ = None THEN <<d, sent[c[1]].from>> ELSE @]
         /\ UNCHANGED <<changes, sent, refused, todo, cut, relay, disturbed, opened>>
  BY ReceiveReads
<1> DEFINE g == sent[c[1]].group.id
           list == IF groups[d][g] = None THEN <<d, sent[c[1]].from>> ELSE groups[d][g]
<1>2. /\ c[1] \in DOMAIN sent /\ g \in GroupIds /\ sent[c[1]].from \in Devices
      /\ d \in Range(sent[c[1]].to)
  BY <1>1, CopyFacts
<1>3. d # sent[c[1]].from
  BY <1>2 DEF GroupInv, SentOK
<1>4. list \in Seq(Devices) /\ Entered(list)
  <2>1. CASE groups[d][g] = None
    BY <1>2, <1>3, <2>1, DiscoveredList
  <2>2. CASE groups[d][g] # None
    BY <1>2, <2>2, KnownList
  <2> QED BY <2>1, <2>2
<1>5. groups' = [groups EXCEPT ![d][g] = list]
  <2>1. groups \in [Devices -> [GroupIds -> Seq(Devices) \cup {None}]]
    BY DEF GroupInv, ListsOK
  <2> QED BY <1>1, <1>2, <2>1
<1>6. (EntryOf(sent, c)).copy = c
  BY DEF EntryOf
<1>7. InboxOK'
  <2>1. \A x \in inbox' : IsCopy(sent, x.copy) /\ x = EntryOf(sent, x.copy)
    BY <1>1, <1>6 DEF GroupInv, InboxOK
  <2> QED BY <1>1, <2>1 DEF InboxOK
<1>8. ListsOK'
  <2> HIDE DEF g, list
  <2>1. groups \in [Devices -> [GroupIds -> Seq(Devices) \cup {None}]]
    BY DEF GroupInv, ListsOK
  <2>2. groups' \in [Devices -> [GroupIds -> Seq(Devices) \cup {None}]]
    BY <1>2, <1>4, <1>5, <2>1
  <2>3. \A x \in Devices, k \in GroupIds :
           groups'[x][k] = IF x = d /\ k = g THEN list ELSE groups[x][k]
    BY <1>2, <1>5, <2>1
  <2>4. \A x \in Devices, k \in GroupIds : groups'[x][k] # None => Entered(groups'[x][k])
    BY <1>4, <2>3 DEF GroupInv, ListsOK
  <2> QED BY <2>2, <2>4 DEF ListsOK
<1>9. sent' = sent /\ refused' = refused /\ todo' = todo /\ relay' = relay /\ opened' = opened
  BY <1>1
<1>10. SentOK' /\ TodoOK' /\ RelayOK' /\ FilesOK'
  <2>1. SentOK'
    BY <1>9 DEF GroupInv, SentOK
  <2>2. TodoOK'
    BY <1>9 DEF GroupInv, TodoOK
  <2>3. RelayOK'
    BY <1>9 DEF GroupInv, RelayOK
  <2>4. FilesOK'
    BY <1>9 DEF GroupInv, FilesOK, WithFile
  <2> QED BY <2>1, <2>2, <2>3, <2>4
<1> QED BY <1>7, <1>8, <1>10 DEF GroupInv

\* GroupInv says nothing of the other variables.
LEMMA SameStep ==
    ASSUME GroupInv, groups' = groups, sent' = sent, refused' = refused, todo' = todo,
           relay' = relay, inbox' = inbox, opened' = opened
    PROVE  GroupInv'
<1>1. ListsOK' /\ SentOK'
  BY DEF GroupInv, ListsOK, SentOK
<1>2. TodoOK'
  BY DEF GroupInv, TodoOK
<1>3. RelayOK' /\ InboxOK'
  BY DEF GroupInv, RelayOK, InboxOK
<1>4. FilesOK'
  BY DEF GroupInv, FilesOK, WithFile
<1> QED BY <1>1, <1>2, <1>3, <1>4 DEF GroupInv

LEMMA FailsStep ==
    ASSUME GroupInv, NEW d \in Devices, NEW e \in Envelopes, FailsToRead(d, e)
    PROVE  GroupInv'
<1>1. UNCHANGED <<groups, changes, sent, refused, todo, cut, relay, inbox, opened>>
  BY DEF FailsToRead
<1> QED BY <1>1, SameStep

\* GroupInv holds in every state: the group messaging of any number of devices
\* keeps lists, fan-outs, envelopes and inboxes in step.
THEOREM GroupInvariance == Spec => []GroupInv
<1>1. Init => GroupInv
  BY GroupInit
<1>2. GroupInv /\ [Next]_vars => GroupInv'
  <2> SUFFICES ASSUME GroupInv, [Next]_vars PROVE GroupInv'
    OBVIOUS
  <2>1. ASSUME NEW d \in Devices, NEW g \in GroupIds, NEW given \in GivenLists,
               CreateGroup(d, g, given)
        PROVE  GroupInv'
    BY <2>1, CreateGroupStep
  <2>2. ASSUME NEW d \in Devices, NEW g \in GroupIds, NEW m \in Devices, AddMember(d, g, m)
        PROVE  GroupInv'
    BY <2>2, AddMemberStep
  <2>3. ASSUME NEW d \in Devices, NEW g \in GroupIds, NEW m \in Devices, RemoveMember(d, g, m)
        PROVE  GroupInv'
    BY <2>3, RemoveMemberStep
  <2>4. ASSUME NEW d \in Devices, NEW g \in GroupIds, NEW file \in FileSizes \cup {None},
               StartFanout(d, g, file)
        PROVE  GroupInv'
    BY <2>4, StartFanoutStep
  <2>5. ASSUME NEW d \in Devices, SendCopy(d) PROVE GroupInv'
    BY <2>5, SendCopyStep
  <2>6. ASSUME NEW d \in Devices, EndEarly(d) PROVE GroupInv'
    BY <2>6, EndEarlyStep
  <2>7. ASSUME NEW d \in Devices, NEW e \in Envelopes, Reads(d, e) PROVE GroupInv'
    BY <2>7, ReadsStep
  <2>8. ASSUME NEW len \in FileSizes, NEW path \in UploadPaths, UploadRefused(len, path)
        PROVE  GroupInv'
    BY <2>8, UploadRefusedStep
  <2>9. ASSUME NEW x \in inbox, NEW b \in ServerBlobs, OpenFile(x, b) PROVE GroupInv'
    BY <2>9, OpenFileStep
  <2>10. CASE UNCHANGED vars
    BY <2>10, SameStep DEF vars
  <2>11. ASSUME NEW d \in Devices, NEW e \in Envelopes, FailsToRead(d, e) PROVE GroupInv'
    BY <2>11, FailsStep
  <2> QED BY <2>1, <2>2, <2>3, <2>4, <2>5, <2>6, <2>7, <2>8, <2>9, <2>10, <2>11, Zenon
         DEF Next, Receive
<1> QED BY <1>1, <1>2, PTL DEF Spec

\* Only a session that exists can be disturbed.
SessionsOK == disturbed \subseteq (SUBSET Devices) \ Strangers

\* The sender an envelope names is a device, whatever halves it is made of.
LEMMA NamedSender ==
    ASSUME GroupInv, NEW e \in Envelopes
    PROVE  e.encrypted_sender.text \in Devices
<1>1. PICK f \in relay : e.encrypted_sender = f.encrypted_sender
  BY DEF Envelopes
<1> DEFINE c == f.encrypted_message.text.copy
<1>2. IsCopy(sent, c) /\ f = EnvelopeOf(sent, c)
  BY DEF GroupInv, RelayOK
<1> HIDE DEF c
<1>3. f.encrypted_sender.text = sent[c[1]].from
  BY <1>2 DEF EnvelopeOf, seal, sealedbox
<1> QED BY <1>1, <1>2, <1>3, CopyFacts

LEMMA SessionsStep ==
    ASSUME GroupInv, SessionsOK, [Next]_vars
    PROVE  SessionsOK'
<1>1. ASSUME NEW d \in Devices, NEW e \in Envelopes, FailsToRead(d, e) PROVE SessionsOK'
  <2>1. PICK u \in unseal(e, d) :
           HaveSession(d, u[1]) /\ disturbed' = disturbed \cup {{d, u[1]}}
    BY <1>1, Zenon DEF FailsToRead
  <2>2. u = <<e.encrypted_sender.text, e.encrypted_message.text>>
    BY DEF unseal
  <2>3. u[1] \in Devices
    BY <2>2, NamedSender
  <2> QED BY <2>1, <2>3 DEF SessionsOK, HaveSession
<1>2. CASE disturbed' = disturbed
  BY <1>2 DEF SessionsOK
<1>3. disturbed' = disturbed \/ \E d \in Devices, e \in Envelopes : FailsToRead(d, e)
  BY DEF Next, vars, CreateGroup, AddMember, RemoveMember, ChangeMembers, StartFanout,
         SendCopy, EndEarly, Receive, Reads, UploadRefused, OpenFile
<1> QED BY <1>1, <1>2, <1>3

\* Member lists, fan-outs and what was read have their types, whatever the relay
\* and the server do.
THEOREM GroupTypeCorrect == Spec => []TypeOK
<1>1. ASSUME GroupInv, SessionsOK PROVE TypeOK
  <2>1. groups \in [Devices -> [GroupIds -> GroupInfo(Devices) \cup {None}]]
    BY <1>1 DEF GroupInv, ListsOK, GroupInfo
  <2>2. \A n \in DOMAIN sent : sent[n].from \in Devices /\ sent[n].to \in Seq(Devices)
    <3>1. \A n \in DOMAIN sent : sent[n] \in Message
      BY <1>1 DEF GroupInv, SentOK
    <3> QED BY <3>1 DEF Message
  <2>3. refused \cup {sent[n].file : n \in WithFile} \subseteq 0 .. MAX_FILE_SIZE
    BY <1>1 DEF GroupInv, SentOK, FilesOK, WithFile
  <2>4. \A d \in Devices : \A i \in DOMAIN todo[d] : Addressee(todo[d][i]) \in Devices
    <3>1. \A d \in Devices : \A i \in DOMAIN todo[d] : IsCopy(sent, todo[d][i])
      BY <1>1 DEF GroupInv, TodoOK
    <3> QED BY <1>1, <3>1, CopyFacts DEF Addressee
  <2>5. \A x \in inbox : x.on \in Devices /\ x.from \in Devices
    <3> SUFFICES ASSUME NEW x \in inbox PROVE x.on \in Devices /\ x.from \in Devices
      OBVIOUS
    <3>1. IsCopy(sent, x.copy) /\ x = EntryOf(sent, x.copy)
      BY <1>1 DEF GroupInv, InboxOK
    <3>2. x.on = sent[x.copy[1]].to[x.copy[2]] /\ x.from = sent[x.copy[1]].from
      BY <3>1 DEF EntryOf
    <3> QED BY <1>1, <3>1, <3>2, CopyFacts
  <2>6. \A x \in opened : x.post \in WithFile
    BY <1>1 DEF GroupInv, FilesOK
  <2> QED BY <1>1, <2>1, <2>2, <2>3, <2>4, <2>5, <2>6 DEF TypeOK, SessionsOK
<1>2. Init => SessionsOK
  BY DEF Init, SessionsOK
<1>3. GroupInv /\ SessionsOK /\ [Next]_vars => SessionsOK'
  BY SessionsStep
<1> QED BY <1>1, <1>2, <1>3, GroupInvariance, PTL DEF Spec

\* An attachment that opens is the one its author attached, and the blob the
\* author uploaded opens, for files of every length.
THEOREM AttachmentsOpen == Spec => []AttachmentsTrue
<1>1. ASSUME GroupInv PROVE AttachmentsTrue
  <2>1. \A x \in opened : x.content = x.post
    BY <1>1 DEF GroupInv, FilesOK
  <2>2. ASSUME NEW n \in WithFile
        PROVE  decrypt_file(Blob(n), Blob(n).key) = {n}
    <3>1. sent[n].file \in Nat
      BY <1>1 DEF GroupInv, SentOK, WithFile
    <3>2. /\ Blob(n).len = NONCEBYTES + sent[n].file + MACBYTES
          /\ Blob(n).intact = TRUE /\ Blob(n).content = n
      BY DEF Blob, encrypt_file
    <3>3. ~TooShort(Blob(n))
      BY <3>1, <3>2 DEF TooShort, NONCEBYTES, MACBYTES
    <3> QED BY <3>2, <3>3 DEF decrypt_file
  <2> QED BY <2>1, <2>2 DEF AttachmentsTrue
<1> QED BY <1>1, GroupInvariance, PTL

\* A device reads a message at most once, or as often as a list the user entered
\* repeats it.  Each copy it reads is a place of its own in the fan-out.
THEOREM CopiesBounded == Spec => []NoExtraCopies
<1>1. ASSUME GroupInv PROVE NoExtraCopies
  <2> SUFFICES ASSUME NEW d \in Devices, NEW n \in DOMAIN sent
               PROVE  \/ Cardinality(Copies(d, n)) <= 1
                      \/ \E l \in GivenLists : Cardinality(Copies(d, n)) <= Repeats(l, d)
    BY DEF NoExtraCopies
  <2> DEFINE to == sent[n].to
             A  == Copies(d, n)
             B  == {i \in DOMAIN to : to[i] = d}
             f  == [x \in A |-> x.copy[2]]
  <2>1. to \in Seq(Devices) /\ Entered(to)
    <3>1. sent[n] \in Message /\ Entered(sent[n].to)
      BY <1>1 DEF GroupInv, SentOK
    <3> QED BY <3>1 DEF Message
  <2>2. ASSUME NEW x \in A
        PROVE  /\ x.copy \in Nat \X Nat /\ x.copy[1] = n /\ x.copy[2] \in B
               /\ x = EntryOf(sent, x.copy)
    <3>1. IsCopy(sent, x.copy) /\ x = EntryOf(sent, x.copy) /\ x.on = d /\ x.copy[1] = n
      BY <1>1 DEF Copies, GroupInv, InboxOK
    <3>2. x.on = sent[x.copy[1]].to[x.copy[2]]
      BY <3>1 DEF EntryOf
    <3> QED BY <3>1, <3>2 DEF IsCopy
  <2>3. f \in [A -> B]
    BY <2>2
  <2>4. ASSUME NEW x \in A, NEW y \in A, f[x] = f[y]
        PROVE  x = y
    <3>1. x.copy[2] = y.copy[2] /\ x.copy[1] = y.copy[1]
      BY <2>2, <2>4
    <3>2. x.copy = y.copy
      BY <2>2, <3>1
    <3> QED BY <2>2, <3>2
  <2>5. f \in Injection(A, B)
    <3> HIDE DEF f, A, B
    <3> QED BY <2>3, <2>4 DEF Injection, IsInjective
  <2>6. IsFiniteSet(B) /\ Cardinality(B) = Repeats(to, d) /\ Repeats(to, d) \in Nat
    BY <2>1, Places DEF Repeats
  <2>7. IsFiniteSet(A) /\ Cardinality(A) <= Repeats(to, d)
    <3> HIDE DEF f, A, B
    <3> QED BY <2>5, <2>6, FS_Injection
  <2>8. Cardinality(A) \in Nat
    BY <2>7, FS_CardinalityType
  <2>9. \A l \in GivenLists : Repeats(l, d) \in Nat
    BY Places, GroupAssumption
  <2>10. Repeats(to, d) <= 1 \/ \E l \in GivenLists : Repeats(to, d) <= Repeats(l, d)
    BY <2>1 DEF Entered
  <2> HIDE DEF A, to
  <2>11. Cardinality(A) <= 1 \/ \E l \in GivenLists : Cardinality(A) <= Repeats(l, d)
    BY <2>6, <2>7, <2>8, <2>9, <2>10
  <2> QED BY <2>11 DEF A
<1> QED BY <1>1, GroupInvariance, PTL

-----------------------------------------------------------------------------
(* GroupFanout keeps what GroupChannel promises *)

\* The sets of members that belong to the lists.
LEMMA KnownSets ==
    ASSUME GroupInv, NEW d \in Devices, NEW g \in GroupIds
    PROVE  /\ groups[d][g] = None => Known[d][g] = None
           /\ groups[d][g] # None => /\ Known[d][g] = Range(groups[d][g])
                                     /\ Known[d][g] \in SUBSET Devices
                                     /\ Known[d][g] # None
<1>1. Known[d][g] = IF groups[d][g] = None THEN None ELSE Range(groups[d][g])
  BY DEF Known
<1>2. ASSUME groups[d][g] # None
      PROVE  Range(groups[d][g]) \in SUBSET Devices
  <2>1. groups[d][g] \in Seq(Devices)
    BY <1>2, KnownList
  <2> QED BY <2>1 DEF Range
<1>3. \A members \in SUBSET Devices : None # members
  BY GroupAssumption
<1> QED BY <1>1, <1>2, <1>3

\* A change of one list changes one set.
LEMMA KnownStep ==
    ASSUME GroupInv, NEW d \in Devices, NEW g \in GroupIds, NEW list \in Seq(Devices),
           groups' = [groups EXCEPT ![d][g] = list]
    PROVE  Known' = [Known EXCEPT ![d][g] = Range(list)]
<1>1. groups \in [Devices -> [GroupIds -> Seq(Devices) \cup {None}]]
  BY DEF GroupInv, ListsOK
<1>2. list # None
  BY GroupAssumption
<1>3. \A e \in Devices, k \in GroupIds :
         groups'[e][k] = IF e = d /\ k = g THEN list ELSE groups[e][k]
  BY <1>1
<1> DEFINE K == [e \in Devices |-> [k \in GroupIds |->
                   IF e = d /\ k = g THEN Range(list) ELSE Known[e][k]]]
<1>4. ASSUME NEW e \in Devices, NEW k \in GroupIds
      PROVE  (IF groups'[e][k] = None THEN None ELSE Range(groups'[e][k])) =
             (IF e = d /\ k = g THEN Range(list) ELSE Known[e][k])
  BY <1>2, <1>3 DEF Known
<1>5. Known' = K
  BY <1>4, Zenon DEF Known
<1>6. Known = [e \in Devices |-> [k \in GroupIds |-> Known[e][k]]]
  BY DEF Known
<1>7. K = [Known EXCEPT ![d][g] = Range(list)]
  <2> DEFINE X == Known
  <2> HIDE DEF X
  <2>1. X = [e \in Devices |-> [k \in GroupIds |-> X[e][k]]]
    BY <1>6 DEF X
  <2>2. [e \in Devices |-> [k \in GroupIds |->
            IF e = d /\ k = g THEN Range(list) ELSE X[e][k]]] = [X EXCEPT ![d][g] = Range(list)]
    BY <2>1
  <2> QED BY <2>2 DEF X
<1> QED BY <1>5, <1>7

LEMMA CreateKeeps ==
    ASSUME GroupInv, NEW d \in Devices, NEW g \in GroupIds, NEW given \in GivenLists,
           CreateGroup(d, g, given)
    PROVE  \E set \in SUBSET Devices : Promised!Create(d, g, set)
<1>1. /\ \A e \in Devices : groups[e][g] = None
      /\ groups' = [groups EXCEPT ![d][g] = new(d, given)]
      /\ changes' = changes /\ sent' = sent /\ inbox' = inbox
  BY DEF CreateGroup
<1>2. new(d, given) \in Seq(Devices) /\ Range(new(d, given)) = Range(given) \cup {d}
  BY NewList
<1>3. Known' = [Known EXCEPT ![d][g] = Range(given) \cup {d}]
  BY <1>1, <1>2, KnownStep
<1>4. \A e \in Devices : Known[e][g] = None
  BY <1>1, KnownSets
<1>5. Posts' = Posts /\ Shown' = Shown
  BY <1>1 DEF Posts, Shown
<1>6. Range(given) \in SUBSET Devices
  BY GroupAssumption DEF Range
<1>7. Promised!Create(d, g, Range(given))
  BY <1>1, <1>3, <1>4, <1>5 DEF Promised!Create, Promised!SetMembers
<1> QED BY <1>6, <1>7

\* A change that leaves the list as it is is no step.
LEMMA SameList ==
    ASSUME GroupInv, NEW d \in Devices, NEW g \in GroupIds
    PROVE  [groups EXCEPT ![d][g] = groups[d][g]] = groups
<1>1. groups \in [Devices -> [GroupIds -> Seq(Devices) \cup {None}]]
  BY DEF GroupInv, ListsOK
<1> QED BY <1>1

LEMMA AddKeeps ==
    ASSUME GroupInv, NEW d \in Devices, NEW g \in GroupIds, NEW m \in Devices,
           AddMember(d, g, m)
    PROVE  Promised!Add(d, g, m)
<1> DEFINE list == add_member(groups[d][g], m)
<1>1. /\ groups[d][g] # None /\ groups' # groups
      /\ groups' = [groups EXCEPT ![d][g] = list]
      /\ changes' = changes + 1 /\ sent' = sent /\ inbox' = inbox
  BY DEF AddMember, ChangeMembers
<1>2. groups[d][g] \in Seq(Devices) /\ Entered(groups[d][g])
  BY <1>1, KnownList
<1>3. /\ list \in Seq(Devices) /\ Range(list) = Range(groups[d][g]) \cup {m}
      /\ m \in Range(groups[d][g]) => list = groups[d][g]
  BY <1>2, ListOperations
<1> HIDE DEF list
<1>4. m \notin Range(groups[d][g])
  BY <1>1, <1>3, SameList
<1>5. Known[d][g] = Range(groups[d][g]) /\ Known[d][g] # None
  BY <1>1, KnownSets
<1>6. Known' = [Known EXCEPT ![d][g] = Known[d][g] \cup {m}]
  BY <1>1, <1>3, <1>5, KnownStep
<1>7. Posts' = Posts /\ Shown' = Shown
  BY <1>1 DEF Posts, Shown
<1> QED BY <1>1, <1>4, <1>5, <1>6, <1>7 DEF Promised!Add, Promised!SetMembers

LEMMA RemoveKeeps ==
    ASSUME GroupInv, NEW d \in Devices, NEW g \in GroupIds, NEW m \in Devices,
           RemoveMember(d, g, m)
    PROVE  Promised!Remove(d, g, m)
<1> DEFINE list == retain(groups[d][g], m)
<1>1. /\ groups[d][g] # None /\ groups' # groups
      /\ groups' = [groups EXCEPT ![d][g] = list]
      /\ changes' = changes + 1 /\ sent' = sent /\ inbox' = inbox
  BY DEF RemoveMember, ChangeMembers, remove_member
<1>2. groups[d][g] \in Seq(Devices) /\ Entered(groups[d][g])
  BY <1>1, KnownList
<1>3. /\ list \in Seq(Devices) /\ Range(list) = Range(groups[d][g]) \ {m}
      /\ m \notin Range(groups[d][g]) => list = groups[d][g]
  BY <1>2, ListOperations
<1> HIDE DEF list
<1>4. m \in Range(groups[d][g])
  BY <1>1, <1>3, SameList
<1>5. Known[d][g] = Range(groups[d][g]) /\ Known[d][g] # None
  BY <1>1, KnownSets
<1>6. Known' = [Known EXCEPT ![d][g] = Known[d][g] \ {m}]
  BY <1>1, <1>3, <1>5, KnownStep
<1>7. Posts' = Posts /\ Shown' = Shown
  BY <1>1 DEF Posts, Shown
<1> QED BY <1>1, <1>4, <1>5, <1>6, <1>7 DEF Promised!Remove, Promised!SetMembers

\* What was read stays what it was when a message is put on the list.
LEMMA PostKeeps ==
    ASSUME GroupInv, NEW d \in Devices, NEW g \in GroupIds,
           NEW file \in FileSizes \cup {None}, StartFanout(d, g, file)
    PROVE  Promised!Post(d, g)
<1> DEFINE list == groups[d][g]
           to   == retain(list, d)
           p    == [from |-> d, group |-> to_hex(g), file |-> file,
                    members |-> list, to |-> to]
           q    == [from |-> d, group |-> g, to |-> Known[d][g] \ {d}]
<1>1. /\ groups' = groups /\ inbox' = inbox /\ changes' = changes
      /\ list # None
      /\ sent' = Append(sent, p)
  BY DEF StartFanout, other_members
<1>2. list \in Seq(Devices) /\ Entered(list)
  BY <1>1, KnownList
<1>3. to \in Seq(Devices) /\ Range(to) = Range(list) \ {d}
  BY <1>2, ListOperations
<1>4. Known[d][g] = Range(list) /\ Known[d][g] # None
  BY <1>1, KnownSets
<1> HIDE DEF list, to
<1>5. p \in Message
  <2>1. to_hex(g) \in [id : GroupIds, digits : {64}]
    BY DEF to_hex
  <2> QED BY <1>2, <1>3, <2>1 DEF Message
<1>6. p.from = d /\ p.group.id = g /\ p.to = to
  BY DEF to_hex
<1> HIDE DEF p
<1>7. sent \in Seq(Message) /\ Len(sent) \in Nat /\ DOMAIN sent = 1 .. Len(sent)
  BY DEF GroupInv, SentOK
<1>8. Grown(sent, p, sent')
  BY <1>1, <1>5, <1>7, CopiesStay
<1>9. Known' = Known
  BY <1>1 DEF Known
<1>10. Shown' = Shown
  <2>1. \A x \in inbox : sent'[x.copy[1]] = sent[x.copy[1]]
    BY <1>8 DEF GroupInv, InboxOK, Grown
  <2> QED BY <1>1, <2>1 DEF Shown
<1>11. Posts' = Append(Posts, q)
  <2> DEFINE T == [from : Devices, group : GroupIds, to : SUBSET Devices]
             n == Len(sent) + 1
  <2>1. Posts \in Seq(T) /\ Len(Posts) = Len(sent)
    <3>1. \A i \in DOMAIN sent :
             [from |-> sent[i].from, group |-> sent[i].group.id, to |-> Range(sent[i].to)] \in T
      <4>1. \A i \in DOMAIN sent : sent[i] \in Message
        BY <1>7
      <4> QED BY <4>1 DEF Message, Range
    <3> HIDE DEF T
    <3> QED BY <1>7, <3>1 DEF Posts
  <2>2. q \in T
    BY <1>1, KnownSets DEF list
  <2> HIDE DEF T, q
  <2>3. /\ Append(Posts, q) \in Seq(T) /\ Len(Append(Posts, q)) = n
        /\ \A i \in 1 .. Len(sent) : Append(Posts, q)[i] = Posts[i]
        /\ Append(Posts, q)[n] = q
    BY <2>1, <2>2, AppendProperties
  <2>4. DOMAIN sent' = 1 .. n
    BY <1>7, <1>8 DEF Grown
  <2>5. \A i \in 1 .. Len(sent) : sent'[i] = sent[i]
    BY <1>7, <1>8 DEF Grown
  <2>6. sent'[n] = p
    BY <1>8 DEF Grown
  <2>7. Posts' = [i \in 1 .. n |-> [from |-> sent'[i].from, group |-> sent'[i].group.id,
                                    to |-> Range(sent'[i].to)]]
    BY <2>4 DEF Posts
  <2>8. ASSUME NEW i \in 1 .. n
        PROVE  Append(Posts, q)[i] =
               [from |-> sent'[i].from, group |-> sent'[i].group.id, to |-> Range(sent'[i].to)]
    <3>1. CASE i = n
      BY <1>3, <1>4, <1>6, <2>3, <2>6, <3>1 DEF q
    <3>2. CASE i # n
      <4>1. i \in 1 .. Len(sent)
        BY <1>7, <3>2
      <4>2. Posts[i] = [from |-> sent[i].from, group |-> sent[i].group.id, to |-> Range(sent[i].to)]
        BY <1>7, <4>1 DEF Posts
      <4> QED BY <2>3, <2>5, <4>1, <4>2
    <3> QED BY <3>1, <3>2
  <2>9. Append(Posts, q) = [i \in 1 .. n |-> Append(Posts, q)[i]]
    <3> DEFINE r == Append(Posts, q)
    <3> HIDE DEF r
    <3>1. r \in Seq(T) /\ Len(r) = n
      BY <2>3 DEF r
    <3>2. r = [i \in 1 .. n |-> r[i]]
      BY <3>1
    <3> QED BY <3>2 DEF r
  <2> QED BY <2>7, <2>8, <2>9, Zenon
<1> QED BY <1>1, <1>4, <1>9, <1>10, <1>11 DEF Promised!Post

LEMMA ReadKeeps ==
    ASSUME GroupInv, NEW d \in Devices, NEW e \in Envelopes, Reads(d, e)
    PROVE  \E i \in DOMAIN Posts : Promised!Read(d, i)
<1>1. PICK c \in Nat \X Nat :
         /\ IsCopy(sent, c)
         /\ sent[c[1]].to[c[2]] = d
         /\ inbox' = inbox \cup {EntryOf(sent, c)}
         /\ groups' = [groups EXCEPT ![d][sent[c[1]].group.id] =
                          IF @ = None THEN <<d, sent[c[1]].from>> ELSE @]
         /\ UNCHANGED <<changes, sent, refused, todo, cut, relay, disturbed, opened>>
  BY ReceiveReads
<1> DEFINE n == c[1]
           g == sent[n].group.id
           a == sent[n].from
<1>2. /\ n \in DOMAIN sent /\ g \in GroupIds /\ a \in Devices
      /\ d \in Range(sent[n].to)
  BY <1>1, CopyFacts
<1>3. d # a
  BY <1>2 DEF GroupInv, SentOK
<1>4. n \in DOMAIN Posts /\ Posts[n] = [from |-> a, group |-> g, to |-> Range(sent[n].to)]
  BY <1>2 DEF Posts
<1>5. Posts' = Posts /\ changes' = changes /\ sent' = sent
  BY <1>1 DEF Posts
<1>6. Shown' = Shown \cup {[on |-> d, post |-> n, from |-> a, group |-> g]}
  <2> DEFINE x == EntryOf(sent, c)
             S(y) == [on |-> y.on, post |-> y.copy[1], from |-> y.from,
                      group |-> sent[y.copy[1]].group.id]
  <2>1. S(x) = [on |-> d, post |-> n, from |-> a, group |-> g]
    BY <1>1 DEF EntryOf
  <2>2. Shown = {S(y) : y \in inbox}
    BY DEF Shown
  <2>3. Shown' = {S(y) : y \in inbox \cup {x}}
    BY <1>1, <1>5 DEF Shown
  <2> HIDE DEF x, S
  <2> QED BY <2>1, <2>2, <2>3
<1>7. groups \in [Devices -> [GroupIds -> Seq(Devices) \cup {None}]]
  BY DEF GroupInv, ListsOK
<1>8. IF Known[d][g] = None THEN Known' = [Known EXCEPT ![d][g] = {d, a}] ELSE Known' = Known
  <2>1. CASE groups[d][g] = None
    <3>1. <<d, a>> \in Seq(Devices) /\ Range(<<d, a>>) = {d, a}
      BY <1>2, <1>3, DiscoveredList
    <3>2. groups' = [groups EXCEPT ![d][g] = <<d, a>>]
      BY <1>1, <1>2, <1>7, <2>1
    <3>3. Known' = [Known EXCEPT ![d][g] = {d, a}]
      BY <1>2, <3>1, <3>2, KnownStep
    <3>4. Known[d][g] = None
      BY <1>2, <2>1, KnownSets
    <3> QED BY <3>3, <3>4
  <2>2. CASE groups[d][g] # None
    <3>1. groups' = [groups EXCEPT ![d][g] = groups[d][g]]
      BY <1>1, <1>2, <1>7, <2>2
    <3>2. groups' = groups
      BY <1>2, <3>1, SameList
    <3>3. Known' = Known
      BY <3>2 DEF Known
    <3>4. Known[d][g] # None
      BY <1>2, <2>2, KnownSets
    <3> QED BY <3>3, <3>4
  <2> QED BY <2>1, <2>2
<1>9. Posts[n].from = a /\ Posts[n].group = g /\ d \in Posts[n].to
  BY <1>2, <1>4
<1> HIDE DEF n, g, a
<1>10. Promised!Read(d, n)
  BY <1>5, <1>6, <1>8, <1>9 DEF Promised!Read, Promised!SetMembers
<1> QED BY <1>4, <1>10

\* Steps that only the fan-out and the server see.
LEMMA Unseen ==
    ASSUME changes' = changes, groups' = groups, sent' = sent, inbox' = inbox
    PROVE  UNCHANGED Promised!vars
BY DEF Promised!vars, Known, Posts, Shown

\* Fan-outs over lists with repetitions, sealed envelopes and pairwise sessions
\* implement groups with sets of members, whose posts reach only who was a member
\* when they were sent, as the author's and in their group.
THEOREM GroupRefinement == Spec => ImplementsGroupChannel
<1>1. Init => Promised!Init
  <2> SUFFICES ASSUME Init PROVE Promised!Init
    OBVIOUS
  <2>1. /\ groups = [d \in Devices |-> [g \in GroupIds |-> None]]
        /\ changes = 0 /\ sent = <<>> /\ inbox = {}
    BY DEF Init
  <2>2. Known = [d \in Devices |-> [g \in GroupIds |-> None]]
    BY <2>1 DEF Known
  <2>3. Posts = <<>> /\ Shown = {}
    BY <2>1 DEF Posts, Shown
  <2> QED BY <2>1, <2>2, <2>3 DEF Promised!Init
<1>2. ASSUME GroupInv, [Next]_vars
      PROVE  [Promised!Next]_(Promised!vars)
  <2>1. ASSUME NEW d \in Devices, NEW g \in GroupIds, NEW given \in GivenLists,
               CreateGroup(d, g, given)
        PROVE  Promised!Next
    BY <1>2, <2>1, CreateKeeps DEF Promised!Next
  <2>2. ASSUME NEW d \in Devices, NEW g \in GroupIds, NEW m \in Devices, AddMember(d, g, m)
        PROVE  Promised!Next
    BY <1>2, <2>2, AddKeeps DEF Promised!Next
  <2>3. ASSUME NEW d \in Devices, NEW g \in GroupIds, NEW m \in Devices, RemoveMember(d, g, m)
        PROVE  Promised!Next
    BY <1>2, <2>3, RemoveKeeps DEF Promised!Next
  <2>4. ASSUME NEW d \in Devices, NEW g \in GroupIds, NEW file \in FileSizes \cup {None},
               StartFanout(d, g, file)
        PROVE  Promised!Next
    BY <1>2, <2>4, PostKeeps DEF Promised!Next
  <2>5. ASSUME NEW d \in Devices, SendCopy(d) PROVE UNCHANGED Promised!vars
    BY <2>5, Unseen DEF SendCopy
  <2>6. ASSUME NEW d \in Devices, EndEarly(d) PROVE UNCHANGED Promised!vars
    BY <2>6, Unseen DEF EndEarly
  <2>7. ASSUME NEW d \in Devices, NEW e \in Envelopes, Reads(d, e) PROVE Promised!Next
    BY <1>2, <2>7, ReadKeeps DEF Promised!Next
  <2>8. ASSUME NEW len \in FileSizes, NEW path \in UploadPaths, UploadRefused(len, path)
        PROVE  UNCHANGED Promised!vars
    BY <2>8, Unseen DEF UploadRefused
  <2>9. ASSUME NEW x \in inbox, NEW b \in ServerBlobs, OpenFile(x, b)
        PROVE  UNCHANGED Promised!vars
    BY <2>9, Unseen DEF OpenFile
  <2>10. ASSUME UNCHANGED vars PROVE UNCHANGED Promised!vars
    BY <2>10, Unseen DEF vars
  <2>11. ASSUME NEW d \in Devices, NEW e \in Envelopes, FailsToRead(d, e)
         PROVE  UNCHANGED Promised!vars
    BY <2>11, Unseen DEF FailsToRead
  <2> QED
    BY <1>2, <2>1, <2>2, <2>3, <2>4, <2>5, <2>6, <2>7, <2>8, <2>9, <2>10, <2>11, Zenon
       DEF Next, Receive
<1> QED BY <1>1, <1>2, GroupInvariance, PTL DEF Spec, ImplementsGroupChannel, Promised!Spec
=============================================================================
