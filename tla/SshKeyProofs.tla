---------------------------- MODULE SshKeyProofs ----------------------------
(***************************************************************************)
(* What is proved of the SSH keys, at both ends of their way. Of the       *)
(* bastion operator: what the helpers on entries do to every sequence of   *)
(* entries, and that the file follows the Tenants. Of the form a user adds *)
(* a key with: what joining, splitting and trimming do to every text, and  *)
(* that the keys handed over are whole.                                    *)
(***************************************************************************)
EXTENDS Bastion, AccountPage, FiniteSetTheorems, WellFoundedInduction, TLAPS

(* A set of numbers that is not empty has a least one.                     *)
LEMMA Least == ASSUME NEW S, S \subseteq Nat, S # {} PROVE \E i \in S : \A j \in S : i <= j
<1> DEFINE R == OpToRel(<, Nat)
<1>1. IsWellFoundedOn(R, Nat)
  BY NatLessThanWellFounded
<1>2. PICK x \in S : \A y \in S : ~ (<<y, x>> \in R)
  BY <1>1, WFMin
<1>3. R = {ss \in Nat \X Nat : ss[1] < ss[2]}
  BY DEF OpToRel
<1> HIDE DEF R
<1>4. \A y \in S : ~ (y < x)
  BY <1>2, <1>3
<1>5. QED
  BY <1>4

-----------------------------------------------------------------------------
(* Counting entries.                                                       *)

(* The places of an entry in a sequence.                                   *)
Places(s, e) == {i \in DOMAIN s : s[i] = e}

(* They are finitely many.                                                 *)
LEMMA PlacesFinite ==
  ASSUME NEW S, NEW s \in Seq(S), NEW e
  PROVE  IsFiniteSet(Places(s, e)) /\ Count(s, e) = Cardinality(Places(s, e)) /\ Count(s, e) \in Nat
<1>1. IsFiniteSet(1 .. Len(s))
  BY FS_Interval
<1>2. Places(s, e) \subseteq 1 .. Len(s)
  BY DEF Places
<1>3. IsFiniteSet(Places(s, e))
  BY <1>1, <1>2, FS_Subset
<1>4. QED
  BY <1>3, FS_CardinalityType DEF Count, Places

(* An entry that is nowhere counts for nothing.                            *)
LEMMA CountZero ==
  ASSUME NEW S, NEW s \in Seq(S), NEW e
  PROVE  Count(s, e) = 0 <=> \A i \in 1 .. Len(s) : s[i] # e
<1>1. Count(s, e) = 0 <=> Places(s, e) = {}
  BY PlacesFinite, FS_EmptySet
<1>2. QED
  BY <1>1 DEF Places

(* Appending an entry counts it once more.                                 *)
LEMMA CountAppend ==
  ASSUME NEW S, NEW s \in Seq(S), NEW x \in S, NEW e
  PROVE  Count(Append(s, x), e) = IF x = e THEN Count(s, e) + 1 ELSE Count(s, e)
<1> DEFINE n == Len(s) + 1
<1>1. Append(s, x) \in Seq(S)
  OBVIOUS
<1>2. n \notin Places(s, e)
  BY DEF Places
<1>3. Places(Append(s, x), e) = IF x = e THEN Places(s, e) \cup {n} ELSE Places(s, e)
  BY DEF Places
<1>4. Cardinality(Places(s, e) \cup {n}) = Cardinality(Places(s, e)) + 1
  BY <1>2, PlacesFinite, FS_AddElement
<1>5. Count(Append(s, x), e) = Cardinality(Places(Append(s, x), e))
  BY <1>1, PlacesFinite
<1>6. Count(s, e) = Cardinality(Places(s, e))
  BY PlacesFinite
<1>7. QED
  BY <1>3, <1>4, <1>5, <1>6

(* removeKey keeps the entries before the index and moves at most the last *)
(* one to it.                                                              *)
LEMMA RemoveKeyType ==
  ASSUME NEW S, NEW s \in Seq(S), NEW i \in 1 .. Len(s)
  PROVE  /\ removeKey(s, i) \in Seq(S) /\ Len(removeKey(s, i)) = Len(s) - 1
         /\ \A j \in 1 .. Len(s) - 1 : removeKey(s, i)[j] = IF j = i THEN s[Len(s)] ELSE s[j]
<1>1. removeKey(s, i) = [j \in 1 .. Len(s) - 1 |-> IF j = i THEN s[Len(s)] ELSE s[j]]
  BY DEF removeKey
<1>2. QED
  BY <1>1

(* It takes away one occurrence of the entry at the index, and of no other.*)
LEMMA CountRemove ==
  ASSUME NEW S, NEW s \in Seq(S), NEW i \in 1 .. Len(s), NEW e
  PROVE  s[i] # e => Count(removeKey(s, i), e) = Count(s, e)
<1> DEFINE n == Len(s)  r == removeKey(s, i)
<1> SUFFICES ASSUME s[i] # e PROVE Count(r, e) = Count(s, e)
  OBVIOUS
<1>1. r \in Seq(S) /\ Len(r) = n - 1 /\ \A j \in 1 .. n - 1 : r[j] = IF j = i THEN s[n] ELSE s[j]
  BY RemoveKeyType
<1>2. Count(r, e) = Cardinality(Places(r, e)) /\ Count(s, e) = Cardinality(Places(s, e))
  BY <1>1, PlacesFinite
<1> HIDE DEF r
<1>3. CASE s[n] # e
  <2>1. Places(r, e) = Places(s, e)
    BY <1>1, <1>3 DEF Places
  <2>2. QED
    BY <1>2, <2>1
<1>4. CASE s[n] = e
  <2>1. i # n /\ n \in Places(s, e) /\ i \notin Places(s, e)
    BY <1>4 DEF Places
  <2>2. Places(r, e) = (Places(s, e) \ {n}) \cup {i}
    BY <1>1, <1>4, <2>1 DEF Places
  <2>3. IsFiniteSet(Places(s, e) \ {n}) /\ Cardinality(Places(s, e) \ {n}) = Cardinality(Places(s, e)) - 1
    BY <2>1, PlacesFinite, FS_RemoveElement
  <2>4. Cardinality((Places(s, e) \ {n}) \cup {i}) = Cardinality(Places(s, e) \ {n}) + 1
    BY <2>1, <2>3, FS_AddElement
  <2>5. Cardinality(Places(s, e)) \in Nat
    BY PlacesFinite
  <2>6. QED
    BY <1>2, <2>2, <2>3, <2>4, <2>5
<1>5. QED
  BY <1>3, <1>4

-----------------------------------------------------------------------------
(* decomposeAndPurgeEntries: the loop over the indexes, last to first.     *)

(* The step of the loop that looks at the n-th last index.                 *)
Purged(rest, keys, t, n) ==
  IF Len(keys) + 1 - n \in IndexesOf(keys, t) THEN removeKey(rest, Len(keys) + 1 - n) ELSE rest

(* The function f is the loop up to its n-th step.                         *)
IsPurge(f, keys, t, n) ==
  f = [m \in 0 .. n |-> IF m = 0 THEN keys ELSE Purged(f[m - 1], keys, t, m)]

(* The loop ends: there is such a function for any number of steps.        *)
LEMMA PurgeExists == ASSUME NEW keys, NEW t, NEW N \in Nat PROVE \E f : IsPurge(f, keys, t, N)
<1> DEFINE Bad == {k \in 0 .. N : ~ \E f : IsPurge(f, keys, t, k)}
<1> SUFFICES ASSUME Bad # {} PROVE FALSE
  OBVIOUS
<1>1. PICK k \in Bad : \A j \in Bad : k <= j
  <2>1. Bad \subseteq Nat
    OBVIOUS
  <2> HIDE DEF Bad
  <2>2. QED
    BY <2>1, Least
<1>2. k \in 0 .. N /\ ~ \E f : IsPurge(f, keys, t, k)
  BY <1>1
<1>3. k # 0
  <2>1. IsPurge([n \in 0 .. 0 |-> keys], keys, t, 0)
    BY DEF IsPurge
  <2>2. QED
    BY <1>2, <2>1
<1>4. k - 1 \in 0 .. N /\ k - 1 \notin Bad
  BY <1>1, <1>2, <1>3
<1>5. PICK g : IsPurge(g, keys, t, k - 1)
  BY <1>4
<1> DEFINE h == [n \in 0 .. k |-> IF n = k THEN Purged(g[k - 1], keys, t, k) ELSE g[n]]
<1>6. \A n \in 0 .. k : h[n] = IF n = 0 THEN keys ELSE Purged(h[n - 1], keys, t, n)
  <2> TAKE n \in 0 .. k
  <2>1. CASE n = k
    BY <1>2, <1>3, <2>1
  <2>2. CASE n # k
    <3>1. n \in 0 .. k - 1
      BY <1>2, <2>2
    <3>2. g[n] = IF n = 0 THEN keys ELSE Purged(g[n - 1], keys, t, n)
      BY <1>5, <3>1 DEF IsPurge
    <3>3. QED
      BY <1>2, <2>2, <3>1, <3>2
  <2>3. QED
    BY <2>1, <2>2
<1>7. IsPurge(h, keys, t, k)
  <2>1. h = [n \in 0 .. k |-> h[n]]
    OBVIOUS
  <2> HIDE DEF h
  <2>2. QED
    BY <1>6, <2>1 DEF IsPurge
<1>8. QED
  BY <1>2, <1>7

(* After n steps the entries up to the index Len(keys) - n are untouched,  *)
(* no entry of t is left above it, and the other entries are all there.    *)
PurgeInv(rest, keys, t, n) ==
  /\ rest \in Seq(Entry) /\ Len(rest) >= Len(keys) - n
  /\ \A j \in 1 .. Len(keys) - n : rest[j] = keys[j]
  /\ \A j \in 1 .. Len(rest) : j > Len(keys) - n => rest[j].id # t
  /\ \A e \in Entry : e.id # t => Count(rest, e) = Count(keys, e)

(* One step of the loop keeps that.                                        *)
LEMMA PurgeStep ==
  ASSUME NEW keys \in Seq(Entry), NEW t, NEW n \in 1 .. Len(keys), NEW rest,
         PurgeInv(rest, keys, t, n - 1)
  PROVE  PurgeInv(Purged(rest, keys, t, n), keys, t, n)
<1> DEFINE i == Len(keys) + 1 - n
<1>1. /\ rest \in Seq(Entry) /\ Len(rest) >= i /\ i \in 1 .. Len(keys)
      /\ \A j \in 1 .. i : rest[j] = keys[j]
      /\ \A j \in 1 .. Len(rest) : j > i => rest[j].id # t
      /\ \A e \in Entry : e.id # t => Count(rest, e) = Count(keys, e)
  BY DEF PurgeInv
<1>2. CASE keys[i].id = t
  <2> DEFINE r == removeKey(rest, i)
  <2>1. Purged(rest, keys, t, n) = r
    BY <1>1, <1>2 DEF Purged, IndexesOf
  <2>2. i \in 1 .. Len(rest) /\ rest[i].id = t
    BY <1>1, <1>2
  <2>3. r \in Seq(Entry) /\ Len(r) = Len(rest) - 1
        /\ \A j \in 1 .. Len(rest) - 1 : r[j] = IF j = i THEN rest[Len(rest)] ELSE rest[j]
    BY <1>1, <2>2, RemoveKeyType
  <2>4. \A e \in Entry : e.id # t => Count(r, e) = Count(rest, e)
    BY <1>1, <2>2, CountRemove
  <2> HIDE DEF r
  <2>5. ASSUME NEW j \in 1 .. i - 1 PROVE r[j] = keys[j]
    <3> HIDE DEF i
    <3>1. j \in 1 .. Len(rest) - 1 /\ j # i /\ j \in 1 .. i
      BY <1>1, <2>2
    <3>2. QED
      BY <1>1, <2>3, <3>1
  <2>6. ASSUME NEW j \in 1 .. Len(r), j > i - 1 PROVE r[j].id # t
    <3> HIDE DEF i
    <3>1. j \in 1 .. Len(rest) - 1 /\ Len(rest) \in Nat /\ i \in Nat
      BY <1>1, <2>3
    <3>2. r[j] = IF j = i THEN rest[Len(rest)] ELSE rest[j]
      BY <2>3, <3>1
    <3>3. CASE j = i
      <4>1. Len(rest) > i /\ Len(rest) \in 1 .. Len(rest)
        BY <3>1, <3>3
      <4>2. QED
        BY <1>1, <3>2, <3>3, <4>1
    <3>4. CASE j # i
      <4>1. j > i /\ j \in 1 .. Len(rest)
        BY <2>6, <3>1, <3>4
      <4>2. QED
        BY <1>1, <3>2, <3>4, <4>1
    <3>5. QED
      BY <3>3, <3>4
  <2>7. QED
    BY <1>1, <2>1, <2>3, <2>4, <2>5, <2>6 DEF PurgeInv
<1>3. CASE keys[i].id # t
  <2>1. Purged(rest, keys, t, n) = rest
    BY <1>1, <1>3 DEF Purged, IndexesOf
  <2>2. \A j \in 1 .. Len(rest) : j > i - 1 => rest[j].id # t
    BY <1>1, <1>3
  <2>3. QED
    BY <1>1, <2>1, <2>2 DEF PurgeInv
<1>4. QED
  BY <1>2, <1>3

(* decomposeAndPurgeEntries removes every entry of t, and of the others    *)
(* none and no copy.                                                       *)
LEMMA PurgeRemovesOwn ==
  ASSUME NEW keys \in Seq(Entry), NEW t
  PROVE  LET rest == decomposeAndPurgeEntries(keys, t)
         IN  /\ rest \in Seq(Entry)
             /\ \A j \in 1 .. Len(rest) : rest[j].id # t
             /\ \A e \in Entry : e.id # t => Count(rest, e) = Count(keys, e)
<1> DEFINE f == CHOOSE g : IsPurge(g, keys, t, Len(keys))
<1>1. IsPurge(f, keys, t, Len(keys))
  <2>1. Len(keys) \in Nat
    OBVIOUS
  <2>2. \E g : IsPurge(g, keys, t, Len(keys))
    BY <2>1, PurgeExists
  <2>3. QED
    BY <2>2
<1>2. decomposeAndPurgeEntries(keys, t) = f[Len(keys)]
  BY DEF decomposeAndPurgeEntries, IsPurge, Purged
<1> HIDE DEF f
<1> DEFINE Bad == {n \in 0 .. Len(keys) : ~PurgeInv(f[n], keys, t, n)}
<1>3. Bad = {}
  <2> SUFFICES ASSUME Bad # {} PROVE FALSE
    OBVIOUS
  <2>1. PICK n \in Bad : \A j \in Bad : n <= j
    <3>1. Bad \subseteq Nat
      OBVIOUS
    <3> HIDE DEF Bad
    <3>2. QED
      BY <3>1, Least
  <2>2. n \in 0 .. Len(keys) /\ ~PurgeInv(f[n], keys, t, n)
    BY <2>1
  <2>3. f[n] = IF n = 0 THEN keys ELSE Purged(f[n - 1], keys, t, n)
    BY <1>1, <2>2 DEF IsPurge
  <2>4. n # 0
    <3>1. PurgeInv(keys, keys, t, 0)
      BY DEF PurgeInv
    <3>2. QED
      BY <2>2, <2>3, <3>1
  <2>5. n \in 1 .. Len(keys) /\ n - 1 \in 0 .. Len(keys) /\ n - 1 \notin Bad
    BY <2>1, <2>2, <2>4
  <2>6. PurgeInv(f[n - 1], keys, t, n - 1)
    BY <2>5
  <2>7. QED
    BY <2>2, <2>3, <2>4, <2>5, <2>6, PurgeStep
<1>4. PurgeInv(f[Len(keys)], keys, t, Len(keys))
  BY <1>3
<1>5. QED
  BY <1>2, <1>4 DEF PurgeInv

-----------------------------------------------------------------------------
(* composeAndMarkEntries: the loop over the keys of a Tenant.              *)

(* What a list of keys consists of.                                        *)
AnyKey == UNION {Range(l) : l \in KeyLists}

(* The step of the loop for the n-th key.                                  *)
Marked(keys, list, t, n) ==
  IF list[n] = BadKey THEN keys ELSE Append(keys, Create(list[n], t))

(* The function f is the loop up to its n-th step.                         *)
IsMarking(f, keys, list, t, n) ==
  f = [m \in 0 .. n |-> IF m = 0 THEN keys ELSE Marked(f[m - 1], list, t, m)]

(* The loop ends: there is such a function for any number of steps.        *)
LEMMA MarkingExists ==
  ASSUME NEW keys, NEW list, NEW t, NEW N \in Nat
  PROVE  \E f : IsMarking(f, keys, list, t, N)
<1> DEFINE Bad == {k \in 0 .. N : ~ \E f : IsMarking(f, keys, list, t, k)}
<1> SUFFICES ASSUME Bad # {} PROVE FALSE
  OBVIOUS
<1>1. PICK k \in Bad : \A j \in Bad : k <= j
  <2>1. Bad \subseteq Nat
    OBVIOUS
  <2> HIDE DEF Bad
  <2>2. QED
    BY <2>1, Least
<1>2. k \in 0 .. N /\ ~ \E f : IsMarking(f, keys, list, t, k)
  BY <1>1
<1>3. k # 0
  <2>1. IsMarking([n \in 0 .. 0 |-> keys], keys, list, t, 0)
    BY DEF IsMarking
  <2>2. QED
    BY <1>2, <2>1
<1>4. k - 1 \in 0 .. N /\ k - 1 \notin Bad
  BY <1>1, <1>2, <1>3
<1>5. PICK g : IsMarking(g, keys, list, t, k - 1)
  BY <1>4
<1> DEFINE h == [n \in 0 .. k |-> IF n = k THEN Marked(g[k - 1], list, t, k) ELSE g[n]]
<1>6. \A n \in 0 .. k : h[n] = IF n = 0 THEN keys ELSE Marked(h[n - 1], list, t, n)
  <2> TAKE n \in 0 .. k
  <2>1. CASE n = k
    BY <1>2, <1>3, <2>1
  <2>2. CASE n # k
    <3>1. n \in 0 .. k - 1
      BY <1>2, <2>2
    <3>2. g[n] = IF n = 0 THEN keys ELSE Marked(g[n - 1], list, t, n)
      BY <1>5, <3>1 DEF IsMarking
    <3>3. QED
      BY <1>2, <2>2, <3>1, <3>2
  <2>3. QED
    BY <2>1, <2>2
<1>7. IsMarking(h, keys, list, t, k)
  <2>1. h = [n \in 0 .. k |-> h[n]]
    OBVIOUS
  <2> HIDE DEF h
  <2>2. QED
    BY <1>6, <2>1 DEF IsMarking
<1>8. QED
  BY <1>2, <1>7

(* The first n keys of a list.                                             *)
Initially(list, n) == [j \in 1 .. n |-> list[j]]

(* After n steps the entries of t are those it had and the valid ones of   *)
(* the first n keys, and the other entries are as before.                  *)
MarkInv(marked, keys, list, t, n) ==
  /\ marked \in Seq(Entry)
  /\ \A e \in Entry : e.id # t => Count(marked, e) = Count(keys, e)
  /\ \A k \in Keys : Count(marked, Create(k, t)) = Count(keys, Create(k, t)) + Count(Initially(list, n), k)

(* One step of the loop keeps that.                                        *)
LEMMA MarkStep ==
  ASSUME NEW keys \in Seq(Entry), NEW list \in Seq(AnyKey), NEW t \in Tenants,
         NEW n \in 1 .. Len(list), NEW marked, MarkInv(marked, keys, list, t, n - 1)
  PROVE  MarkInv(Marked(marked, list, t, n), keys, list, t, n)
<1> DEFINE before == Initially(list, n - 1)
           after == Initially(list, n)
<1>1. /\ marked \in Seq(Entry)
      /\ \A e \in Entry : e.id # t => Count(marked, e) = Count(keys, e)
      /\ \A k \in Keys : Count(marked, Create(k, t)) = Count(keys, Create(k, t)) + Count(before, k)
  BY DEF MarkInv
<1>2. list[n] \in AnyKey /\ before \in Seq(AnyKey) /\ after = Append(before, list[n])
  BY DEF Initially
<1>3. \A k \in Keys : Count(after, k) = IF list[n] = k THEN Count(before, k) + 1 ELSE Count(before, k)
  BY <1>2, CountAppend
<1>4. \A k \in Keys : Count(before, k) \in Nat /\ Count(keys, Create(k, t)) \in Nat
  BY <1>2, PlacesFinite
<1> HIDE DEF before, after
<1>5. CASE list[n] = BadKey
  <2>1. Marked(marked, list, t, n) = marked
    BY <1>5 DEF Marked
  <2>2. \A k \in Keys : Count(after, k) = Count(before, k)
    BY <1>3, <1>5 DEF Keys
  <2>3. QED
    BY <1>1, <2>1, <2>2 DEF MarkInv, after
<1>6. CASE list[n] # BadKey
  <2> DEFINE c == Create(list[n], t)
  <2>1. Marked(marked, list, t, n) = Append(marked, c)
    BY <1>6 DEF Marked
  <2>2. c \in Entry /\ c.id = t
    BY <1>2, <1>6 DEF Create, Entry, Keys, AnyKey
  <2>3. \A e : Count(Append(marked, c), e) = IF c = e THEN Count(marked, e) + 1 ELSE Count(marked, e)
    BY <1>1, <2>2, CountAppend
  <2>4. Append(marked, c) \in Seq(Entry)
    BY <1>1, <2>2
  <2>5. \A k \in Keys : c = Create(k, t) <=> list[n] = k
    BY DEF Create
  <2>6. \A e \in Entry : e.id # t => Count(Append(marked, c), e) = Count(keys, e)
    BY <1>1, <2>2, <2>3
  <2> HIDE DEF c
  <2>7. ASSUME NEW k \in Keys
        PROVE  Count(Append(marked, c), Create(k, t)) = Count(keys, Create(k, t)) + Count(after, k)
    BY <1>1, <1>3, <1>4, <2>3, <2>5
  <2>8. QED
    BY <2>1, <2>4, <2>6, <2>7 DEF MarkInv, after
<1>7. QED
  BY <1>5, <1>6

(* composeAndMarkEntries adds the valid keys of the list, each as often as *)
(* it is listed, and touches no other entry.                               *)
LEMMA MarkAddsValid ==
  ASSUME NEW keys \in Seq(Entry), NEW list \in Seq(AnyKey), NEW t \in Tenants
  PROVE  LET marked == composeAndMarkEntries(keys, list, t)
         IN  /\ marked \in Seq(Entry)
             /\ \A e \in Entry : e.id # t => Count(marked, e) = Count(keys, e)
             /\ \A k \in Keys : Count(marked, Create(k, t)) = Count(keys, Create(k, t)) + Count(list, k)
<1> DEFINE f == CHOOSE g : IsMarking(g, keys, list, t, Len(list))
<1>1. IsMarking(f, keys, list, t, Len(list))
  <2>1. Len(list) \in Nat
    OBVIOUS
  <2>2. \E g : IsMarking(g, keys, list, t, Len(list))
    BY <2>1, MarkingExists
  <2>3. QED
    BY <2>2
<1>2. composeAndMarkEntries(keys, list, t) = f[Len(list)]
  BY DEF composeAndMarkEntries, IsMarking, Marked
<1> HIDE DEF f
<1> DEFINE Bad == {n \in 0 .. Len(list) : ~MarkInv(f[n], keys, list, t, n)}
<1>3. Bad = {}
  <2> SUFFICES ASSUME Bad # {} PROVE FALSE
    OBVIOUS
  <2>1. PICK n \in Bad : \A j \in Bad : n <= j
    <3>1. Bad \subseteq Nat
      OBVIOUS
    <3> HIDE DEF Bad
    <3>2. QED
      BY <3>1, Least
  <2>2. n \in 0 .. Len(list) /\ ~MarkInv(f[n], keys, list, t, n)
    BY <2>1
  <2>3. f[n] = IF n = 0 THEN keys ELSE Marked(f[n - 1], list, t, n)
    BY <1>1, <2>2 DEF IsMarking
  <2>4. n # 0
    <3>1. Initially(list, 0) \in Seq(AnyKey) /\ Len(Initially(list, 0)) = 0
      BY DEF Initially
    <3>2. \A k \in Keys : Count(Initially(list, 0), k) = 0
      BY <3>1, CountZero
    <3>3. \A k \in Keys : Count(keys, Create(k, t)) \in Nat
      BY PlacesFinite
    <3>4. MarkInv(keys, keys, list, t, 0)
      BY <3>2, <3>3 DEF MarkInv
    <3>5. QED
      BY <2>2, <2>3, <3>4
  <2>5. n \in 1 .. Len(list) /\ n - 1 \in 0 .. Len(list) /\ n - 1 \notin Bad
    BY <2>1, <2>2, <2>4
  <2>6. MarkInv(f[n - 1], keys, list, t, n - 1)
    BY <2>5
  <2>7. QED
    BY <2>2, <2>3, <2>4, <2>5, <2>6, MarkStep
<1>4. MarkInv(f[Len(list)], keys, list, t, Len(list))
  BY <1>3
<1>5. Initially(list, Len(list)) = list
  BY DEF Initially
<1>6. QED
  BY <1>2, <1>4, <1>5 DEF MarkInv

-----------------------------------------------------------------------------
(* The inductive invariant.                                                *)

(* The entries the file has, or will have once the worker, which has just  *)
(* emptied it, is done.                                                    *)
Written == IF proc.pc = "write" THEN proc.keys ELSE file

(* The worker is at t, or has yet to come to it.                           *)
Busy(t) == t \in queue \/ proc.t = t

(* The worker starts from nothing and works for one Tenant, with the keys  *)
(* the cache shows unless a change waits in the queue.                     *)
WorkerInv ==
  /\ proc.pc = "idle" => proc = Idle
  /\ proc.pc # "idle" => proc.t \in Tenants /\ (proc.t \notin queue => proc.spec = cache[proc.t])

(* The entries it composes are its Tenant's keys and the others' entries,  *)
(* and while it is to write them the file is empty.                        *)
EntriesInv ==
  /\ proc.pc = "write" => file = <<>>
  /\ proc.pc \in {"create", "write"} => Holds(proc.keys, proc.t, proc.spec)
  /\ proc.pc = "create" => \A e \in Entry : e.id # proc.t => Count(proc.keys, e) = Count(file, e)

(* A Tenant nobody is busy with has its keys in the file, unless a write   *)
(* failed, and a deleted one has none, unless its deletion was missed.     *)
FileInv ==
  /\ \A t \in Tenants : ~Busy(t) /\ ~torn /\ cache[t] # Absent => Holds(Written, t, cache[t])
  /\ \A t \in Tenants \ missed : ~Busy(t) /\ cache[t] = Absent => Holds(Written, t, Absent)

BastionInv == TypeOK /\ WorkerInv /\ EntriesInv /\ FileInv

(* A list of keys is a sequence of keys.                                   *)
LEMMA ListsAreSequences == \A l \in KeyLists : l \in Seq(AnyKey)
  BY BastionAssumption DEF AnyKey

(* Create names a Tenant's entry.                                          *)
LEMMA CreateEntry ==
  ASSUME NEW k \in Keys, NEW t \in Tenants
  PROVE  Create(k, t) \in Entry /\ Create(k, t).id = t
  BY DEF Create, Entry

(* Sequences that hold as many of every entry of t hold the same lists.    *)
LEMMA HoldsToo ==
  ASSUME NEW a, NEW b, NEW t \in Tenants, NEW list,
         \A e \in Entry : e.id = t => Count(a, e) = Count(b, e), Holds(b, t, list)
  PROVE  Holds(a, t, list)
  BY CreateEntry DEF Holds

(* A sequence without entries of t holds the keys of a deleted Tenant.     *)
LEMMA HoldsNone ==
  ASSUME NEW a \in Seq(Entry), NEW t \in Tenants
  PROVE  Holds(a, t, Absent) <=> \A i \in 1 .. Len(a) : a[i].id # t
<1>1. ASSUME Holds(a, t, Absent), NEW i \in 1 .. Len(a), a[i].id = t PROVE FALSE
  <2>1. a[i] \in Entry
    OBVIOUS
  <2>2. PICK k \in Keys : a[i] = Create(k, t)
    BY <1>1, <2>1 DEF Entry, Create
  <2>3. Count(a, Create(k, t)) = 0
    BY <1>1 DEF Holds
  <2>4. QED
    BY <2>2, <2>3, CountZero
<1>2. ASSUME \A i \in 1 .. Len(a) : a[i].id # t PROVE Holds(a, t, Absent)
  <2>1. ASSUME NEW k \in Keys PROVE Count(a, Create(k, t)) = 0
    BY <1>2, CountZero, CreateEntry
  <2>2. QED
    BY <2>1 DEF Holds
<1>3. QED
  BY <1>1, <1>2

(* The empty file does.                                                    *)
LEMMA EmptyHoldsNone == \A t \in Tenants : Holds(<<>>, t, Absent)
<1> TAKE t \in Tenants
<1> DEFINE a == <<>>
<1>1. a \in Seq(Entry) /\ \A i \in 1 .. Len(a) : a[i].id # t
  OBVIOUS
<1> HIDE DEF a
<1>2. Holds(a, t, Absent)
  BY <1>1, HoldsNone
<1>3. QED
  BY <1>2 DEF a

(* What ReadFile composes for t: its keys as they were read, and as many   *)
(* of every other entry as the file has.                                   *)
LEMMA ReadComposes ==
  ASSUME NEW keys \in Seq(Entry), NEW t \in Tenants, NEW list \in TenantKeys
  PROVE  LET rest == decomposeAndPurgeEntries(keys, t)
             all == IF list = Absent THEN rest ELSE composeAndMarkEntries(rest, list, t)
         IN  /\ all \in Seq(Entry) /\ Holds(all, t, list)
             /\ \A e \in Entry : e.id # t => Count(all, e) = Count(keys, e)
<1> DEFINE rest == decomposeAndPurgeEntries(keys, t)
           all == composeAndMarkEntries(rest, list, t)
<1>1. /\ rest \in Seq(Entry) /\ \A j \in 1 .. Len(rest) : rest[j].id # t
      /\ \A e \in Entry : e.id # t => Count(rest, e) = Count(keys, e)
  BY PurgeRemovesOwn
<1> HIDE DEF rest
<1>2. Holds(rest, t, Absent)
  BY <1>1, HoldsNone
<1>3. CASE list = Absent
  BY <1>1, <1>2, <1>3 DEF rest
<1>4. CASE list # Absent
  <2>1. list \in Seq(AnyKey)
    BY <1>4, ListsAreSequences DEF TenantKeys
  <2>2. /\ all \in Seq(Entry) /\ \A e \in Entry : e.id # t => Count(all, e) = Count(rest, e)
        /\ \A k \in Keys : Count(all, Create(k, t)) = Count(rest, Create(k, t)) + Count(list, k)
    BY <1>1, <2>1, MarkAddsValid
  <2> HIDE DEF all
  <2>3. \A k \in Keys : Count(rest, Create(k, t)) = 0 /\ Count(list, k) \in Nat
    BY <1>2, <2>1, PlacesFinite DEF Holds
  <2>4. Holds(all, t, list)
    BY <1>4, <2>2, <2>3 DEF Holds
  <2>5. all \in Seq(Entry) /\ \A e \in Entry : e.id # t => Count(all, e) = Count(keys, e)
    BY <1>1, <2>2
  <2>6. QED
    BY <1>4, <2>4, <2>5 DEF all, rest
<1>5. QED
  BY <1>3, <1>4

(* What a write that fails part way leaves are entries, and for a Tenant   *)
(* only ones that were to be written.                                      *)
LEMMA TornEntries ==
  ASSUME NEW keys \in Seq(Entry), NEW a \in Torn(keys)
  PROVE  /\ a \in Seq(Entry)
         /\ \A i \in 1 .. Len(a) : a[i].id = Nobody \/ \E j \in 1 .. Len(keys) : a[i] = keys[j]
<1>1. ASSUME NEW n \in 0 .. Len(keys)
      PROVE  /\ SubSeq(keys, 1, n) \in Seq(Entry) /\ Len(SubSeq(keys, 1, n)) = n
             /\ \A i \in 1 .. n : SubSeq(keys, 1, n)[i] = keys[i]
  OBVIOUS
<1>2. CASE \E n \in 0 .. Len(keys) : a = SubSeq(keys, 1, n)
  <2>1. PICK n \in 0 .. Len(keys) : a = SubSeq(keys, 1, n)
    BY <1>2
  <2>2. QED
    BY <1>1, <2>1
<1>3. CASE \E n \in 0 .. Len(keys) - 1 :
              a = Append(SubSeq(keys, 1, n), [key |-> keys[n + 1].key, id |-> Nobody])
  <2>1. PICK n \in 0 .. Len(keys) - 1 :
               a = Append(SubSeq(keys, 1, n), [key |-> keys[n + 1].key, id |-> Nobody])
    BY <1>3
  <2> DEFINE c == [key |-> keys[n + 1].key, id |-> Nobody]
             b == SubSeq(keys, 1, n)
  <2>2. c \in Entry
    <3>1. keys[n + 1] \in Entry
      OBVIOUS
    <3>2. QED
      BY <3>1 DEF Entry
  <2>3. b \in Seq(Entry) /\ Len(b) = n /\ \A i \in 1 .. n : b[i] = keys[i]
    BY <1>1
  <2>4. c.id = Nobody /\ a = Append(b, c) /\ n \in Nat /\ n <= Len(keys)
    BY <2>1
  <2> HIDE DEF b, c
  <2>5. a \in Seq(Entry) /\ Len(a) = n + 1 /\ a[n + 1] = c /\ \A i \in 1 .. n : a[i] = keys[i]
    BY <2>2, <2>3, <2>4
  <2>6. QED
    BY <2>4, <2>5
<1>4. QED
  BY <1>2, <1>3 DEF Torn

-----------------------------------------------------------------------------
(* Every step keeps it.                                                    *)

(* A Tenant is not deleted and listed at once.                             *)
LEMMA AbsentTyped == Absent \in TenantKeys /\ Idle \in
  [pc : {"idle", "read", "create", "write"}, t : Tenants \cup {Nobody},
   spec : TenantKeys, keys : Seq(Entry)]
  BY DEF TenantKeys, Idle

(* A fault is one of those allowed.                                        *)
LEMMA FaultTyped == faults \in 0 .. MaxFaults /\ Fault => faults' \in 0 .. MaxFaults
  BY BastionAssumption DEF Fault

(* Before the operator starts there are no Tenants and no entries.         *)
LEMMA InitBastion == Init => BastionInv
<1> SUFFICES ASSUME Init PROVE BastionInv
  OBVIOUS
<1>1. TypeOK
  <2>1. tenants \in [Tenants -> TenantKeys] /\ cache \in [Tenants -> TenantKeys]
    BY AbsentTyped DEF Init
  <2>2. faults \in 0 .. MaxFaults /\ ops \in 0 .. MaxOps
    BY BastionAssumption DEF Init
  <2>3. file \in Seq(Entry) /\ queue \subseteq Tenants /\ torn \in BOOLEAN /\ missed \subseteq Tenants
    <3>1. file = <<>> /\ queue = {} /\ torn = FALSE /\ missed = {}
      BY DEF Init
    <3>2. <<>> \in Seq(Entry)
      OBVIOUS
    <3>3. QED
      BY <3>1, <3>2
  <2>4. proc = Idle
    BY DEF Init
  <2>5. QED
    BY <2>1, <2>2, <2>3, <2>4, AbsentTyped, Zenon DEF TypeOK
<1>2. WorkerInv /\ EntriesInv
  BY DEF Init, WorkerInv, EntriesInv, Idle
<1>3. \A t \in Tenants : Holds(<<>>, t, Absent)
  BY EmptyHoldsNone
<1>4. FileInv
  BY <1>3 DEF Init, FileInv, Written, Idle
<1>5. QED
  BY <1>1, <1>2, <1>4, Zenon DEF BastionInv

(* A change of a Tenant is not yet seen by the operator.                   *)
LEMMA EditKeeps ==
  ASSUME BastionInv, NEW t \in Tenants, UserSet(t) \/ UserDelete(t)
  PROVE  BastionInv'
<1>1. tenants' \in [Tenants -> TenantKeys] /\ ops' \in 0 .. MaxOps
  <2>1. ops' \in 0 .. MaxOps
    BY BastionAssumption DEF BastionInv, TypeOK, UserSet, UserDelete, Edit
  <2>2. PICK l \in TenantKeys : tenants' = [tenants EXCEPT ![t] = l]
    BY AbsentTyped DEF UserSet, UserDelete, TenantKeys
  <2>3. QED
    BY <2>1, <2>2 DEF BastionInv, TypeOK
<1>2. UNCHANGED <<cache, file, queue, proc, torn, missed, faults>>
  BY DEF UserSet, UserDelete, ghosts
<1>3. TypeOK'
  BY <1>1, <1>2 DEF BastionInv, TypeOK
<1>4. WorkerInv' /\ EntriesInv' /\ FileInv'
  BY <1>2 DEF BastionInv, WorkerInv, EntriesInv, FileInv, Busy, Written
<1>5. QED
  BY <1>3, <1>4, Zenon DEF BastionInv

(* A change that is seen is queued.                                        *)
LEMMA WatchKeeps == ASSUME BastionInv, NEW t \in Tenants, Watch(t) PROVE BastionInv'
<1>1. /\ cache' = [cache EXCEPT ![t] = tenants[t]] /\ queue' = queue \cup {t}
      /\ UNCHANGED <<tenants, file, proc, torn, missed, faults, ops>>
  BY DEF Watch, ghosts
<1>2. cache' \in [Tenants -> TenantKeys] /\ \A u \in Tenants \ {t} : cache'[u] = cache[u]
  BY <1>1 DEF BastionInv, TypeOK
<1>3. TypeOK'
  BY <1>1, <1>2 DEF BastionInv, TypeOK
<1>4. WorkerInv'
  BY <1>1, <1>2 DEF BastionInv, WorkerInv
<1>5. EntriesInv'
  BY <1>1 DEF BastionInv, EntriesInv
<1>6. FileInv'
  <2>1. \A u \in Tenants : ~Busy(u)' => u # t /\ ~Busy(u) /\ cache'[u] = cache[u]
    BY <1>1, <1>2 DEF Busy
  <2>2. Written' = Written
    BY <1>1 DEF Written
  <2>3. QED
    BY <1>1, <2>1, <2>2 DEF BastionInv, FileInv
<1>7. QED
  BY <1>3, <1>4, <1>5, <1>6, Zenon DEF BastionInv

(* The operator starts again, with all Tenants in its queue; a deletion it *)
(* had yet to write is missed.                                             *)
LEMMA CrashKeeps == ASSUME BastionInv, Crash PROVE BastionInv'
<1>1. /\ proc' = Idle /\ cache' = tenants /\ queue' = {t \in Tenants : tenants[t] # Absent}
      /\ missed' = missed \cup {t \in Tenants : tenants[t] = Absent /\
                                  (cache[t] # Absent \/ t \in queue \/ proc.t = t)}
      /\ torn' = FALSE /\ UNCHANGED <<tenants, file, ops>>
  BY DEF Crash
<1>2. TypeOK'
  <2>1. faults' \in 0 .. MaxFaults
    BY FaultTyped DEF BastionInv, TypeOK, Crash
  <2>2. QED
    BY <1>1, <2>1, AbsentTyped DEF BastionInv, TypeOK
<1>3. WorkerInv' /\ EntriesInv'
  BY <1>1 DEF WorkerInv, EntriesInv, Idle
<1>4. FileInv'
  <2>1. Written' = file
    BY <1>1 DEF Written, Idle
  <2>2. ASSUME NEW t \in Tenants, ~Busy(t)', cache'[t] # Absent PROVE FALSE
    BY <1>1, <2>2 DEF Busy
  <2>3. ASSUME NEW t \in Tenants \ missed', cache'[t] = Absent PROVE Holds(file, t, Absent)
    <3>1. t \notin missed /\ ~Busy(t) /\ cache[t] = Absent
      BY <1>1, <2>3 DEF Busy
    <3>2. Holds(Written, t, Absent)
      BY <3>1 DEF BastionInv, FileInv
    <3>3. CASE proc.pc = "write"
      <4>1. file = <<>>
        BY <3>3 DEF BastionInv, EntriesInv
      <4>2. QED
        BY <4>1, EmptyHoldsNone
    <3>4. CASE proc.pc # "write"
      BY <3>2, <3>4 DEF Written
    <3>5. QED
      BY <3>3, <3>4
  <2>4. QED
    BY <2>1, <2>2, <2>3 DEF FileInv
<1>5. QED
  BY <1>2, <1>3, <1>4, Zenon DEF BastionInv

(* The worker takes a Tenant from the queue with the keys of the cache.    *)
LEMMA GetKeeps == ASSUME BastionInv, NEW t \in Tenants, Get(t) PROVE BastionInv'
<1>1. UNCHANGED <<tenants, cache, file, torn, missed, ops>> /\ proc = Idle
  BY DEF Get, ghosts
<1>2. CASE /\ proc' = [pc |-> "read", t |-> t, spec |-> cache[t], keys |-> <<>>]
           /\ queue' = queue \ {t} /\ UNCHANGED faults
  <2>1. cache[t] \in TenantKeys
    BY DEF BastionInv, TypeOK
  <2>2. TypeOK'
    BY <1>1, <1>2, <2>1 DEF BastionInv, TypeOK
  <2>3. WorkerInv' /\ EntriesInv'
    BY <1>1, <1>2 DEF WorkerInv, EntriesInv
  <2>4. Written' = file /\ Written = file
    BY <1>1, <1>2 DEF Written, Idle
  <2>5. \A u \in Tenants : ~Busy(u)' => ~Busy(u)
    BY <1>1, <1>2, BastionAssumption DEF Busy, Idle
  <2>6. FileInv'
    BY <1>1, <2>4, <2>5 DEF BastionInv, FileInv
  <2>7. QED
    BY <2>2, <2>3, <2>6, Zenon DEF BastionInv
<1>3. CASE Fault /\ UNCHANGED <<proc, queue>>
  <2>1. faults' \in 0 .. MaxFaults
    BY <1>3, FaultTyped DEF BastionInv, TypeOK
  <2>2. TypeOK'
    BY <1>1, <1>3, <2>1 DEF BastionInv, TypeOK
  <2>3. WorkerInv' /\ EntriesInv' /\ FileInv'
    BY <1>1, <1>3 DEF BastionInv, WorkerInv, EntriesInv, FileInv, Busy, Written
  <2>4. QED
    BY <2>2, <2>3, Zenon DEF BastionInv
<1>4. QED
  BY <1>2, <1>3 DEF Get

(* The worker composes its Tenant's keys with the entries of the file, or  *)
(* puts the Tenant back.                                                   *)
LEMMA ReadKeeps == ASSUME BastionInv, ReadFile PROVE BastionInv'
<1> DEFINE rest == decomposeAndPurgeEntries(file, proc.t)
           all == IF proc.spec = Absent THEN rest
                  ELSE composeAndMarkEntries(rest, proc.spec, proc.t)
<1>1. UNCHANGED <<tenants, cache, file, torn, missed, ops>> /\ proc.pc = "read"
  BY DEF ReadFile, ghosts
<1>2. proc.t \in Tenants /\ proc.spec \in TenantKeys /\ file \in Seq(Entry)
  BY <1>1 DEF BastionInv, TypeOK, WorkerInv
<1>3. CASE /\ proc' = [proc EXCEPT !.pc = "create", !.keys = all]
           /\ UNCHANGED <<queue, faults>>
  <2>1. /\ all \in Seq(Entry) /\ Holds(all, proc.t, proc.spec)
        /\ \A e \in Entry : e.id # proc.t => Count(all, e) = Count(file, e)
    BY <1>2, ReadComposes
  <2> HIDE DEF all
  <2>2. /\ proc'.pc = "create" /\ proc'.t = proc.t /\ proc'.spec = proc.spec /\ proc'.keys = all
        /\ proc' \in [pc : {"idle", "read", "create", "write"}, t : Tenants \cup {Nobody},
                      spec : TenantKeys, keys : Seq(Entry)]
    BY <1>3, <2>1 DEF BastionInv, TypeOK
  <2>3. TypeOK'
    BY <1>1, <1>3, <2>2 DEF BastionInv, TypeOK
  <2>4. WorkerInv'
    BY <1>1, <1>3, <2>2 DEF BastionInv, WorkerInv
  <2>5. EntriesInv'
    BY <1>1, <2>1, <2>2 DEF EntriesInv
  <2>6. Written' = file /\ Written = file
    BY <1>1, <2>2 DEF Written
  <2>7. \A u \in Tenants : Busy(u)' <=> Busy(u)
    BY <1>3, <2>2 DEF Busy
  <2>8. FileInv'
    BY <1>1, <2>6, <2>7 DEF BastionInv, FileInv
  <2>9. QED
    BY <2>3, <2>4, <2>5, <2>8, Zenon DEF BastionInv
<1>4. CASE Fault /\ proc' = Idle /\ queue' = queue \cup {proc.t}
  <2>1. faults' \in 0 .. MaxFaults
    BY <1>4, FaultTyped DEF BastionInv, TypeOK
  <2>2. TypeOK'
    BY <1>1, <1>2, <1>4, <2>1, AbsentTyped DEF BastionInv, TypeOK
  <2>3. WorkerInv' /\ EntriesInv'
    BY <1>4 DEF WorkerInv, EntriesInv, Idle
  <2>4. Written' = file /\ Written = file
    BY <1>1, <1>4 DEF Written, Idle
  <2>5. \A u \in Tenants : ~Busy(u)' => ~Busy(u)
    BY <1>4 DEF Busy
  <2>6. FileInv'
    BY <1>1, <2>4, <2>5 DEF BastionInv, FileInv
  <2>7. QED
    BY <2>2, <2>3, <2>6, Zenon DEF BastionInv
<1>5. QED
  BY <1>3, <1>4 DEF ReadFile

(* A write that fails leaves the other Tenants' deletions in the file, and *)
(* records its own.                                                        *)
LEMMA FailureKeeps ==
  ASSUME BastionInv, proc.pc \in {"create", "write"}, Fault, NotWritten, proc' = Idle,
         UNCHANGED <<tenants, cache, queue, ops>>, file' \in Seq(Entry),
         \A t \in Tenants \ {proc.t} : Holds(Written, t, Absent) => Holds(file', t, Absent)
  PROVE  BastionInv'
<1>1. torn' = TRUE /\ missed' = IF proc.spec = Absent THEN missed \cup {proc.t} ELSE missed
  BY DEF NotWritten
<1>2. proc.t \in Tenants /\ (proc.t \notin queue => proc.spec = cache[proc.t])
  BY DEF BastionInv, WorkerInv
<1>3. faults' \in 0 .. MaxFaults
  BY FaultTyped DEF BastionInv, TypeOK
<1>4. TypeOK'
  BY <1>1, <1>2, <1>3, AbsentTyped DEF BastionInv, TypeOK
<1>5. WorkerInv' /\ EntriesInv'
  BY DEF WorkerInv, EntriesInv, Idle
<1>6. ASSUME NEW t \in Tenants \ missed', ~Busy(t)', cache'[t] = Absent
      PROVE  Holds(file', t, Absent)
  <2>1. t \notin queue /\ cache[t] = Absent /\ t \notin missed
    BY <1>1, <1>6 DEF Busy
  <2>2. t # proc.t
    BY <1>1, <1>2, <1>6, <2>1
  <2>3. Holds(Written, t, Absent)
    BY <2>1, <2>2 DEF BastionInv, FileInv, Busy
  <2>4. QED
    BY <2>2, <2>3
<1>7. Written' = file'
  BY DEF Written, Idle
<1>8. FileInv'
  BY <1>1, <1>6, <1>7 DEF FileInv
<1>9. QED
  BY <1>4, <1>5, <1>8, Zenon DEF BastionInv

(* Emptying the file takes nothing from what will be in it.                *)
LEMMA CreateKeeps == ASSUME BastionInv, CreateFile PROVE BastionInv'
<1>1. proc.pc = "create" /\ UNCHANGED <<tenants, cache, queue, ops>>
  BY DEF CreateFile
<1>2. proc.t \in Tenants /\ file \in Seq(Entry)
  BY <1>1 DEF BastionInv, TypeOK, WorkerInv
<1>3. CASE file' = <<>> /\ proc' = [proc EXCEPT !.pc = "write"] /\ UNCHANGED <<faults, torn, missed>>
  <2>1. /\ proc'.pc = "write" /\ proc'.t = proc.t /\ proc'.spec = proc.spec /\ proc'.keys = proc.keys
        /\ proc' \in [pc : {"idle", "read", "create", "write"}, t : Tenants \cup {Nobody},
                      spec : TenantKeys, keys : Seq(Entry)]
    BY <1>3 DEF BastionInv, TypeOK
  <2>2. TypeOK'
    BY <1>1, <1>3, <2>1 DEF BastionInv, TypeOK
  <2>3. WorkerInv'
    BY <1>1, <2>1 DEF BastionInv, WorkerInv
  <2>4. EntriesInv'
    BY <1>1, <1>3, <2>1 DEF BastionInv, EntriesInv
  <2>5. Written' = proc.keys /\ Written = file
    BY <1>1, <2>1 DEF Written
  <2>6. \A u \in Tenants : Busy(u)' <=> Busy(u)
    BY <1>1, <2>1 DEF Busy
  <2>7. ASSUME NEW t \in Tenants, NEW list, t # proc.t, Holds(file, t, list)
        PROVE  Holds(proc.keys, t, list)
    <3>1. \A e \in Entry : e.id = t => Count(proc.keys, e) = Count(file, e)
      BY <1>1, <2>7 DEF BastionInv, EntriesInv
    <3>2. QED
      BY <2>7, <3>1, HoldsToo
  <2>8. FileInv'
    <3>1. \A t \in Tenants : ~Busy(t)' => ~Busy(t) /\ t # proc.t
      BY <2>6 DEF Busy
    <3>2. QED
      BY <1>1, <1>3, <2>5, <2>7, <3>1 DEF BastionInv, FileInv
  <2>9. QED
    BY <2>2, <2>3, <2>4, <2>8, Zenon DEF BastionInv
<1>4. CASE Fault /\ NotWritten /\ proc' = Idle /\ UNCHANGED file
  <2>1. Written = file
    BY <1>1 DEF Written
  <2>2. QED
    BY <1>1, <1>2, <1>4, <2>1, FailureKeeps
<1>5. QED
  BY <1>3, <1>4 DEF CreateFile, ghosts

(* The entries are in the file, or a part of them.                         *)
LEMMA WriteKeeps == ASSUME BastionInv, WriteFile PROVE BastionInv'
<1>1. proc.pc = "write" /\ proc' = Idle /\ UNCHANGED <<tenants, cache, queue, ops>>
  BY DEF WriteFile
<1>2. proc.t \in Tenants /\ (proc.t \notin queue => proc.spec = cache[proc.t])
  BY <1>1 DEF BastionInv, WorkerInv
<1>3. proc.keys \in Seq(Entry) /\ Written = proc.keys
  BY <1>1 DEF BastionInv, TypeOK, Written
<1>4. CASE file' = proc.keys /\ UNCHANGED <<torn, faults>> /\ missed' = missed \ {proc.t}
  <2>1. TypeOK'
    BY <1>1, <1>3, <1>4, AbsentTyped DEF BastionInv, TypeOK
  <2>2. WorkerInv' /\ EntriesInv'
    BY <1>1 DEF WorkerInv, EntriesInv, Idle
  <2>3. Written' = Written
    BY <1>1, <1>3, <1>4 DEF Written, Idle
  <2>4. ASSUME NEW t \in Tenants, ~Busy(t)', t = proc.t PROVE Holds(Written, t, cache[t])
    <3>1. t \notin queue
      BY <1>1, <2>4 DEF Busy
    <3>2. proc.spec = cache[t]
      BY <1>2, <2>4, <3>1
    <3>3. Holds(proc.keys, proc.t, proc.spec)
      BY <1>1 DEF BastionInv, EntriesInv
    <3>4. QED
      BY <1>3, <2>4, <3>2, <3>3
  <2>5. \A t \in Tenants : ~Busy(t)' /\ t # proc.t => ~Busy(t)
    BY <1>1 DEF Busy
  <2>6. FileInv'
    BY <1>1, <1>4, <2>3, <2>4, <2>5 DEF BastionInv, FileInv
  <2>7. QED
    BY <2>1, <2>2, <2>6, Zenon DEF BastionInv
<1>5. CASE Fault /\ NotWritten /\ file' \in Torn(proc.keys)
  <2>1. /\ file' \in Seq(Entry)
        /\ \A i \in 1 .. Len(file') : file'[i].id = Nobody \/ \E j \in 1 .. Len(proc.keys) : file'[i] = proc.keys[j]
    BY <1>3, <1>5, TornEntries
  <2>2. ASSUME NEW t \in Tenants, Holds(Written, t, Absent) PROVE Holds(file', t, Absent)
    <3>1. \A j \in 1 .. Len(proc.keys) : proc.keys[j].id # t
      BY <1>3, <2>2, HoldsNone
    <3>2. \A i \in 1 .. Len(file') : file'[i].id # t
      BY <2>1, <3>1, BastionAssumption
    <3>3. QED
      BY <2>1, <3>2, HoldsNone
  <2>3. QED
    BY <1>1, <1>5, <2>1, <2>2, FailureKeeps
<1>6. QED
  BY <1>4, <1>5 DEF WriteFile

(* The invariant holds in every state.                                     *)
LEMMA BastionInvariant == Spec => []BastionInv
<1>1. BastionInv /\ [Next]_vars => BastionInv'
  <2> SUFFICES ASSUME BastionInv, [Next]_vars PROVE BastionInv'
    OBVIOUS
  <2>1. CASE Next
    BY <2>1, EditKeeps, WatchKeeps, GetKeeps, CrashKeeps, ReadKeeps, CreateKeeps, WriteKeeps DEF Next
  <2>2. CASE UNCHANGED vars
    <3>1. UNCHANGED <<tenants, cache, file, queue, proc, torn, missed, faults, ops>>
      BY <2>2 DEF vars, ghosts
    <3>2. QED
      BY <3>1 DEF BastionInv, TypeOK, WorkerInv, EntriesInv, FileInv, Busy, Written
  <2>3. QED
    BY <2>1, <2>2
<1>2. QED
  BY <1>1, InitBastion, PTL DEF Spec

-----------------------------------------------------------------------------
(* For any Tenants, lists of keys, failures and crashes, the entries the   *)
(* bastion operator is about to write (helpers.go:66 and 85) are those of  *)
(* the file, with the entries of the reconciled Tenant replaced by its     *)
(* valid keys: the removal that swaps in the last entry neither loses nor  *)
(* doubles any other.                                                      *)
THEOREM RewriteIsExact == Spec => []WritesExactly
<1>1. BastionInv => WritesExactly
  BY DEF BastionInv, EntriesInv, WritesExactly
<1>2. QED
  BY <1>1, BastionInvariant, PTL

(* Once all events are handled the authorized_keys file holds exactly the  *)
(* valid keys of every Tenant and none of a deleted one, whatever crashes  *)
(* and failed reads came before, except after the two events the operator  *)
(* does not handle: a failed write and a deletion it missed                *)
(* (bastion_controller.go:86 and 97).                                      *)
THEOREM FileFollowsTenants == Spec => []FileHasKeys
<1>1. BastionInv => FileHasKeys
  <2> SUFFICES ASSUME BastionInv, Settled PROVE
          /\ ~torn => \A t \in Tenants : tenants[t] # Absent => Holds(file, t, tenants[t])
          /\ \A t \in Tenants \ missed : tenants[t] = Absent => Holds(file, t, Absent)
    BY DEF FileHasKeys
  <2>1. Written = file /\ cache = tenants /\ \A t \in Tenants : ~Busy(t)
    BY BastionAssumption DEF Settled, Written, Busy, Idle
  <2>2. QED
    BY <2>1 DEF BastionInv, FileInv
<1>2. QED
  BY <1>1, BastionInvariant, PTL

-----------------------------------------------------------------------------
(* The texts of the account page.                                          *)

(* A word of a text.                                                       *)
Word == Seq(Parts)

(* Concatenation, element by element.                                      *)
LEMMA Joined ==
  ASSUME NEW S, NEW a \in Seq(S), NEW b \in Seq(S)
  PROVE  /\ a \o b \in Seq(S) /\ Len(a \o b) = Len(a) + Len(b)
         /\ \A i \in 1 .. Len(a) : (a \o b)[i] = a[i]
         /\ \A i \in 1 .. Len(b) : (a \o b)[Len(a) + i] = b[i]
  OBVIOUS

(* Elements before and after one.                                          *)
LEMMA Inserted ==
  ASSUME NEW S, NEW a \in Seq(S), NEW x \in S, NEW c \in Seq(S)
  PROVE  LET all == a \o <<x>> \o c
         IN  /\ Len(all) = Len(a) + 1 + Len(c)
             /\ \A i \in 1 .. Len(a) : all[i] = a[i]
             /\ all[Len(a) + 1] = x
             /\ \A i \in 1 .. Len(c) : all[Len(a) + 1 + i] = c[i]
<1> DEFINE one == <<x>>
           b == a \o one
<1>1. one \in Seq(S) /\ Len(one) = 1 /\ one[1] = x
  OBVIOUS
<1>2. one \in Seq(S)
  BY <1>1
<1> HIDE DEF one
<1>3. /\ b \in Seq(S) /\ Len(b) = Len(a) + Len(one) /\ \A i \in 1 .. Len(a) : b[i] = a[i]
      /\ \A i \in 1 .. Len(one) : b[Len(a) + i] = one[i]
  BY <1>2, Joined
<1>4. b \in Seq(S) /\ Len(a) \in Nat /\ Len(c) \in Nat
  BY <1>3
<1>5. b[Len(a) + 1] = x /\ Len(b) = Len(a) + 1
  BY <1>1, <1>3, <1>4
<1> HIDE DEF b
<1>6. /\ b \o c \in Seq(S) /\ Len(b \o c) = Len(b) + Len(c) /\ \A i \in 1 .. Len(b) : (b \o c)[i] = b[i]
      /\ \A i \in 1 .. Len(c) : (b \o c)[Len(b) + i] = c[i]
  BY <1>4, Joined
<1>7. \A i \in 1 .. Len(a) : i \in 1 .. Len(b)
  BY <1>4, <1>5
<1>8. (b \o c)[Len(a) + 1] = x /\ \A i \in 1 .. Len(a) : (b \o c)[i] = a[i]
  <2>1. Len(a) + 1 \in 1 .. Len(b)
    BY <1>4, <1>5
  <2>2. QED
    BY <1>3, <1>5, <1>6, <1>7, <2>1
<1>9. QED
  BY <1>4, <1>5, <1>6, <1>8 DEF b, one

(* The first two of three.                                                 *)
LEMMA FirstTwo ==
  ASSUME NEW S, NEW s \in Seq(S), Len(s) = 3
  PROVE  LET two == SubSeq(s, 1, 2)
         IN  two \in Seq(S) /\ Len(two) = 2 /\ two[1] = s[1] /\ two[2] = s[2]
  OBVIOUS

(* The step of Sifted for the n-th word.                                   *)
Sift(kept, text, places, n) == IF n \in places THEN Append(kept, text[n]) ELSE kept

(* The function f is Sifted up to its n-th word.                           *)
IsSift(f, text, places, n) ==
  f = [m \in 0 .. n |-> IF m = 0 THEN <<>> ELSE Sift(f[m - 1], text, places, m)]

(* There is such a function for any number of words.                       *)
LEMMA SiftExists ==
  ASSUME NEW text, NEW places, NEW N \in Nat PROVE \E f : IsSift(f, text, places, N)
<1> DEFINE Bad == {k \in 0 .. N : ~ \E f : IsSift(f, text, places, k)}
<1> SUFFICES ASSUME Bad # {} PROVE FALSE
  OBVIOUS
<1>1. PICK k \in Bad : \A j \in Bad : k <= j
  <2>1. Bad \subseteq Nat
    OBVIOUS
  <2> HIDE DEF Bad
  <2>2. QED
    BY <2>1, Least
<1>2. k \in 0 .. N /\ ~ \E f : IsSift(f, text, places, k)
  BY <1>1
<1>3. k # 0
  <2>1. IsSift([n \in 0 .. 0 |-> <<>>], text, places, 0)
    BY DEF IsSift
  <2>2. QED
    BY <1>2, <2>1
<1>4. k - 1 \in 0 .. N /\ k - 1 \notin Bad
  BY <1>1, <1>2, <1>3
<1>5. PICK g : IsSift(g, text, places, k - 1)
  BY <1>4
<1> DEFINE h == [n \in 0 .. k |-> IF n = k THEN Sift(g[k - 1], text, places, k) ELSE g[n]]
<1>6. \A n \in 0 .. k : h[n] = IF n = 0 THEN <<>> ELSE Sift(h[n - 1], text, places, n)
  <2> TAKE n \in 0 .. k
  <2>1. CASE n = k
    BY <1>2, <1>3, <2>1
  <2>2. CASE n # k
    <3>1. n \in 0 .. k - 1
      BY <1>2, <2>2
    <3>2. g[n] = IF n = 0 THEN <<>> ELSE Sift(g[n - 1], text, places, n)
      BY <1>5, <3>1 DEF IsSift
    <3>3. QED
      BY <1>2, <2>2, <3>1, <3>2
  <2>3. QED
    BY <2>1, <2>2
<1>7. IsSift(h, text, places, k)
  <2>1. h = [n \in 0 .. k |-> h[n]]
    OBVIOUS
  <2> HIDE DEF h
  <2>2. QED
    BY <1>6, <2>1 DEF IsSift
<1>8. QED
  BY <1>2, <1>7

(* After n words: words that are kept from the start stay where they are,  *)
(* and the n-th word, if it is kept, is the last one.                      *)
SiftInv(kept, text, places, n) ==
  /\ kept \in Seq(Word)
  /\ n >= 1 /\ 1 \in places => Len(kept) >= 1 /\ kept[1] = text[1]
  /\ n >= 2 /\ {1, 2} \subseteq places => Len(kept) >= 2 /\ kept[2] = text[2]
  /\ n = 1 /\ 1 \in places => Len(kept) = 1
  /\ n >= 1 /\ n \in places => Len(kept) >= 1 /\ kept[Len(kept)] = text[n]

(* One word keeps that.                                                    *)
LEMMA SiftStep ==
  ASSUME NEW text \in Seq(Word), NEW places, NEW n \in 1 .. Len(text), NEW kept,
         SiftInv(kept, text, places, n - 1), n = 1 => kept = <<>>
  PROVE  SiftInv(Sift(kept, text, places, n), text, places, n)
<1>1. kept \in Seq(Word) /\ text[n] \in Word
  BY DEF SiftInv
<1>2. CASE n \notin places
  BY <1>1, <1>2 DEF SiftInv, Sift
<1>3. CASE n \in places
  <2> DEFINE new == Append(kept, text[n])
  <2>1. /\ Sift(kept, text, places, n) = new /\ new \in Seq(Word)
        /\ Len(new) = Len(kept) + 1 /\ new[Len(new)] = text[n] /\ Len(kept) \in Nat
        /\ \A i \in 1 .. Len(kept) : new[i] = kept[i]
    BY <1>1, <1>3 DEF Sift
  <2> HIDE DEF new
  <2>2. CASE n = 1
    <3>1. Len(new) = 1 /\ new[1] = text[1]
      BY <2>1, <2>2
    <3>2. QED
      BY <2>1, <2>2, <3>1 DEF SiftInv
  <2>3. CASE n = 2
    <3>1. 1 \in places => Len(kept) = 1 /\ kept[1] = text[1]
      BY <2>3 DEF SiftInv
    <3>2. ASSUME 1 \in places PROVE Len(new) = 2 /\ new[1] = text[1] /\ new[2] = text[2]
      <4>1. Len(kept) = 1 /\ kept[1] = text[1]
        BY <3>1, <3>2
      <4>2. Len(new) = 2
        BY <2>1, <4>1
      <4>3. new[1] = kept[1]
        BY <2>1, <4>1
      <4>4. QED
        BY <2>1, <2>3, <4>1, <4>2, <4>3
    <3>3. QED
      BY <2>1, <2>3, <3>2 DEF SiftInv
  <2>4. CASE n > 2
    <3>1. 1 \in places => Len(kept) >= 1 /\ kept[1] = text[1]
      BY <2>4 DEF SiftInv
    <3>2. {1, 2} \subseteq places => Len(kept) >= 2 /\ kept[2] = text[2]
      BY <2>4 DEF SiftInv
    <3>3. 1 \in places => Len(new) >= 1 /\ new[1] = text[1]
      BY <2>1, <3>1
    <3>4. {1, 2} \subseteq places => Len(new) >= 2 /\ new[2] = text[2]
      BY <2>1, <3>2
    <3>5. QED
      BY <2>1, <2>4, <3>3, <3>4 DEF SiftInv
  <2>5. QED
    BY <2>2, <2>3, <2>4
<1>4. QED
  BY <1>2, <1>3

(* Sifted keeps the first words where they are and the last one last.      *)
LEMMA SiftedEnds ==
  ASSUME NEW text \in Seq(Word), NEW places
  PROVE  SiftInv(Sifted(text, places), text, places, Len(text))
<1> DEFINE f == CHOOSE g : IsSift(g, text, places, Len(text))
<1>1. IsSift(f, text, places, Len(text))
  <2>1. Len(text) \in Nat
    OBVIOUS
  <2>2. \E g : IsSift(g, text, places, Len(text))
    BY <2>1, SiftExists
  <2>3. QED
    BY <2>2
<1>2. Sifted(text, places) = f[Len(text)]
  BY DEF Sifted, IsSift, Sift
<1> HIDE DEF f
<1> DEFINE Bad == {n \in 0 .. Len(text) : ~SiftInv(f[n], text, places, n)}
<1>3. Bad = {}
  <2> SUFFICES ASSUME Bad # {} PROVE FALSE
    OBVIOUS
  <2>1. PICK n \in Bad : \A j \in Bad : n <= j
    <3>1. Bad \subseteq Nat
      OBVIOUS
    <3> HIDE DEF Bad
    <3>2. QED
      BY <3>1, Least
  <2>2. n \in 0 .. Len(text) /\ ~SiftInv(f[n], text, places, n)
    BY <2>1
  <2>3. \A m \in 0 .. Len(text) : f[m] = IF m = 0 THEN <<>> ELSE Sift(f[m - 1], text, places, m)
    BY <1>1 DEF IsSift
  <2>4. n # 0
    <3>1. SiftInv(<<>>, text, places, 0)
      BY DEF SiftInv
    <3>2. QED
      BY <2>2, <2>3, <3>1
  <2>5. n \in 1 .. Len(text) /\ n - 1 \in 0 .. Len(text) /\ n - 1 \notin Bad
    BY <2>1, <2>2, <2>4
  <2>6. SiftInv(f[n - 1], text, places, n - 1) /\ (n = 1 => f[n - 1] = <<>>)
    BY <2>3, <2>5
  <2>7. f[n] = Sift(f[n - 1], text, places, n)
    BY <2>3, <2>5
  <2>8. QED
    BY <2>2, <2>5, <2>6, <2>7, SiftStep
<1>4. QED
  BY <1>2, <1>3

(* What a reversed sequence consists of.                                   *)
LEMMA Reversed ==
  ASSUME NEW S, NEW s \in Seq(S)
  PROVE  /\ Reverse(s) \in Seq(S) /\ Len(Reverse(s)) = Len(s)
         /\ \A i \in 1 .. Len(s) : Reverse(s)[i] = s[Len(s) - i + 1]
<1>1. Reverse(s) = [i \in 1 .. Len(s) |-> s[Len(s) - i + 1]]
  BY DEF Reverse
<1>2. \A i \in 1 .. Len(s) : Len(s) - i + 1 \in 1 .. Len(s)
  OBVIOUS
<1>3. QED
  BY <1>1, <1>2

(* A word is a suffix of itself, and of what it is appended to.            *)
LEMMA SuffixOfOwn ==
  ASSUME NEW S, NEW a \in Seq(S), NEW w \in Seq(S)
  PROVE  IsSuffix(w, w) /\ IsSuffix(w, a \o w)
<1> DEFINE ww == Reverse(w)  b == a \o w  bb == Reverse(b)  n == Len(w)  m == Len(a)
<1>1. n \in Nat /\ m \in Nat
  OBVIOUS
<1>2. b \in Seq(S) /\ Len(b) = m + n /\ \A i \in 1 .. n : b[m + i] = w[i]
  BY Joined
<1>3. ww \in Seq(S) /\ Len(ww) = n /\ \A i \in 1 .. n : ww[i] = w[n - i + 1]
  BY Reversed
<1>4. bb \in Seq(S) /\ Len(bb) = Len(b) /\ \A i \in 1 .. Len(b) : bb[i] = b[Len(b) - i + 1]
  BY <1>2, Reversed
<1> HIDE DEF ww, b, bb, n, m
<1>5. ASSUME NEW i \in 1 .. n PROVE bb[i] = ww[i]
  <2>1. n - i + 1 \in 1 .. n /\ i \in 1 .. m + n /\ m + n - i + 1 = m + (n - i + 1)
    BY <1>1
  <2>2. bb[i] = b[m + (n - i + 1)]
    <3>1. bb[i] = b[Len(b) - i + 1]
      BY <1>2, <1>4, <2>1
    <3>2. Len(b) - i + 1 = m + (n - i + 1)
      BY <1>1, <1>2, <2>1
    <3>3. QED
      BY <3>1, <3>2
  <2>3. QED
    BY <1>2, <1>3, <2>1, <2>2
<1>6. SubSeq(bb, 1, n) = SubSeq(ww, 1, n)
  <2>1. SubSeq(bb, 1, n) = [i \in 1 .. n |-> bb[i]] /\ SubSeq(ww, 1, n) = [i \in 1 .. n |-> ww[i]]
    BY <1>1, <1>2, <1>3, <1>4
  <2>2. QED
    BY <1>5, <2>1
<1>7. IsPrefix(ww, bb) /\ IsPrefix(ww, ww)
  BY <1>1, <1>2, <1>3, <1>4, <1>6 DEF IsPrefix
<1>8. QED
  BY <1>7 DEF IsSuffix, ww, bb, b

(* A name without white space around it is a text.                         *)
LEMMA TrimIsText ==
  ASSUME NEW text \in Seq(Word)
  PROVE  Trim(text) \in Seq(Word) /\ Len(Trim(text)) >= 1
<1> DEFINE words == Sifted(text, NotEmpty(text))
<1>1. words \in Seq(Word)
  BY SiftedEnds DEF SiftInv
<1> HIDE DEF words
<1>2. Trim(text) = IF words = <<>> THEN << <<>> >> ELSE words
  BY DEF Trim, words
<1>3. << <<>> >> \in Seq(Word) /\ Len(<< <<>> >>) = 1
  BY DEF Word
<1>4. ASSUME words # <<>> PROVE Len(words) >= 1
  BY <1>1, <1>4
<1>5. QED
  BY <1>1, <1>2, <1>3, <1>4

(* A name with a space before it leaves algorithm and body of the key as   *)
(* they are, and ends what is saved.                                       *)
LEMMA SpacedWhole ==
  ASSUME NEW key \in Seq(Word), NEW name \in Seq(Word),
         Len(key) \in {2, 3}, key[2] # <<>>, Len(name) >= 1
  PROVE  /\ Spaced(key, name)[1] = key[1] /\ Spaced(key, name)[2] = key[2]
         /\ Last(Spaced(key, name)) = Last(name)
<1> DEFINE both == key \o name  n == Len(both)  places == NotEmpty(both) \union {1, n}
           kept == Sifted(both, places)
<1>1. both \in Seq(Word) /\ n >= 3 /\ n \in Nat
  OBVIOUS
<1>2. both[1] = key[1] /\ both[2] = key[2]
  OBVIOUS
<1>3. both[n] = name[Len(name)]
  OBVIOUS
<1>4. Spaced(key, name) = kept
  BY DEF Spaced
<1>5. SiftInv(kept, both, places, n)
  BY <1>1, SiftedEnds
<1>6. {1, 2} \subseteq places /\ n \in places
  BY <1>1, <1>2 DEF NotEmpty
<1> HIDE DEF both, n, places, kept
<1>7. kept[1] = both[1] /\ kept[2] = both[2] /\ kept[Len(kept)] = both[n]
  BY <1>1, <1>5, <1>6 DEF SiftInv
<1>8. QED
  BY <1>2, <1>3, <1>4, <1>7 DEF Last

(* So does a name with a colon before it, appended to the comment.         *)
LEMMA ColonedWhole ==
  ASSUME NEW key \in Seq(Word), NEW name \in Seq(Word), Len(key) = 3, Len(name) >= 1
  PROVE  /\ Coloned(key, name)[1] = key[1] /\ Coloned(key, name)[2] = key[2]
         /\ IsSuffix(Last(name), Last(Coloned(key, name)))
<1> DEFINE word == Last(key) \o <<":">> \o Head(name)
           start == Front(key)  end == Tail(name)
           all == start \o <<word>> \o end
<1>1. start \in Seq(Word) /\ Len(start) = 2 /\ start[1] = key[1] /\ start[2] = key[2]
  <2>1. start = SubSeq(key, 1, 2)
    BY DEF Front
  <2>2. QED
    BY <2>1, FirstTwo
<1>2. Last(key) \o <<":">> \in Word /\ Head(name) \in Word /\ Head(name) = name[1]
  <2>1. key[3] \in Word /\ Last(key) = key[3]
    BY DEF Last
  <2>2. <<":">> \in Word
    BY AccountAssumption DEF Word
  <2>3. Last(key) \o <<":">> \in Word
    BY <2>1, <2>2 DEF Word
  <2>4. name # <<>>
    OBVIOUS
  <2>5. QED
    BY <2>3, <2>4
<1>3. word \in Word /\ IsSuffix(Head(name), word)
  <2> DEFINE a == Last(key) \o <<":">>
  <2>1. a \in Word
    BY <1>2
  <2> HIDE DEF a
  <2>2. a \o Head(name) \in Word /\ IsSuffix(Head(name), a \o Head(name))
    BY <1>2, <2>1, SuffixOfOwn, Joined DEF Word
  <2>3. QED
    BY <2>2 DEF a
<1>4. end \in Seq(Word) /\ Len(end) = Len(name) - 1 /\ \A i \in 1 .. Len(end) : end[i] = name[i + 1]
  OBVIOUS
<1>5. Coloned(key, name) = all
  BY DEF Coloned
<1> HIDE DEF word, start, end
<1>6. /\ Len(all) = Len(start) + 1 + Len(end) /\ \A i \in 1 .. Len(start) : all[i] = start[i]
      /\ all[Len(start) + 1] = word /\ \A i \in 1 .. Len(end) : all[Len(start) + 1 + i] = end[i]
  <2>1. start \in Seq(Word) /\ end \in Seq(Word) /\ word \in Word
    BY <1>1, <1>3, <1>4
  <2>2. QED
    BY <2>1, Inserted
<1>7. /\ Len(all) = 3 + Len(end) /\ all[1] = key[1] /\ all[2] = key[2] /\ all[3] = word
      /\ \A i \in 1 .. Len(end) : all[3 + i] = end[i]
  <2> HIDE DEF all
  <2>1. Len(end) \in Nat
    BY <1>4
  <2>2. QED
    BY <1>1, <1>6, <2>1
<1> HIDE DEF all
<1>8. CASE Len(name) = 1
  BY <1>2, <1>3, <1>4, <1>5, <1>7, <1>8 DEF Last
<1>9. CASE Len(name) # 1
  <2>1. Len(end) \in Nat \ {0} /\ Len(name) \in Nat
    BY <1>4, <1>9
  <2>2. Last(all) = Last(name)
    <3>1. Len(end) \in 1 .. Len(end)
      BY <2>1
    <3>2. all[3 + Len(end)] = end[Len(end)] /\ end[Len(end)] = name[Len(end) + 1]
      BY <1>4, <1>7, <3>1
    <3>3. Len(end) + 1 = Len(name) /\ Len(all) = 3 + Len(end)
      BY <1>4, <1>7, <2>1
    <3>4. QED
      BY <3>2, <3>3 DEF Last
  <2>3. Last(name) \in Word
    BY <2>1 DEF Last
  <2>4. QED
    BY <1>5, <1>7, <2>2, <2>3, SuffixOfOwn DEF Word
<1>10. QED
  BY <1>8, <1>9

(* What SavedKeysAreWhole says of one key.                                 *)
Whole(saved) ==
  /\ saved.key[1] \in acceptedAlgorithms
  /\ \E key \in KeyTexts : key # << <<>> >> /\ Len(key) >= 2 /\ saved.key[2] = key[2]
  /\ saved.key[2] # <<>>
  /\ Last(saved.name) # <<>> => IsSuffix(Last(saved.name), Last(saved.key))

(* What is typed comes from the texts, and what was saved is whole.        *)
AccountInv ==
  /\ fields \in [name : NameTexts \union {Undefined}, key : KeyTexts \union {Undefined}]
  /\ \A saved \in savedKeys : Whole(saved)

(* A form that passes the rules is submitted as a whole key.               *)
LEMMA SubmittedIsWhole == ASSUME AccountInv, Rules(fields) PROVE Whole(Submitted(fields))
<1> DEFINE key == fields.key  name == Trim(fields.name)
<1>1. key \in KeyTexts /\ key # << <<>> >> /\ fields.name \in NameTexts
  BY DEF AccountInv, Rules, ValidKey, Truthy
<1>2. Len(key) \in {2, 3} /\ key[2] # <<>> /\ key[1] \in acceptedAlgorithms
  BY DEF Rules, ValidKey
<1>3. key \in Seq(Word) /\ fields.name \in Seq(Word)
  BY <1>1, AccountAssumption DEF Word
<1>4. name \in Seq(Word) /\ Len(name) >= 1
  BY <1>3, TrimIsText
<1> HIDE DEF name, key
<1>5. Last(name) \in Word
  BY <1>4 DEF Last
<1>6. IsSuffix(Last(name), Last(name))
  BY <1>5, SuffixOfOwn DEF Word
<1> DEFINE commented == Len(key) = 3 /\ key[3] # <<>>
           new == IF commented THEN Coloned(key, name) ELSE Spaced(key, name)
<1>7. Submitted(fields) = [name |-> name, key |-> new]
  BY DEF Submitted, name, key
<1>8. new[1] = key[1] /\ new[2] = key[2] /\ IsSuffix(Last(name), Last(new))
  <2>1. CASE commented
    BY <1>3, <1>4, <2>1, ColonedWhole
  <2>2. CASE ~commented
    <3>1. new = Spaced(key, name)
      BY <2>2
    <3> HIDE DEF new, commented
    <3>2. QED
      BY <1>2, <1>3, <1>4, <1>6, <3>1, SpacedWhole
  <2>3. QED
    BY <2>1, <2>2
<1> HIDE DEF new
<1>9. Len(key) >= 2
  BY <1>2
<1>10. QED
  BY <1>1, <1>2, <1>7, <1>8, <1>9 DEF Whole

(* Every event of the form keeps that.                                     *)
LEMMA AccountStep == AccountInv /\ [AccountNext]_accountVars => AccountInv'
<1> SUFFICES ASSUME AccountInv, [AccountNext]_accountVars PROVE AccountInv'
  OBVIOUS
<1>1. Untouched \in [name : NameTexts \union {Undefined}, key : KeyTexts \union {Undefined}]
  BY DEF Untouched
<1>2. CASE AddKey
  BY <1>2 DEF AddKey, AccountInv, Whole
<1>3. ASSUME NEW text \in NameTexts, Change("name", text) PROVE AccountInv'
  BY <1>3 DEF Change, AccountInv, Whole
<1>4. ASSUME NEW text \in KeyTexts, Change("key", text) PROVE AccountInv'
  BY <1>4 DEF Change, AccountInv, Whole
<1>5. CASE CancelForm
  BY <1>1, <1>5 DEF CancelForm, AccountInv, Whole
<1>6. CASE CloseModal
  BY <1>6 DEF CloseModal, AccountInv, Whole
<1>7. CASE Save
  <2>1. Whole(Submitted(fields))
    BY <1>7, SubmittedIsWhole DEF Save
  <2>2. savedKeys' = savedKeys \union {Submitted(fields)} /\ fields' = Untouched
    BY <1>7 DEF Save
  <2>3. \A saved \in savedKeys' : Whole(saved)
    BY <2>1, <2>2 DEF AccountInv
  <2>4. QED
    BY <1>1, <2>2, <2>3 DEF AccountInv, Whole
<1>8. CASE UNCHANGED accountVars
  BY <1>8 DEF accountVars, AccountInv, Whole
<1>9. QED
  BY <1>2, <1>3, <1>4, <1>5, <1>6, <1>7, <1>8 DEF AccountNext

(* For any names, keys and algorithms, and after any typing, clearing and  *)
(* cancelling, a key handed to onSaveKey (SSHKeysForm.tsx:54) has an       *)
(* accepted algorithm, the body as it was typed and the name at its end.   *)
THEOREM SavedIsWhole == AccountSpec => []SavedKeysAreWhole
<1>1. AccountInit => AccountInv
  BY DEF AccountInit, AccountInv, Untouched
<1>2. AccountInv => SavedKeysAreWhole
  BY DEF AccountInv, SavedKeysAreWhole, Whole
<1>3. QED
  BY <1>1, <1>2, AccountStep, PTL DEF AccountSpec
=============================================================================
