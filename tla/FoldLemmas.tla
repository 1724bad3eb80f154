----------------------------- MODULE FoldLemmas -----------------------------
(***************************************************************************)
(* Lemmas that the theorems about modules of handlers share: about the     *)
(* greatest of some positions of the ledger, at which a fold finds the     *)
(* state of a thing; about lists, such as the ledger and the calls that a  *)
(* handler has yet to make; about the members of a set by increasing key;  *)
(* and about counting records of two kinds.                                *)
(***************************************************************************)
EXTENDS Integers, Sequences, FiniteSetsExt, WellFoundedInduction, FiniteSetTheorems,
        FunctionTheorems, TLAPS

LEMMA MinIsLeast ==
    ASSUME NEW S \in SUBSET Nat, S # {}
    PROVE  Min(S) \in S /\ \A k \in S : Min(S) <= k
<1> DEFINE less == {xy \in Nat \X Nat : xy[1] < xy[2]}
<1>1. IsWellFoundedOn(less, Nat)
    <2>1. OpToRel(<, Nat) = less
        BY Zenon DEF OpToRel
    <2>2. QED BY <2>1, NatLessThanWellFounded, Zenon
<1>2. PICK x \in S : \A y \in S : <<y, x>> \notin less
    BY <1>1, WFMin, Zenon
<1>3. ASSUME NEW y \in S PROVE x <= y
    <2>1. y < x => <<y, x>> \in less
        OBVIOUS
    <2> HIDE DEF less
    <2>2. QED BY <1>2, <2>1
<1>4. QED BY <1>3 DEF Min

LEMMA MaxIsGreatest ==
    ASSUME NEW n \in Nat, NEW S \in SUBSET (0..n), S # {}
    PROVE  Max(S) \in S /\ \A k \in S : k <= Max(S)
<1> DEFINE gaps == {n - k : k \in S}
<1>1. gaps \in SUBSET Nat
    OBVIOUS
<1>2. gaps # {}
    <2>1. PICK k \in S : TRUE
        OBVIOUS
    <2>2. n - k \in gaps
        BY <2>1
    <2>3. QED BY <2>2
<1>3. PICK g \in gaps : \A y \in gaps : g <= y
    <2> HIDE DEF gaps
    <2>1. QED BY <1>1, <1>2, MinIsLeast
<1>4. PICK m \in S : g = n - m
    BY <1>3
<1>5. \A k \in S : k <= m
    BY <1>3, <1>4
<1>6. QED BY <1>5 DEF Max

LEMMA SeqGrows == ASSUME NEW S, NEW T, S \subseteq T PROVE Seq(S) \subseteq Seq(T)
OBVIOUS
-----------------------------------------------------------------------------
(* Lists whose elements are of no one set: ledgers and calls.              *)

IsSequence(s) == \E S : s \in Seq(S)

LEMMA Appended ==
    ASSUME NEW s, IsSequence(s), NEW e
    PROVE  /\ IsSequence(Append(s, e)) /\ Len(s) \in Nat /\ Len(Append(s, e)) = Len(s) + 1
           /\ \A k \in 1..Len(s) : Append(s, e)[k] = s[k]
           /\ Append(s, e)[Len(s) + 1] = e
<1>1. PICK S : s \in Seq(S)
    BY DEF IsSequence
<1>2. s \in Seq(S \cup {e})
    BY <1>1
<1>3. Append(s, e) \in Seq(S \cup {e})
    BY <1>2
<1>4. QED BY <1>1, <1>3 DEF IsSequence

LEMMA NoElement == IsSequence(<<>>) /\ Len(<<>>) = 0 /\ 1..Len(<<>>) = {}
<1>1. <<>> \in Seq({})
    OBVIOUS
<1>2. IsSequence(<<>>)
    BY <1>1, Zenon DEF IsSequence
<1>3. QED BY <1>2

LEMMA OneElement == ASSUME NEW c PROVE IsSequence(<<c>>) /\ Len(<<c>>) = 1 /\ <<c>>[1] = c
<1>1. <<c>> \in Seq({c})
    OBVIOUS
<1>2. IsSequence(<<c>>)
    BY <1>1, Zenon DEF IsSequence
<1>3. QED BY <1>2

LEMMA TwoElements ==
    ASSUME NEW c, NEW d
    PROVE  IsSequence(<<c, d>>) /\ Len(<<c, d>>) = 2 /\ <<c, d>>[1] = c /\ <<c, d>>[2] = d
<1>1. <<c, d>> \in Seq({c, d})
    OBVIOUS
<1>2. IsSequence(<<c, d>>)
    BY <1>1, Zenon DEF IsSequence
<1>3. QED BY <1>2

LEMMA HeadAndTail ==
    ASSUME NEW s, IsSequence(s), s # <<>>
    PROVE  /\ Head(s) = s[1] /\ Len(s) \in Nat \ {0}
           /\ IsSequence(Tail(s)) /\ Len(Tail(s)) = Len(s) - 1
           /\ \A k \in 1..Len(Tail(s)) : k + 1 \in 2..Len(s) /\ Tail(s)[k] = s[k + 1]
<1>1. PICK S : s \in Seq(S)
    BY DEF IsSequence
<1>2. /\ Tail(s) \in Seq(S) /\ Head(s) = s[1] /\ Len(s) \in Nat \ {0}
      /\ Len(Tail(s)) = Len(s) - 1 /\ \A k \in 1..Len(Tail(s)) : Tail(s)[k] = s[k + 1]
    BY <1>1
<1>3. \A k \in 1..Len(Tail(s)) : k + 1 \in 2..Len(s)
    BY <1>2
<1>4. QED BY <1>2, <1>3 DEF IsSequence

LEMMA Concatenated ==
    ASSUME NEW s, NEW t, IsSequence(s), IsSequence(t)
    PROVE  /\ IsSequence(s \o t) /\ Len(s) \in Nat /\ Len(t) \in Nat
           /\ Len(s \o t) = Len(s) + Len(t)
           /\ \A k \in 1..Len(s) : (s \o t)[k] = s[k]
           /\ \A k \in Len(s) + 1..Len(s \o t) : k - Len(s) \in 1..Len(t) /\ (s \o t)[k] = t[k - Len(s)]
<1>1. PICK S : s \in Seq(S)
    BY DEF IsSequence
<1>2. PICK T : t \in Seq(T)
    BY DEF IsSequence
<1>3. s \in Seq(S \cup T) /\ t \in Seq(S \cup T)
    BY <1>1, <1>2
<1>4. s \o t \in Seq(S \cup T)
    BY <1>3
<1>5. QED BY <1>3, <1>4 DEF IsSequence

(* What is built element by element.                                       *)
LEMMA BuiltCalls ==
    ASSUME NEW n \in Nat, NEW calls, calls = [k \in 1..n |-> calls[k]]
    PROVE  IsSequence(calls) /\ Len(calls) = n
<1> DEFINE S == {calls[k] : k \in 1..n}
<1>1. calls \in [1..n -> S]
    OBVIOUS
<1>2. calls \in Seq(S) /\ Len(calls) = n
    <2> HIDE DEF S
    <2>1. QED BY <1>1
<1>3. QED BY <1>2 DEF IsSequence

\* What is in a list.
Listed(s) == {s[k] : k \in 1..Len(s)}

LEMMA JoinedList ==
    ASSUME NEW s, NEW t, IsSequence(s), IsSequence(t)
    PROVE  IsSequence(s \o t) /\ Listed(s \o t) = Listed(s) \cup Listed(t)
<1> DEFINE l == s \o t
<1>1. /\ IsSequence(l) /\ Len(s) \in Nat /\ Len(t) \in Nat /\ Len(l) = Len(s) + Len(t)
      /\ \A k \in 1..Len(s) : l[k] = s[k]
      /\ \A k \in Len(s) + 1..Len(l) : k - Len(s) \in 1..Len(t) /\ l[k] = t[k - Len(s)]
    BY Concatenated
<1> HIDE DEF l
<1>2. \A k \in 1..Len(t) : k + Len(s) \in Len(s) + 1..Len(l) /\ l[k + Len(s)] = t[k]
    BY <1>1
<1>3. 1..Len(l) = (1..Len(s)) \cup (Len(s) + 1..Len(l))
    BY <1>1
<1>4. ASSUME NEW x PROVE x \in Listed(l) <=> x \in Listed(s) \cup Listed(t)
    <2>1. ASSUME NEW k \in 1..Len(l), x = l[k] PROVE x \in Listed(s) \cup Listed(t)
        BY <1>1, <1>3, <2>1 DEF Listed
    <2>2. ASSUME NEW k \in 1..Len(s), x = s[k] PROVE x \in Listed(l)
        BY <1>1, <1>3, <2>2 DEF Listed
    <2>3. ASSUME NEW k \in 1..Len(t), x = t[k] PROVE x \in Listed(l)
        BY <1>2, <1>3, <2>3 DEF Listed
    <2>4. QED BY <2>1, <2>2, <2>3 DEF Listed
<1>5. QED BY <1>1, <1>4 DEF l

\* A list with x, or without.
If(cond, x) == IF cond THEN <<x>> ELSE <<>>

LEMMA ListedIf ==
    ASSUME NEW cond, NEW x
    PROVE  IsSequence(If(cond, x)) /\ Listed(If(cond, x)) = {y \in {x} : cond}
<1>1. CASE cond
    <2> DEFINE one == <<x>>
    <2>1. IsSequence(one) /\ 1..Len(one) = {1} /\ one[1] = x
        BY OneElement
    <2> HIDE DEF one
    <2>2. IsSequence(one) /\ Listed(one) = {x}
        BY <2>1 DEF Listed
    <2>3. If(cond, x) = one
        BY <1>1 DEF If, one
    <2>4. QED BY <1>1, <2>2, <2>3
<1>2. CASE ~cond
    <2> DEFINE none == <<>>
    <2>1. IsSequence(none) /\ 1..Len(none) = {}
        BY NoElement
    <2> HIDE DEF none
    <2>2. IsSequence(none) /\ Listed(none) = {}
        BY <2>1 DEF Listed
    <2>3. If(cond, x) = none
        BY <1>2 DEF If, none
    <2>4. QED BY <1>2, <2>2, <2>3
<1>3. QED BY <1>1, <1>2

LEMMA JoinedHead ==
    ASSUME NEW s, NEW t, IsSequence(s), IsSequence(t)
    PROVE  /\ Len(s) # 0 => s \o t # <<>> /\ Head(s \o t) = s[1]
           /\ Len(s) = 0 => s \o t = t
<1> DEFINE l == s \o t
<1>1. /\ IsSequence(l) /\ Len(l) = Len(s) + Len(t) /\ Len(s) \in Nat /\ Len(t) \in Nat
      /\ \A k \in 1..Len(s) : l[k] = s[k]
    BY Concatenated
<1> HIDE DEF l
<1>2. ASSUME Len(s) # 0 PROVE l # <<>> /\ Head(l) = s[1]
    <2>1. Len(l) # 0 /\ l[1] = s[1]
        BY <1>1, <1>2
    <2>2. l # <<>>
        BY <2>1, NoElement
    <2>3. QED BY <1>1, <2>1, <2>2, HeadAndTail
<1>3. ASSUME Len(s) = 0 PROVE s \o t = t
    <2>1. PICK S : s \in Seq(S)
        BY DEF IsSequence
    <2>2. PICK T : t \in Seq(T)
        BY DEF IsSequence
    <2>3. QED BY <1>3, <2>1, <2>2
<1>4. QED BY <1>2, <1>3 DEF l

\* A ledger before its event i.
UpTo(evs, i) == SubSeq(evs, 1, i - 1)

LEMMA PrefixStays ==
    ASSUME NEW evs, IsSequence(evs), NEW e
    PROVE  /\ \A i \in 1..Len(evs) : UpTo(Append(evs, e), i) = UpTo(evs, i)
           /\ UpTo(Append(evs, e), Len(evs) + 1) = evs
<1>1. PICK S : evs \in Seq(S)
    BY DEF IsSequence
<1>2. evs \in Seq(S \cup {e}) /\ Append(evs, e) \in Seq(S \cup {e})
    BY <1>1
<1>3. ASSUME NEW i \in 1..Len(evs) + 1
      PROVE  /\ Len(UpTo(Append(evs, e), i)) = i - 1
             /\ UpTo(Append(evs, e), i) \in Seq(S \cup {e})
             /\ \A k \in 1..i - 1 : UpTo(Append(evs, e), i)[k] = evs[k]
    BY <1>2, <1>3 DEF UpTo
<1>4. ASSUME NEW i \in 1..Len(evs) PROVE UpTo(Append(evs, e), i) = UpTo(evs, i)
    <2>1. /\ Len(UpTo(evs, i)) = i - 1 /\ UpTo(evs, i) \in Seq(S \cup {e})
          /\ \A k \in 1..i - 1 : UpTo(evs, i)[k] = evs[k]
        BY <1>2 DEF UpTo
    <2>2. i \in 1..Len(evs) + 1
        BY <1>1
    <2> HIDE DEF UpTo
    <2>3. QED BY <1>3, <2>1, <2>2
<1>5. UpTo(Append(evs, e), Len(evs) + 1) = evs
    <2> DEFINE n == Len(evs) + 1
               l == UpTo(Append(evs, e), n)
    <2>1. n \in 1..Len(evs) + 1 /\ n - 1 = Len(evs)
        BY <1>1
    <2>2. Len(l) = n - 1 /\ l \in Seq(S \cup {e}) /\ \A k \in 1..n - 1 : l[k] = evs[k]
        BY <1>3, <2>1
    <2>3. Len(l) = Len(evs) /\ \A k \in 1..Len(evs) : l[k] = evs[k]
        BY <2>1, <2>2
    <2> HIDE DEF l, n
    <2>4. l = evs
        BY <1>2, <2>2, <2>3
    <2>5. QED BY <2>4 DEF l, n
<1>6. QED BY <1>4, <1>5

(* The members of a set by increasing key: what Ranked of module Handlers  *)
(* lists, for a key that tells the members apart.                          *)
LowerKeys(S, key, x) == {y \in S : key[y] < key[x]}

IsKey(S, key) == key \in [S -> Int] /\ \A x, y \in S : key[x] = key[y] => x = y

\* At k stands a member with k - 1 members below it, if there is one.
ListsByKey(list, S, key) ==
    \A k \in 1..Cardinality(S), x \in S :
        Cardinality(LowerKeys(S, key, x)) = k - 1 =>
            list[k] \in S /\ Cardinality(LowerKeys(S, key, list[k])) = k - 1

\* Each member is listed once.
ListsOnce(list, S) ==
    /\ Cardinality(S) \in Nat
    /\ \A k \in 1..Cardinality(S) : list[k] \in S
    /\ \A j, k \in 1..Cardinality(S) : j < k => list[j] # list[k]
    /\ \A x \in S : \E k \in 1..Cardinality(S) : list[k] = x

LEMMA RankedMembers ==
    ASSUME NEW S, IsFiniteSet(S), NEW key, IsKey(S, key), NEW list, ListsByKey(list, S, key)
    PROVE  ListsOnce(list, S)
<1> DEFINE m == Cardinality(S)
           below == [x \in S |-> {y \in S : key[y] < key[x]}]
           size == [x \in S |-> Cardinality({y \in S : key[y] < key[x]})]
           rank == [x \in S |-> size[x] + 1]
<1>1. /\ m \in Nat
      /\ key \in [S -> Int] /\ \A x, y \in S : key[x] = key[y] => x = y
    BY FS_CardinalityType DEF IsKey
<1>2. \A x \in S : size[x] = Cardinality({y \in S : key[y] < key[x]})
    OBVIOUS
<1>3. \A x \in S : below[x] = {y \in S : key[y] < key[x]} /\ size[x] = Cardinality(below[x])
    OBVIOUS
<1>4. (\A x \in S : rank[x] = size[x] + 1) /\ rank = [x \in S |-> rank[x]]
    OBVIOUS
<1> HIDE DEF below, size, rank
<1>5. /\ \A x \in S : below[x] \in SUBSET S /\ x \notin below[x]
      /\ \A x, y \in S : key[x] < key[y] => below[x] \in SUBSET below[y] /\ x \in below[y]
    <2>1. \A x \in S : \A y : y \in below[x] <=> y \in S /\ key[y] < key[x]
        BY <1>3
    <2>2. \A x, y, z \in S :
              ~(key[x] < key[x]) /\ (key[x] < key[y] /\ key[y] < key[z] => key[x] < key[z])
        BY <1>1
    <2>3. QED BY <2>1, <2>2
<1>6. ASSUME NEW x \in S PROVE IsFiniteSet(below[x]) /\ size[x] \in Nat /\ size[x] < m
    <2>1. /\ IsFiniteSet(below[x]) /\ Cardinality(below[x]) <= m
          /\ m = Cardinality(below[x]) => S = below[x]
        BY <1>1, <1>5, FS_Subset
    <2>2. size[x] \in Nat
        BY <1>3, <2>1, FS_CardinalityType
    <2>3. size[x] <= m /\ size[x] # m
        BY <1>3, <1>5, <2>1
    <2> HIDE DEF m
    <2>4. QED BY <1>1, <2>1, <2>2, <2>3
<1>7. ASSUME NEW x \in S, NEW y \in S, key[x] < key[y] PROVE size[x] < size[y]
    <2>1. below[x] \in SUBSET below[y] /\ x \in below[y] /\ x \notin below[x]
        BY <1>5, <1>7
    <2>2. /\ Cardinality(below[x]) <= Cardinality(below[y])
          /\ Cardinality(below[y]) = Cardinality(below[x]) => below[y] = below[x]
        BY <1>6, <2>1, FS_Subset
    <2>3. size[x] <= size[y] /\ size[x] # size[y]
        BY <1>3, <2>1, <2>2
    <2>4. QED BY <1>6, <2>3
<1> HIDE DEF m
<1>8. rank \in [S -> 1..m]
    <2>1. \A x \in S : rank[x] \in 1..m
        BY <1>1, <1>4, <1>6
    <2>2. QED BY <1>4, <2>1
<1>9. \A x, y \in S : rank[x] = rank[y] => x = y
    <2>1. \A x, y \in S : rank[x] = rank[y] => ~(key[x] < key[y])
        BY <1>4, <1>6, <1>7
    <2>2. QED BY <1>1, <2>1
<1>10. rank \in Injection(S, 1..m)
    BY <1>8, <1>9, Fun_IsInj
<1>11. IsFiniteSet(1..m) /\ Cardinality(1..m) = Cardinality(S)
    BY <1>1, FS_Interval DEF m
<1>12. rank \in Surjection(S, 1..m)
    BY <1>10, <1>11, FS_Injection
<1>13. \A k \in 1..m : \E x \in S : rank[x] = k
    BY <1>12 DEF Surjection
<1>14. ASSUME NEW k \in 1..m PROVE list[k] \in S /\ rank[list[k]] = k
    <2>1. PICK x \in S : size[x] = k - 1
        BY <1>4, <1>6, <1>13
    <2>2. Cardinality(LowerKeys(S, key, x)) = k - 1
        BY <1>2, <2>1 DEF LowerKeys
    <2>3. list[k] \in S /\ Cardinality(LowerKeys(S, key, list[k])) = k - 1
        BY <2>2 DEF m, ListsByKey
    <2>4. size[list[k]] = k - 1
        BY <1>2, <2>3 DEF LowerKeys
    <2>5. QED BY <1>4, <2>3, <2>4
<1>15. ASSUME NEW j \in 1..m, NEW k \in 1..m, j < k PROVE list[j] # list[k]
    <2>1. rank[list[j]] = j /\ rank[list[k]] = k /\ j # k
        BY <1>1, <1>14, <1>15
    <2>2. QED BY <2>1, Zenon
<1>16. ASSUME NEW x \in S PROVE \E k \in 1..m : list[k] = x
    <2>1. rank[x] \in 1..m
        BY <1>8
    <2>2. list[rank[x]] \in S /\ rank[list[rank[x]]] = rank[x]
        BY <1>14, <2>1
    <2>3. list[rank[x]] = x
        BY <1>9, <2>2
    <2>4. QED BY <2>1, <2>3
<1>17. QED BY <1>1, <1>14, <1>15, <1>16 DEF m, ListsOnce

-----------------------------------------------------------------------------
(* Injections: each record of one kind has an own record of another kind.  *)

\* Each element of P, and each of H, has an element of A to itself.
Covered(P, H, A) ==
    \E f \in [P -> A], g \in [H -> A] :
        /\ \A i, j \in P : f[i] = f[j] => i = j
        /\ \A i, j \in H : g[i] = g[j] => i = j
        /\ \A i \in P, j \in H : f[i] # g[j]

LEMMA CoveredShrinks ==
    ASSUME NEW P, NEW H, NEW A, NEW H2 \in SUBSET H, NEW A2, A \subseteq A2, Covered(P, H, A)
    PROVE  Covered(P, H2, A2)
<1>1. PICK f \in [P -> A], g \in [H -> A] :
          /\ \A i, j \in P : f[i] = f[j] => i = j
          /\ \A i, j \in H : g[i] = g[j] => i = j
          /\ \A i \in P, j \in H : f[i] # g[j]
    BY DEF Covered
<1> DEFINE h == [j \in H2 |-> g[j]]
<1>2. f \in [P -> A2] /\ h \in [H2 -> A2] /\ \A j \in H2 : h[j] = g[j]
    OBVIOUS
<1> HIDE DEF h
<1>3. QED BY <1>1, <1>2 DEF Covered

LEMMA CoveredByNew ==
    ASSUME NEW P, NEW H, NEW A, NEW p, NEW n, n \notin A, Covered(P, H, A), p \notin H
    PROVE  Covered(P, H \cup {p}, A \cup {n})
<1>1. PICK f \in [P -> A], g \in [H -> A] :
          /\ \A i, j \in P : f[i] = f[j] => i = j
          /\ \A i, j \in H : g[i] = g[j] => i = j
          /\ \A i \in P, j \in H : f[i] # g[j]
    BY DEF Covered
<1> DEFINE h == [j \in H \cup {p} |-> IF j = p THEN n ELSE g[j]]
           A2 == A \cup {n}
           H2 == H \cup {p}
<1>2. f \in [P -> A2] /\ h \in [H2 -> A2]
    OBVIOUS
<1>3. h[p] = n /\ \A j \in H : h[j] = g[j] /\ g[j] # n /\ j # p
    OBVIOUS
<1>4. \A i \in P : f[i] # n
    OBVIOUS
<1> HIDE DEF h
<1>5. \A i, j \in H2 : h[i] = h[j] => i = j
    BY <1>1, <1>3
<1>6. \A i \in P, j \in H2 : f[i] # h[j]
    BY <1>1, <1>3, <1>4
<1>7. QED BY <1>1, <1>2, <1>5, <1>6 DEF Covered

LEMMA CoveredByHolder ==
    ASSUME NEW P, NEW H, NEW A, NEW p \in H, NEW n, n \notin P, Covered(P, H, A)
    PROVE  Covered(P \cup {n}, H \ {p}, A)
<1>1. PICK f \in [P -> A], g \in [H -> A] :
          /\ \A i, j \in P : f[i] = f[j] => i = j
          /\ \A i, j \in H : g[i] = g[j] => i = j
          /\ \A i \in P, j \in H : f[i] # g[j]
    BY DEF Covered
<1> DEFINE e == [i \in P \cup {n} |-> IF i = n THEN g[p] ELSE f[i]]
           h == [j \in H \ {p} |-> g[j]]
           P2 == P \cup {n}
           H2 == H \ {p}
<1>2. e \in [P2 -> A] /\ h \in [H2 -> A]
    OBVIOUS
<1>3. e[n] = g[p] /\ \A i \in P : e[i] = f[i] /\ f[i] # g[p]
    BY <1>1
<1>4. \A j \in H2 : h[j] = g[j] /\ g[j] # g[p] /\ j \in H
    BY <1>1
<1> HIDE DEF e, h
<1>5. \A i, j \in P2 : e[i] = e[j] => i = j
    BY <1>1, <1>3
<1>6. \A i, j \in H2 : h[i] = h[j] => i = j
    BY <1>1, <1>4
<1>7. \A i \in P2, j \in H2 : e[i] # h[j]
    BY <1>1, <1>3, <1>4
<1>8. QED BY <1>2, <1>5, <1>6, <1>7 DEF Covered

LEMMA CoveredCounts ==
    ASSUME NEW P, NEW H, NEW A, IsFiniteSet(A), Covered(P, H, A)
    PROVE  Cardinality(P) <= Cardinality(A)
<1>1. PICK f \in [P -> A] : \A i, j \in P : f[i] = f[j] => i = j
    BY DEF Covered
<1>2. f \in Injection(P, A)
    BY <1>1, Fun_IsInj
<1>3. QED BY <1>2, FS_Injection
=============================================================================
