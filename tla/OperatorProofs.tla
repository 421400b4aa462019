--------------------------- MODULE OperatorProofs ---------------------------
(***************************************************************************)
(* The algorithms that have no state of their own, for inputs of any       *)
(* length; and the induction the proofs about data rest on.                *)
(*                                                                         *)
(* A loop of the code is a function of the number of its turns. That the   *)
(* function exists, and what it says after each turn, is shown by the      *)
(* least number for which it would fail.                                   *)
(***************************************************************************)
EXTENDS Naturals, Integers, Sequences, SequencesExt, FiniteSetTheorems, SequenceTheorems,
        WellFoundedInduction, TLAPS

-----------------------------------------------------------------------------
(* Induction.                                                              *)

LEMMA LeastNat ==
  ASSUME NEW T, T \subseteq Nat, T # {}
  PROVE  \E x \in T : \A y \in T : x <= y
<1> DEFINE R == {ss \in Nat \X Nat : ss[1] < ss[2]}
<1>1. IsWellFoundedOn(R, Nat)
  BY NatLessThanWellFounded DEF OpToRel
<1> HIDE DEF R
<1>2. PICK x \in T : \A y \in T : ~ (<<y, x>> \in R)
  BY <1>1, WFMin
<1>3. \A y \in T : ~(y < x)
  BY <1>2 DEF R
<1> QED
  BY <1>3

\* Induction over a set that is named where it is used: the library's takes an operator.
LEMMA SetInduction ==
  ASSUME NEW T, 0 \in T, \A n \in Nat : n \in T => n + 1 \in T
  PROVE  Nat \subseteq T
<1> DEFINE U == Nat \ T
<1>1. ASSUME U # {} PROVE FALSE
  <2>1. PICK x \in U : \A y \in U : x <= y
    BY <1>1, LeastNat
  <2>2. x # 0 /\ x - 1 \in Nat /\ x - 1 \notin U
    BY <2>1
  <2> QED
    BY <2>1, <2>2
<1> QED
  BY <1>1

-----------------------------------------------------------------------------
(* LruCache: the keys used last.                                           *)

Lru == INSTANCE LruCache

LEMMA LatestIs ==
  ASSUME NEW n \in Nat, NEW A \in SUBSET (1 .. n)
  PROVE  /\ Lru!Latest(A) \in 0 .. n
         /\ Lru!Latest(A) = 0 <=> A = {}
         /\ Lru!Latest(A \union {n + 1}) = n + 1
<1>1. ASSUME A # {} PROVE Lru!Latest(A) \in A
  <2> DEFINE B == {n - i : i \in A}
  <2>1. B \subseteq Nat /\ B # {}
    BY <1>1
  <2>2. PICK b \in B : \A c \in B : b <= c
    BY <2>1, LeastNat
  <2>3. PICK i \in A : b = n - i
    OBVIOUS
  <2>4. ASSUME NEW j \in A PROVE j <= i
    <3>1. n - j \in B /\ i \in 1 .. n /\ j \in 1 .. n
      OBVIOUS
    <3>2. b <= n - j
      BY <2>2, <3>1
    <3> QED
      BY <2>3, <3>1, <3>2
  <2> QED
    BY <1>1, <2>4 DEF Lru!Latest
<1>2. Lru!Latest(A \union {n + 1}) = n + 1
  <2> DEFINE B == A \union {n + 1}
  <2>1. \A j \in B : j <= n + 1
    OBVIOUS
  <2>2. \A i \in B : (\A j \in B : j <= i) => i = n + 1
    <3> SUFFICES ASSUME NEW i \in B, n + 1 <= i PROVE i = n + 1
      OBVIOUS
    <3>1. i \in 1 .. n + 1
      OBVIOUS
    <3> QED
      BY <3>1
  <2> QED
    BY <2>1, <2>2 DEF Lru!Latest
<1>3. A = {} => Lru!Latest(A) = 0
  BY DEF Lru!Latest
<1>4. CASE A = {}
  BY <1>2, <1>3, <1>4
<1>5. CASE A # {}
  <2>1. Lru!Latest(A) \in 1 .. n
    BY <1>1, <1>5
  <2>2. Lru!Latest(A) # 0 /\ Lru!Latest(A) \in 0 .. n
    BY <2>1
  <2> QED
    BY <1>2, <1>5, <2>2
<1> QED
  BY <1>4, <1>5

\* What the history is after each operation.
LEMMA History ==
  ASSUME NEW ops, Len(ops) \in Nat, NEW maxSize
  PROVE  /\ Lru!After(ops, maxSize)[0] = <<>>
         /\ \A n \in 0 .. Len(ops) - 1 :
              Lru!After(ops, maxSize)[n + 1] =
                Lru!Applied(Lru!After(ops, maxSize)[n], ops[n + 1], maxSize)
<1> DEFINE Rec(f, n) == f = [m \in 0 .. n |-> IF m = 0 THEN <<>> ELSE Lru!Applied(f[m - 1], ops[m], maxSize)]
           T == {n \in Nat : \E f : Rec(f, n)}
           list == CHOOSE f : Rec(f, Len(ops))
<1>1. 0 \in T
  <2>1. Rec([m \in 0 .. 0 |-> <<>>], 0)
    OBVIOUS
  <2> QED
    BY <2>1
<1>2. ASSUME NEW n \in Nat, n \in T PROVE n + 1 \in T
  <2>1. PICK f : Rec(f, n)
    BY <1>2
  <2> DEFINE g == [m \in 0 .. n + 1 |-> IF m = n + 1 THEN Lru!Applied(f[n], ops[n + 1], maxSize) ELSE f[m]]
  <2>2. ASSUME NEW m \in 0 .. n + 1
        PROVE  g[m] = IF m = 0 THEN <<>> ELSE Lru!Applied(g[m - 1], ops[m], maxSize)
    <3>1. CASE m = n + 1
      <4>1. n \in 0 .. n + 1 /\ n # n + 1 /\ m - 1 = n /\ m # 0
        BY <3>1
      <4> QED
        BY <3>1, <4>1
    <3>2. CASE m # n + 1 /\ m # 0
      <4>1. m \in 0 .. n /\ m - 1 \in 0 .. n /\ m - 1 \in 0 .. n + 1 /\ m - 1 # n + 1
        BY <3>2
      <4> QED
        BY <2>1, <3>2, <4>1
    <3>3. CASE m = 0
      <4>1. m \in 0 .. n /\ m # n + 1
        BY <3>3
      <4> QED
        BY <2>1, <3>3, <4>1
    <3> QED
      BY <3>1, <3>2, <3>3
  <2>3. Rec(g, n + 1)
    BY <2>2
  <2> HIDE DEF g, Rec
  <2> QED
    BY <2>3
<1>3. Rec(list, Len(ops))
  <2>1. Len(ops) \in T
    <3> HIDE DEF T
    <3> QED
      BY <1>1, <1>2, SetInduction
  <2>2. \E f : Rec(f, Len(ops))
    BY <2>1
  <2> HIDE DEF Rec
  <2> QED
    BY <2>2
<1>4. Lru!After(ops, maxSize) = list
  BY DEF Lru!After
<1> HIDE DEF list
<1>5. list[0] = <<>>
  BY <1>3
<1>6. ASSUME NEW n \in 0 .. Len(ops) - 1 PROVE list[n + 1] = Lru!Applied(list[n], ops[n + 1], maxSize)
  <2>1. n + 1 \in 0 .. Len(ops) /\ n + 1 # 0 /\ (n + 1) - 1 = n
    OBVIOUS
  <2> QED
    BY <1>3, <2>1
<1> QED
  BY <1>4, <1>5, <1>6

\* What an operation leaves of the list: an entry in front of others that were there in the
\* same order, without the key of that entry.
Behind(items, key, r, from) ==
  /\ Len(r) \in Nat
  /\ from \in [1 .. Len(r) -> 1 .. Len(items)]
  /\ \A j \in 1 .. Len(r) : r[j] = items[from[j]] /\ r[j].key # key
  /\ \A i, j \in 1 .. Len(r) : i < j => from[i] < from[j]

\* The list in the order of the last uses U, with the values V last put, and where a key
\* that was used is missing, it is full of keys used later.
Ordered(items, K, U, V, maxSize) ==
  /\ Len(items) <= maxSize
  /\ \A i, j \in 1 .. Len(items) : i < j => U[items[i].key] > U[items[j].key]
  /\ \A i \in 1 .. Len(items) : items[i].value = V[items[i].key]
  /\ \A k \in K : U[k] # 0 /\ ~Lru!ContainsKey(items, k) =>
       /\ Len(items) = maxSize
       /\ \A i \in 1 .. Len(items) : U[items[i].key] > U[k]

\* A key that was used and is not in the rest was used before it, and then the rest fills
\* the list but for one place.
Spares(r, key, K, U, maxSize) ==
  /\ Len(r) < maxSize
  /\ \A k \in K : U[k] # 0 /\ k # key /\ ~Lru!ContainsKey(r, k) =>
       /\ Len(r) + 1 = maxSize
       /\ \A i \in 1 .. Len(r) : U[r[i].key] > U[k]

\* The keys, values and times of a history.
Timed(K, E, U, V, now, maxSize) ==
  /\ \A x \in E : x.key \in K
  /\ U \in [K -> Nat] /\ V = [k \in K |-> V[k]] /\ now \in Nat
  /\ \A k \in K : U[k] < now
  /\ maxSize \in Nat \ {0}

With(f, k, x) == [f EXCEPT ![k] = x]

LEMMA KeysOf ==
  ASSUME NEW E, NEW items \in Seq(E), NEW k
  PROVE  Lru!ContainsKey(items, k) <=> \E i \in 1 .. Len(items) : items[i].key = k
<1>1. DOMAIN items = 1 .. Len(items)
  OBVIOUS
<1> QED
  BY <1>1 DEF Lru!ContainsKey, Lru!Keys

\* An entry that was used now comes to the front of the rest.
LEMMA ToFront ==
  ASSUME NEW K, NEW E, NEW U, NEW V, NEW now, NEW maxSize, Timed(K, E, U, V, now, maxSize),
         NEW items \in Seq(E),
         NEW e \in E, NEW r \in Seq(E), NEW from,
         Ordered(items, K, U, V, maxSize), Behind(items, e.key, r, from), Spares(r, e.key, K, U, maxSize)
  PROVE  /\ Cons(e, r) \in Seq(E)
         /\ Ordered(Cons(e, r), K, With(U, e.key, now), With(V, e.key, e.value), maxSize)
<1> DEFINE s == Cons(e, r)
           u == With(U, e.key, now)
           v == With(V, e.key, e.value)
<1> USE DEF Timed
<1>1. e.key \in K /\ Len(r) \in Nat
  OBVIOUS
<1>2. s \in Seq(E) /\ Len(s) = Len(r) + 1 /\ s[1] = e /\ \A j \in 1 .. Len(r) : s[j + 1] = r[j]
  BY DEF Cons
<1>3. u \in [K -> Nat] /\ u[e.key] = now /\ \A k \in K : k # e.key => u[k] = U[k]
  BY <1>1 DEF With
<1>4. v[e.key] = e.value /\ \A k \in K : k # e.key => v[k] = V[k]
  BY <1>1 DEF With
<1>5. \A j \in 1 .. Len(r) : /\ r[j].key \in K /\ r[j].key # e.key
                             /\ from[j] \in 1 .. Len(items) /\ r[j] = items[from[j]]
  <2> SUFFICES ASSUME NEW j \in 1 .. Len(r)
               PROVE  /\ r[j].key \in K /\ r[j].key # e.key
                      /\ from[j] \in 1 .. Len(items) /\ r[j] = items[from[j]]
    OBVIOUS
  <2>1. r[j] \in E
    OBVIOUS
  <2>2. r[j].key \in K
    BY <2>1
  <2> QED
    BY <2>2 DEF Behind
<1>6. \A j \in 2 .. Len(s) : j - 1 \in 1 .. Len(r) /\ s[j] = r[j - 1]
  <2> SUFFICES ASSUME NEW j \in 2 .. Len(s) PROVE j - 1 \in 1 .. Len(r) /\ s[j] = r[j - 1]
    OBVIOUS
  <2>1. j - 1 \in 1 .. Len(r) /\ (j - 1) + 1 = j
    BY <1>1, <1>2
  <2> QED
    BY <1>2, <2>1
<1> HIDE DEF s, u, v
<1>7. ASSUME NEW i \in 1 .. Len(s), NEW j \in 1 .. Len(s), i < j PROVE u[s[i].key] > u[s[j].key]
  <2>1. j \in 2 .. Len(s)
    BY <1>1, <1>2, <1>7
  <2>2. j - 1 \in 1 .. Len(r) /\ s[j] = r[j - 1]
    BY <1>6, <2>1
  <2>3. r[j - 1].key \in K /\ u[s[j].key] = U[r[j - 1].key]
    BY <1>3, <1>5, <2>2
  <2>4. CASE i = 1
    BY <1>2, <1>3, <2>3, <2>4
  <2>5. CASE i # 1
    <3>1. i - 1 \in 1 .. Len(r) /\ s[i] = r[i - 1] /\ i - 1 < j - 1
      <4>1. i \in 2 .. Len(s) /\ i - 1 < j - 1
        BY <1>1, <1>2, <1>7, <2>5
      <4> QED
        BY <1>6, <4>1
    <3>2. u[s[i].key] = U[r[i - 1].key]
      BY <1>3, <1>5, <3>1
    <3>3. from[i - 1] < from[j - 1]
      BY <2>2, <3>1 DEF Behind
    <3>4. U[items[from[i - 1]].key] > U[items[from[j - 1]].key]
      BY <1>5, <2>2, <3>1, <3>3 DEF Ordered
    <3> QED
      BY <1>5, <2>2, <2>3, <3>1, <3>2, <3>4
  <2> QED
    BY <2>4, <2>5
<1>8. ASSUME NEW i \in 1 .. Len(s) PROVE s[i].value = v[s[i].key]
  <2>1. CASE i = 1
    BY <1>2, <1>4, <2>1
  <2>2. CASE i # 1
    <3>1. i \in 2 .. Len(s)
      BY <1>1, <1>2, <2>2
    <3>2. i - 1 \in 1 .. Len(r) /\ s[i] = r[i - 1]
      BY <1>6, <3>1
    <3>3. r[i - 1] = items[from[i - 1]] /\ from[i - 1] \in 1 .. Len(items)
      BY <1>5, <3>2
    <3>4. r[i - 1].value = V[r[i - 1].key]
      BY <3>3 DEF Ordered
    <3> QED
      BY <1>4, <1>5, <3>2, <3>4
  <2> QED
    BY <2>1, <2>2
<1>9. ASSUME NEW k \in K, u[k] # 0, ~Lru!ContainsKey(s, k)
      PROVE  Len(s) = maxSize /\ \A i \in 1 .. Len(s) : u[s[i].key] > u[k]
  <2>1. \A i \in 1 .. Len(s) : s[i].key # k
    BY <1>2, <1>9, KeysOf
  <2>2. k # e.key
    BY <1>1, <1>2, <2>1
  <2>3. ~Lru!ContainsKey(r, k)
    <3>1. \A j \in 1 .. Len(r) : r[j].key # k
      <4> SUFFICES ASSUME NEW j \in 1 .. Len(r) PROVE r[j].key # k
        OBVIOUS
      <4>1. j + 1 \in 1 .. Len(s)
        BY <1>1, <1>2
      <4> QED
        BY <1>2, <2>1, <4>1
    <3> QED
      BY <3>1, KeysOf
  <2>4. U[k] # 0 /\ u[k] = U[k]
    BY <1>3, <1>9, <2>2
  <2>5. Len(r) + 1 = maxSize /\ \A i \in 1 .. Len(r) : U[r[i].key] > U[k]
    BY <2>2, <2>3, <2>4 DEF Spares
  <2>6. ASSUME NEW i \in 1 .. Len(s) PROVE u[s[i].key] > u[k]
    <3>1. CASE i = 1
      BY <1>2, <1>3, <2>4, <3>1
    <3>2. CASE i # 1
      <4>1. i \in 2 .. Len(s)
        BY <1>1, <1>2, <3>2
      <4>2. i - 1 \in 1 .. Len(r) /\ s[i] = r[i - 1]
        BY <1>6, <4>1
      <4> QED
        BY <1>3, <1>5, <2>4, <2>5, <4>2
    <3> QED
      BY <3>1, <3>2
  <2> QED
    BY <1>2, <2>5, <2>6
<1>10. Len(s) <= maxSize
  BY <1>1, <1>2 DEF Spares
<1>11. Ordered(s, K, u, v, maxSize)
  BY <1>7, <1>8, <1>9, <1>10 DEF Ordered
<1> QED
  BY <1>2, <1>11 DEF s, u, v

\* The list without the entry at a position.
LEMMA Removed ==
  ASSUME NEW E, NEW items \in Seq(E), NEW i \in 1 .. Len(items)
  PROVE  /\ RemoveAt(items, i) \in Seq(E) /\ Len(RemoveAt(items, i)) = Len(items) - 1
         /\ \A j \in 1 .. Len(items) - 1 : RemoveAt(items, i)[j] = items[IF j < i THEN j ELSE j + 1]
<1> DEFINE a == SubSeq(items, 1, i - 1)
           b == SubSeq(items, i + 1, Len(items))
<1>1. Len(items) \in Nat /\ i \in Nat
  OBVIOUS
<1>2. a \in Seq(E) /\ Len(a) = i - 1 /\ \A j \in 1 .. i - 1 : a[j] = items[j]
  BY <1>1
<1>3. b \in Seq(E) /\ Len(b) = Len(items) - i /\ \A j \in 1 .. Len(items) - i : b[j] = items[i + j]
  BY <1>1
<1> HIDE DEF a, b
<1>4. a \o b \in Seq(E) /\ Len(a \o b) = Len(items) - 1
  <2>1. a \o b \in Seq(E) /\ Len(a \o b) = Len(a) + Len(b)
    BY <1>2, <1>3, ConcatProperties
  <2>2. (i - 1) + (Len(items) - i) = Len(items) - 1
    BY <1>1
  <2> QED
    BY <1>2, <1>3, <2>1, <2>2
<1>5. ASSUME NEW j \in 1 .. Len(items) - 1 PROVE (a \o b)[j] = items[IF j < i THEN j ELSE j + 1]
  <2>1. CASE j < i
    BY <1>1, <1>2, <1>3, <2>1
  <2>2. CASE ~(j < i)
    <3>1. j - (i - 1) \in 1 .. Len(items) - i /\ i + (j - (i - 1)) = j + 1
      BY <1>1, <2>2
    <3>2. (a \o b)[j] = b[j - (i - 1)]
      BY <1>1, <1>2, <1>3, <2>2, <3>1
    <3> QED
      BY <1>3, <2>2, <3>1, <3>2
  <2> QED
    BY <2>1, <2>2
<1> QED
  BY <1>4, <1>5 DEF RemoveAt, a, b

\* An entry that is there comes to the front.
LEMMA SplicedOrdered ==
  ASSUME NEW K, NEW E, NEW U, NEW V, NEW now, NEW maxSize, Timed(K, E, U, V, now, maxSize),
         NEW items \in Seq(E),
         NEW e \in E, NEW i \in 1 .. Len(items), items[i].key = e.key,
         Ordered(items, K, U, V, maxSize)
  PROVE  /\ Lru!Spliced(items, i, e) \in Seq(E)
         /\ Ordered(Lru!Spliced(items, i, e), K, With(U, e.key, now), With(V, e.key, e.value), maxSize)
<1> DEFINE r == RemoveAt(items, i)
           from == [j \in 1 .. Len(r) |-> IF j < i THEN j ELSE j + 1]
<1>1. /\ \A x \in E : x.key \in K
      /\ U \in [K -> Nat] /\ maxSize \in Nat \ {0}
  BY DEF Timed
<1>2. /\ r \in Seq(E) /\ Len(r) = Len(items) - 1
      /\ \A j \in 1 .. Len(items) - 1 : r[j] = items[IF j < i THEN j ELSE j + 1]
  BY Removed
<1>3. Len(items) \in Nat /\ Len(items) <= maxSize /\ i \in Nat /\ 1 <= i /\ i <= Len(items)
  BY DEF Ordered
<1>4. \A j \in 1 .. Len(items) : items[j].key \in K
  BY <1>1
<1> HIDE DEF r
<1>5. \A j \in 1 .. Len(r) : from[j] \in 1 .. Len(items) /\ from[j] # i /\ r[j] = items[from[j]]
  BY <1>2, <1>3
<1>6. \A j, l \in 1 .. Len(r) : j < l => from[j] < from[l]
  BY <1>2, <1>3
<1>7. \A j \in 1 .. Len(items) : j # i => items[j].key # e.key
  <2> SUFFICES ASSUME NEW j \in 1 .. Len(items), j # i PROVE items[j].key # items[i].key
    OBVIOUS
  <2>1. U[items[j].key] # U[items[i].key]
    <3>1. j < i \/ i < j
      BY <1>3
    <3>2. U[items[j].key] \in Nat /\ U[items[i].key] \in Nat
      BY <1>1, <1>4
    <3> QED
      BY <3>1, <3>2 DEF Ordered
  <2> QED
    BY <2>1
<1>8. Behind(items, e.key, r, from)
  <2>1. from \in [1 .. Len(r) -> 1 .. Len(items)]
    BY <1>5
  <2>2. Len(r) \in Nat
    BY <1>2, <1>3
  <2> HIDE DEF from
  <2> QED
    BY <1>5, <1>6, <1>7, <2>1, <2>2 DEF Behind
<1>9. ASSUME NEW k \in K, U[k] # 0, k # e.key, ~Lru!ContainsKey(r, k)
      PROVE  Len(r) + 1 = maxSize /\ \A j \in 1 .. Len(r) : U[r[j].key] > U[k]
  <2>1. ASSUME NEW l \in 1 .. Len(items), items[l].key = k PROVE FALSE
    <3> DEFINE j == IF l < i THEN l ELSE l - 1
    <3>1. l # i
      BY <1>9, <2>1
    <3>2. j \in 1 .. Len(r) /\ from[j] = l
      BY <1>2, <1>3, <3>1
    <3>3. r[j].key = k
      BY <1>5, <2>1, <3>2
    <3> QED
      BY <1>2, <1>9, <3>2, <3>3, KeysOf
  <2>2. ~Lru!ContainsKey(items, k)
    BY <2>1, KeysOf
  <2>3. Len(items) = maxSize /\ \A j \in 1 .. Len(items) : U[items[j].key] > U[k]
    BY <1>9, <2>2 DEF Ordered
  <2>4. Len(r) + 1 = maxSize
    BY <1>1, <1>2, <1>3, <2>3
  <2> HIDE DEF from
  <2> QED
    BY <1>5, <2>3, <2>4
<1>10. Len(r) < maxSize
  BY <1>1, <1>2, <1>3
<1>11. r \in Seq(E)
  BY <1>2
<1>12. Spares(r, e.key, K, U, maxSize)
  BY <1>9, <1>10 DEF Spares
<1>13. Lru!Spliced(items, i, e) = Cons(e, r)
  BY DEF Lru!Spliced, Lru!Cons, Lru!RemoveAt, Cons, RemoveAt, r
<1> HIDE DEF from
<1>14. /\ Cons(e, r) \in Seq(E)
       /\ Ordered(Cons(e, r), K, With(U, e.key, now), With(V, e.key, e.value), maxSize)
  BY ONLY Timed(K, E, U, V, now, maxSize), items \in Seq(E), e \in E, Ordered(items, K, U, V, maxSize),
     <1>8, <1>12, <1>11, ToFront
<1> QED
  BY <1>13, <1>14

\* Another entry takes the place of the last one when the list is full.
LEMMA PutOrdered ==
  ASSUME NEW K, NEW E, NEW U, NEW V, NEW now, NEW maxSize, Timed(K, E, U, V, now, maxSize),
         NEW items \in Seq(E),
         NEW e \in E, ~Lru!ContainsKey(items, e.key),
         Ordered(items, K, U, V, maxSize), NEW r,
         r = IF Len(items) >= maxSize THEN SubSeq(items, 1, Len(items) - 1) ELSE items
  PROVE  /\ Cons(e, r) \in Seq(E)
         /\ Ordered(Cons(e, r), K, With(U, e.key, now), With(V, e.key, e.value), maxSize)
<1> DEFINE from == [j \in 1 .. Len(r) |-> j]
<1>1. Len(items) \in Nat /\ Len(items) <= maxSize /\ maxSize \in Nat \ {0}
  BY DEF Ordered, Timed
<1>2. \A j \in 1 .. Len(items) : items[j].key # e.key
  BY KeysOf
<1>3. /\ r \in Seq(E) /\ Len(r) \in Nat /\ Len(r) < maxSize
      /\ Len(r) = IF Len(items) >= maxSize THEN Len(items) - 1 ELSE Len(items)
      /\ \A j \in 1 .. Len(r) : j \in 1 .. Len(items) /\ r[j] = items[j]
  <2>1. CASE Len(items) >= maxSize
    <3>1. Len(items) - 1 \in Nat /\ Len(items) - 1 < maxSize /\ r = SubSeq(items, 1, Len(items) - 1)
      BY <1>1, <2>1
    <3>2. Len(items) - 1 = 0 \/ 1 <= Len(items) - 1
      <4>1. \A m \in Nat : m = 0 \/ 1 <= m
        OBVIOUS
      <4> QED
        BY ONLY <3>1, <4>1
    <3>3. r \in Seq(E) /\ Len(r) = Len(items) - 1 /\ \A j \in 1 .. Len(items) - 1 : r[j] = items[j]
      <4>1. \A j \in 1 .. Len(items) - 1 : items[j] \in E
        OBVIOUS
      <4> DEFINE s == SubSeq(items, 1, Len(items) - 1)
      <4>2. /\ s \in Seq(E) /\ Len(s) = IF 1 <= Len(items) - 1 THEN (Len(items) - 1) - 1 + 1 ELSE 0
            /\ \A j \in 1 .. (Len(items) - 1) - 1 + 1 : s[j] = items[1 + j - 1]
        BY <1>1, <4>1, SubSeqProperties
      <4>3. Len(s) = Len(items) - 1 /\ \A j \in 1 .. Len(items) - 1 : s[j] = items[j]
        <5>1. (Len(items) - 1) - 1 + 1 = Len(items) - 1 /\ \A j \in 1 .. Len(items) - 1 : 1 + j - 1 = j
          BY <1>1
        <5> HIDE DEF s
        <5>2. Len(s) = Len(items) - 1
          BY <3>2, <4>2, <5>1
        <5> QED
          BY <4>2, <5>1, <5>2
      <4> HIDE DEF s
      <4>4. r = s
        BY <3>1 DEF s
      <4> QED
        BY <4>2, <4>3, <4>4
    <3> QED
      BY <1>1, <2>1, <3>1, <3>3
  <2>2. CASE ~(Len(items) >= maxSize)
    BY <1>1, <2>2
  <2> QED
    BY <2>1, <2>2
<1>4. Behind(items, e.key, r, from)
  BY <1>2, <1>3 DEF Behind
<1>5. ASSUME NEW k \in K, U[k] # 0, k # e.key, ~Lru!ContainsKey(r, k)
      PROVE  Len(r) + 1 = maxSize /\ \A j \in 1 .. Len(r) : U[r[j].key] > U[k]
  <2>1. CASE Lru!ContainsKey(items, k)
    <3>1. PICK l \in 1 .. Len(items) : items[l].key = k
      BY <2>1, KeysOf
    <3>2. l \notin 1 .. Len(r)
      BY <1>3, <1>5, <3>1, KeysOf
    <3>3. l = Len(items) /\ Len(r) = Len(items) - 1 /\ Len(items) = maxSize
      <4>1. Len(items) >= maxSize
        BY <1>1, <1>3, <3>1, <3>2
      <4>2. Len(r) = Len(items) - 1
        BY <1>3, <4>1
      <4> QED
        BY <1>1, <3>1, <3>2, <4>1, <4>2
    <3>4. ASSUME NEW j \in 1 .. Len(r) PROVE U[r[j].key] > U[k]
      <4>1. j \in 1 .. Len(items) /\ r[j] = items[j] /\ j < l
        BY <1>1, <1>3, <3>3
      <4> QED
        BY <3>1, <4>1 DEF Ordered
    <3> QED
      BY <1>1, <3>3, <3>4
  <2>2. CASE ~Lru!ContainsKey(items, k)
    <3>1. Len(items) = maxSize /\ \A j \in 1 .. Len(items) : U[items[j].key] > U[k]
      BY <1>5, <2>2 DEF Ordered
    <3> QED
      BY <1>1, <1>3, <3>1
  <2> QED
    BY <2>1, <2>2
<1>6. Spares(r, e.key, K, U, maxSize)
  BY <1>3, <1>5 DEF Spares
<1>7. r \in Seq(E)
  BY <1>3
<1> HIDE DEF from
<1> QED
  BY ONLY Timed(K, E, U, V, now, maxSize), items \in Seq(E), e \in E, Ordered(items, K, U, V, maxSize),
     <1>4, <1>6, <1>7, ToFront

\* What the last use of a key is after one more operation, which used it or not.
LEMMA LatestAfter ==
  ASSUME NEW n \in Nat, NEW A, NEW B, NEW used \in BOOLEAN,
         A \subseteq 1 .. n, B = IF used THEN A \union {n + 1} ELSE A
  PROVE  Lru!Latest(B) = IF used THEN n + 1 ELSE Lru!Latest(A)
<1>1. Lru!Latest(A \union {n + 1}) = n + 1
  BY LatestIs
<1> QED
  BY <1>1

\* The last uses and the last puts after one more operation.
LEMMA UseAfter ==
  ASSUME NEW ops, NEW list, NEW n \in Nat, NEW k
  PROVE  Lru!LastUse(ops, list, k, n + 1) =
           IF ops[n + 1].key = k /\ (ops[n + 1].value # 0 \/ Lru!ContainsKey(list[n], k)) THEN n + 1
           ELSE Lru!LastUse(ops, list, k, n)
<1> DEFINE P(i) == ops[i].key = k /\ (ops[i].value # 0 \/ Lru!ContainsKey(list[i - 1], k))
           A == {i \in 1 .. n : P(i)}
           B == {i \in 1 .. n + 1 : P(i)}
           used == ops[n + 1].key = k /\ (ops[n + 1].value # 0 \/ Lru!ContainsKey(list[n], k))
<1>1. P(n + 1) <=> used
  BY (n + 1) - 1 = n
<1>2. (1 .. n + 1) = (1 .. n) \union {n + 1}
  OBVIOUS
<1> HIDE DEF P, used
<1>3. B = IF used THEN A \union {n + 1} ELSE A
  BY <1>1, <1>2
<1>4. used \in BOOLEAN
  BY DEF used
<1>5. A \subseteq 1 .. n
  OBVIOUS
<1> HIDE DEF A, B
<1>6. Lru!Latest(B) = IF used THEN n + 1 ELSE Lru!Latest(A)
  BY <1>3, <1>4, <1>5, LatestAfter
<1> QED
  BY <1>6 DEF Lru!LastUse, A, B, P, used

LEMMA PutAfter ==
  ASSUME NEW ops, NEW n \in Nat, NEW k
  PROVE  Lru!LastPut(ops, k, n + 1) =
           IF ops[n + 1].key = k /\ ops[n + 1].value # 0 THEN n + 1 ELSE Lru!LastPut(ops, k, n)
<1> DEFINE P(i) == ops[i].key = k /\ ops[i].value # 0
           A == {i \in 1 .. n : P(i)}
           B == {i \in 1 .. n + 1 : P(i)}
           used == P(n + 1)
<1>1. P(n + 1) <=> used
  OBVIOUS
<1>2. (1 .. n + 1) = (1 .. n) \union {n + 1}
  OBVIOUS
<1>3. used \in BOOLEAN
  OBVIOUS
<1> HIDE DEF P, used
<1>4. B = IF used THEN A \union {n + 1} ELSE A
  BY <1>1, <1>2
<1>5. A \subseteq 1 .. n
  OBVIOUS
<1> HIDE DEF A, B
<1>6. Lru!Latest(B) = IF used THEN n + 1 ELSE Lru!Latest(A)
  BY <1>4, <1>3, <1>5, LatestAfter
<1> QED
  BY <1>6 DEF Lru!LastPut, A, B, P, used

\* The last use and the value last put of each key after n operations.
LastUses(ops, list, K, n) == [k \in K |-> Lru!LastUse(ops, list, k, n)]
LastValues(ops, K, n) == [k \in K |-> ops[Lru!LastPut(ops, k, n)].value]

LEMMA UsesTyped ==
  ASSUME NEW ops, NEW list, NEW K, NEW n \in Nat
  PROVE  /\ LastUses(ops, list, K, n) \in [K -> Nat]
         /\ \A k \in K : LastUses(ops, list, K, n)[k] < n + 1
<1> SUFFICES ASSUME NEW k \in K
             PROVE  Lru!LastUse(ops, list, k, n) \in Nat /\ Lru!LastUse(ops, list, k, n) < n + 1
  BY DEF LastUses
<1> DEFINE A == {i \in 1 .. n : ops[i].key = k /\ (ops[i].value # 0 \/ Lru!ContainsKey(list[i - 1], k))}
<1>1. A \in SUBSET (1 .. n)
  OBVIOUS
<1>2. Lru!LastUse(ops, list, k, n) = Lru!Latest(A)
  BY DEF Lru!LastUse
<1> HIDE DEF A
<1>3. Lru!Latest(A) \in 0 .. n
  BY <1>1, LatestIs
<1> QED
  BY <1>2, <1>3

\* An operation keeps the list in order.
LEMMA AppliedOrdered ==
  ASSUME NEW K, NEW W, NEW ops, NEW list, NEW n \in Nat, NEW maxSize \in Nat \ {0},
         ops[n + 1].key \in K, ops[n + 1].value \in W,
         list[n] \in Seq([key : K, value : W]),
         Ordered(list[n], K, LastUses(ops, list, K, n), LastValues(ops, K, n), maxSize),
         list[n + 1] = Lru!Applied(list[n], ops[n + 1], maxSize)
  PROVE  /\ list[n + 1] \in Seq([key : K, value : W])
         /\ Ordered(list[n + 1], K, LastUses(ops, list, K, n + 1), LastValues(ops, K, n + 1), maxSize)
<1> DEFINE E == [key : K, value : W]
           items == list[n]
           U == LastUses(ops, list, K, n)
           V == LastValues(ops, K, n)
           op == ops[n + 1]
           i == Lru!Position(items, op.key)
           put == [key |-> op.key, value |-> op.value]
<1>1. Timed(K, E, U, V, n + 1, maxSize)
  <2>1. \A x \in E : x.key \in K
    OBVIOUS
  <2>2. V = [k \in K |-> V[k]]
    BY DEF LastValues
  <2>3. U \in [K -> Nat] /\ \A k \in K : U[k] < n + 1
    BY UsesTyped
  <2> HIDE DEF E, U, V
  <2> QED
    BY <2>1, <2>2, <2>3 DEF Timed
<1>2. put \in E /\ put.key = op.key /\ put.value = op.value
  OBVIOUS
<1>3. ASSUME Lru!ContainsKey(items, op.key)
      PROVE  i \in 1 .. Len(items) /\ items[i].key = op.key /\ items[i] \in E
  <2>1. PICK l \in 1 .. Len(items) : items[l].key = op.key
    BY <1>3, KeysOf
  <2>2. DOMAIN items = 1 .. Len(items)
    OBVIOUS
  <2>3. i \in 1 .. Len(items) /\ items[i].key = op.key
    BY <2>1, <2>2 DEF Lru!Position
  <2>4. items \in Seq(E)
    OBVIOUS
  <2> HIDE DEF E, items, i
  <2> QED
    BY <2>3, <2>4
<1>4. \A k \in K : U[k] = Lru!LastUse(ops, list, k, n) /\ V[k] = ops[Lru!LastPut(ops, k, n)].value
  BY DEF LastUses, LastValues
<1>5. U \in [K -> Nat] /\ DOMAIN V = K
  BY UsesTyped DEF LastValues
<1>6. ASSUME op.value # 0 \/ Lru!ContainsKey(items, op.key)
      PROVE  LastUses(ops, list, K, n + 1) = With(U, op.key, n + 1)
  <2>1. \A k \in K : Lru!LastUse(ops, list, k, n + 1) = IF k = op.key THEN n + 1 ELSE Lru!LastUse(ops, list, k, n)
    BY <1>6, UseAfter
  <2> QED
    BY <2>1 DEF LastUses, With
<1>7. CASE op.value # 0
  <2>1. LastValues(ops, K, n + 1) = With(V, op.key, put.value)
    <3>1. \A k \in K : Lru!LastPut(ops, k, n + 1) = IF k = op.key THEN n + 1 ELSE Lru!LastPut(ops, k, n)
      BY <1>7, PutAfter
    <3> QED
      BY <1>2, <3>1 DEF LastValues, With
  <2>2. LastUses(ops, list, K, n + 1) = With(U, put.key, n + 1) /\ LastValues(ops, K, n + 1) = With(V, put.key, put.value)
    BY <1>2, <1>6, <1>7, <2>1
  <2>3. list[n + 1] = Lru!Put(items, op.key, op.value, maxSize)
    BY <1>7 DEF Lru!Applied
  <2>4. CASE Lru!ContainsKey(items, op.key)
    <3>1. list[n + 1] = Lru!Spliced(items, i, put)
      BY <2>3, <2>4 DEF Lru!Put
    <3>2. i \in 1 .. Len(items) /\ items[i].key = put.key /\ items \in Seq(E) /\ put \in E /\ n + 1 \in Nat
      BY <1>2, <1>3, <2>4
    <3>3. Ordered(items, K, U, V, maxSize)
      OBVIOUS
    <3> HIDE DEF E, items, U, V, i, put
    <3>4. /\ Lru!Spliced(items, i, put) \in Seq(E)
          /\ Ordered(Lru!Spliced(items, i, put), K, With(U, put.key, n + 1), With(V, put.key, put.value), maxSize)
      BY ONLY <1>1, <3>2, <3>3, SplicedOrdered
    <3> QED
      BY <2>2, <3>1, <3>4 DEF E
  <2>5. CASE ~Lru!ContainsKey(items, op.key)
    <3> DEFINE r == IF Len(items) >= maxSize THEN SubSeq(items, 1, Len(items) - 1) ELSE items
    <3>1. list[n + 1] = Cons(put, r)
      BY <2>3, <2>5 DEF Lru!Put, Lru!Cons, Cons
    <3>2. ~Lru!ContainsKey(items, put.key) /\ items \in Seq(E) /\ put \in E /\ n + 1 \in Nat
      BY <1>2, <2>5
    <3>3. Ordered(items, K, U, V, maxSize) /\ r = IF Len(items) >= maxSize THEN SubSeq(items, 1, Len(items) - 1) ELSE items
      OBVIOUS
    <3> HIDE DEF E, items, U, V, put, r
    <3>4. /\ Cons(put, r) \in Seq(E)
          /\ Ordered(Cons(put, r), K, With(U, put.key, n + 1), With(V, put.key, put.value), maxSize)
      BY ONLY <1>1, <3>2, <3>3, PutOrdered
    <3> QED
      BY <2>2, <3>1, <3>4 DEF E
  <2> QED
    BY <2>4, <2>5
<1>8. CASE op.value = 0
  <2>1. LastValues(ops, K, n + 1) = V
    <3>1. \A k \in K : Lru!LastPut(ops, k, n + 1) = Lru!LastPut(ops, k, n)
      BY <1>8, PutAfter
    <3> QED
      BY <3>1 DEF LastValues
  <2>2. list[n + 1] = Lru!Hit(items, op.key)
    BY <1>8 DEF Lru!Applied
  <2>3. CASE Lru!ContainsKey(items, op.key)
    <3> DEFINE e == items[i]
    <3>1. list[n + 1] = Lru!Spliced(items, i, e)
      BY <2>2, <2>3 DEF Lru!Hit
    <3>2. i \in 1 .. Len(items) /\ items[i].key = e.key /\ e.key = op.key /\ items \in Seq(E) /\ e \in E /\ n + 1 \in Nat
      BY <1>3, <2>3
    <3>3. Ordered(items, K, U, V, maxSize)
      OBVIOUS
    <3>4. LastUses(ops, list, K, n + 1) = With(U, op.key, n + 1)
      BY <1>6, <2>3
    <3> HIDE DEF E, items, U, V, i, e
    <3>5. With(V, op.key, e.value) = V
      <4>1. e.value = V[op.key]
        BY <3>2, <3>3 DEF Ordered, e
      <4> QED
        BY <1>1, <4>1 DEF With, Timed
    <3>6. /\ Lru!Spliced(items, i, e) \in Seq(E)
          /\ Ordered(Lru!Spliced(items, i, e), K, With(U, e.key, n + 1), With(V, e.key, e.value), maxSize)
      BY ONLY <1>1, <3>2, <3>3, SplicedOrdered
    <3> QED
      BY <2>1, <3>1, <3>2, <3>4, <3>5, <3>6 DEF E
  <2>4. CASE ~Lru!ContainsKey(items, op.key)
    <3>1. list[n + 1] = items
      BY <2>2, <2>4 DEF Lru!Hit
    <3>2. \A k \in K : Lru!LastUse(ops, list, k, n + 1) = Lru!LastUse(ops, list, k, n)
      BY <1>8, <2>4, UseAfter
    <3>3. LastUses(ops, list, K, n + 1) = U
      BY <3>2 DEF LastUses
    <3> QED
      BY <2>1, <3>1, <3>3
  <2> QED
    BY <2>3, <2>4
<1> QED
  BY <1>7, <1>8

LEMMA Entries ==
  ASSUME NEW K, NEW W, NEW s \in Seq([key : K, value : W]), NEW i \in 1 .. Len(s)
  PROVE  s[i].key \in K /\ s[i].value \in W
<1> DEFINE E == [key : K, value : W]
<1>1. \A x \in E : x.key \in K /\ x.value \in W
  OBVIOUS
<1>2. s \in Seq(E)
  OBVIOUS
<1> HIDE DEF E
<1>3. s[i] \in E
  BY <1>2
<1> QED
  BY <1>1, <1>3

\* For every history of gets and puts and every limit the cache holds the keys used last, in
\* the order of their last use, with the value put last; what it dropped was used before
\* (LruCache::get, put).
THEOREM CacheHoldsTheLatest ==
  ASSUME NEW K, NEW W, NEW ops \in Seq([key : K, value : W]), NEW maxSize \in Nat \ {0}
  PROVE  Lru!HoldsTheLatest(ops, maxSize)
<1> DEFINE list == Lru!After(ops, maxSize)
           E == [key : K, value : W]
           Inv(n) == /\ list[n] \in Seq(E)
                     /\ Ordered(list[n], K, LastUses(ops, list, K, n), LastValues(ops, K, n), maxSize)
           T == {n \in Nat : n <= Len(ops) => Inv(n)}
           N == Len(ops)
<1>1. N \in Nat /\ list[0] = <<>> /\ \A n \in 0 .. N - 1 : list[n + 1] = Lru!Applied(list[n], ops[n + 1], maxSize)
  BY History
<1>2. \A n \in 0 .. N - 1 : ops[n + 1].key \in K /\ ops[n + 1].value \in W
  <2> SUFFICES ASSUME NEW n \in 0 .. N - 1 PROVE ops[n + 1].key \in K /\ ops[n + 1].value \in W
    OBVIOUS
  <2>1. n + 1 \in 1 .. Len(ops)
    BY <1>1
  <2> QED
    BY <2>1, Entries
<1> HIDE DEF list
<1>3. 0 \in T
  <2>1. \A k \in K : LastUses(ops, list, K, 0)[k] = 0
    <3> SUFFICES ASSUME NEW k \in K PROVE Lru!LastUse(ops, list, k, 0) = 0
      BY DEF LastUses
    <3>1. {i \in 1 .. 0 : ops[i].key = k /\ (ops[i].value # 0 \/ Lru!ContainsKey(list[i - 1], k))} = {}
      OBVIOUS
    <3> QED
      BY <3>1 DEF Lru!LastUse, Lru!Latest
  <2>2. list[0] \in Seq(E) /\ Len(list[0]) = 0
    BY <1>1
  <2>3. Ordered(list[0], K, LastUses(ops, list, K, 0), LastValues(ops, K, 0), maxSize)
    BY <2>1, <2>2 DEF Ordered
  <2> QED
    BY <2>2, <2>3
<1>4. ASSUME NEW n \in Nat, n \in T PROVE n + 1 \in T
  <2> SUFFICES ASSUME n + 1 <= N PROVE Inv(n + 1)
    BY <1>1
  <2>1. n \in 0 .. N - 1 /\ Inv(n)
    BY <1>1, <1>4
  <2>2. /\ ops[n + 1].key \in K /\ ops[n + 1].value \in W
        /\ list[n + 1] = Lru!Applied(list[n], ops[n + 1], maxSize)
    BY <1>1, <1>2, <2>1
  <2> QED
    BY <2>1, <2>2, AppliedOrdered
<1>5. Inv(N)
  <2>1. N \in T
    <3> HIDE DEF T
    <3> QED
      BY <1>1, <1>3, <1>4, SetInduction
  <2> QED
    BY <1>1, <2>1
<1> DEFINE items == list[N]
           U == LastUses(ops, list, K, N)
           V == LastValues(ops, K, N)
<1>6. items \in Seq(E) /\ DOMAIN items = 1 .. Len(items) /\ Len(items) \in Nat /\ Ordered(items, K, U, V, maxSize)
  BY <1>5
<1>7. \A k \in K : U[k] = Lru!LastUse(ops, list, k, N) /\ V[k] = ops[Lru!LastPut(ops, k, N)].value
  BY DEF LastUses, LastValues
<1>8. \A i \in 1 .. Len(items) : items[i].key \in K
  BY <1>6, Entries
<1>9. \A k \in {ops[i].key : i \in 1 .. N} : k \in K
  BY Entries
<1> HIDE DEF items, U, V, E, N
<1>10. /\ Len(items) <= maxSize
       /\ \A i, j \in DOMAIN items : i < j =>
            Lru!LastUse(ops, list, items[i].key, N) > Lru!LastUse(ops, list, items[j].key, N)
  <2>1. /\ Len(items) <= maxSize
        /\ \A i, j \in 1 .. Len(items) : i < j => U[items[i].key] > U[items[j].key]
    BY <1>6 DEF Ordered
  <2>2. \A i \in DOMAIN items : U[items[i].key] = Lru!LastUse(ops, list, items[i].key, N)
    BY <1>6, <1>7, <1>8
  <2> QED
    BY <1>6, <2>1, <2>2
<1>11. \A i \in DOMAIN items : items[i].value = ops[Lru!LastPut(ops, items[i].key, N)].value
  <2>1. \A i \in 1 .. Len(items) : items[i].value = V[items[i].key]
    BY <1>6 DEF Ordered
  <2> QED
    BY <1>6, <1>7, <1>8, <2>1
<1>12. ASSUME NEW k \in {ops[i].key : i \in 1 .. N},
               Lru!LastUse(ops, list, k, N) # 0, ~Lru!ContainsKey(items, k)
       PROVE  /\ Len(items) = maxSize
              /\ \A i \in DOMAIN items :
                   Lru!LastUse(ops, list, items[i].key, N) > Lru!LastUse(ops, list, k, N)
  <2>1. k \in K /\ U[k] = Lru!LastUse(ops, list, k, N)
    BY <1>7, <1>9
  <2>2. Len(items) = maxSize /\ \A i \in 1 .. Len(items) : U[items[i].key] > U[k]
    BY <1>6, <1>12, <2>1 DEF Ordered
  <2> QED
    BY <1>6, <1>7, <1>8, <2>1, <2>2
<1> QED
  BY <1>10, <1>11, <1>12 DEF Lru!HoldsTheLatest, items, N, list

-----------------------------------------------------------------------------
(* JsonScan: the first balanced object.                                    *)

Scanner == INSTANCE JsonScan

\* What the scan's states are, one after the other.
LEMMA Turns ==
  ASSUME NEW text, Len(text) \in Nat
  PROVE  /\ Scanner!Scanned(text)[0] = Scanner!Begin
         /\ \A n \in 0 .. Len(text) - 1 :
              Scanner!Scanned(text)[n + 1] = Scanner!Scan(Scanner!Scanned(text)[n], text[n + 1])
<1> DEFINE Rec(f, n) == f = [m \in 0 .. n |-> IF m = 0 THEN Scanner!Begin ELSE Scanner!Scan(f[m - 1], text[m])]
           T == {n \in Nat : \E f : Rec(f, n)}
           states == CHOOSE f : Rec(f, Len(text))
<1>1. 0 \in T
  <2>1. Rec([m \in 0 .. 0 |-> Scanner!Begin], 0)
    OBVIOUS
  <2> QED
    BY <2>1
<1>2. ASSUME NEW n \in Nat, n \in T PROVE n + 1 \in T
  <2>1. PICK f : Rec(f, n)
    BY <1>2
  <2> DEFINE g == [m \in 0 .. n + 1 |-> IF m = n + 1 THEN Scanner!Scan(f[n], text[n + 1]) ELSE f[m]]
  <2>2. ASSUME NEW m \in 0 .. n + 1
        PROVE  g[m] = IF m = 0 THEN Scanner!Begin ELSE Scanner!Scan(g[m - 1], text[m])
    <3>1. CASE m = n + 1
      <4>1. n \in 0 .. n + 1 /\ n # n + 1 /\ m - 1 = n /\ m # 0
        BY <3>1
      <4> QED
        BY <3>1, <4>1
    <3>2. CASE m # n + 1 /\ m # 0
      <4>1. m \in 0 .. n /\ m - 1 \in 0 .. n /\ m - 1 \in 0 .. n + 1 /\ m - 1 # n + 1
        BY <3>2
      <4> QED
        BY <2>1, <3>2, <4>1
    <3>3. CASE m = 0
      <4>1. m \in 0 .. n /\ m # n + 1
        BY <3>3
      <4> QED
        BY <2>1, <3>3, <4>1
    <3> QED
      BY <3>1, <3>2, <3>3
  <2>3. Rec(g, n + 1)
    BY <2>2
  <2> HIDE DEF g, Rec
  <2> QED
    BY <2>3
<1>3. Rec(states, Len(text))
  <2>1. Len(text) \in T
    <3> HIDE DEF T
    <3> QED
      BY <1>1, <1>2, SetInduction
  <2>2. \E f : Rec(f, Len(text))
    BY <2>1
  <2> HIDE DEF Rec
  <2> QED
    BY <2>2
<1>4. Scanner!Scanned(text) = states
  BY DEF Scanner!Scanned
<1> HIDE DEF states
<1>5. states[0] = Scanner!Begin
  BY <1>3
<1>6. ASSUME NEW n \in 0 .. Len(text) - 1 PROVE states[n + 1] = Scanner!Scan(states[n], text[n + 1])
  <2>1. n + 1 \in 0 .. Len(text) /\ n + 1 # 0 /\ (n + 1) - 1 = n
    OBVIOUS
  <2> QED
    BY <1>3, <2>1
<1> QED
  BY <1>4, <1>5, <1>6

\* The runs of backslashes that end before a position.
RunsBefore(t, i) == {n \in 0 .. i - 1 : \A j \in i - n .. i - 1 : t[j] = "backslash"}

LEMMA LongestRun ==
  ASSUME NEW t, NEW i \in Nat \ {0}
  PROVE  \E n \in RunsBefore(t, i) : \A m \in RunsBefore(t, i) : m <= n
<1> DEFINE R == RunsBefore(t, i)
           C == {i - n : n \in R}
<1>1. R \subseteq 0 .. i - 1 /\ 0 \in R
  BY DEF RunsBefore
<1> HIDE DEF R
<1>2. C \subseteq Nat /\ C # {}
  <2>1. \A n \in R : i - n \in Nat
    BY <1>1
  <2> QED
    BY <1>1, <2>1
<1>3. PICK c \in C : \A d \in C : c <= d
  BY <1>2, LeastNat
<1>4. PICK n \in R : c = i - n
  OBVIOUS
<1>5. ASSUME NEW m \in R PROVE m <= n
  <2>1. i - m \in C /\ m \in 0 .. i - 1 /\ n \in 0 .. i - 1
    BY <1>1
  <2>2. c <= i - m
    BY <1>3, <2>1
  <2> QED
    BY <1>4, <2>1, <2>2
<1> QED
  BY <1>5 DEF R

\* A position is escaped just when the one before it has a backslash that is not.
LEMMA EscapedNext ==
  ASSUME NEW t, NEW i \in Nat \ {0}
  PROVE  Scanner!Escaped(t, i + 1) <=> t[i] = "backslash" /\ ~Scanner!Escaped(t, i)
<1> DEFINE L(k) == CHOOSE n \in RunsBefore(t, k) : \A m \in RunsBefore(t, k) : m <= n
           a == L(i)
           b == L(i + 1)
<1>1. Scanner!Escaped(t, i) <=> a % 2 = 1
  BY DEF Scanner!Escaped, RunsBefore
<1>2. Scanner!Escaped(t, i + 1) <=> b % 2 = 1
  BY DEF Scanner!Escaped, RunsBefore
<1>3. a \in RunsBefore(t, i) /\ \A m \in RunsBefore(t, i) : m <= a
  BY LongestRun
<1>4. b \in RunsBefore(t, i + 1) /\ \A m \in RunsBefore(t, i + 1) : m <= b
  BY LongestRun
<1> HIDE DEF a, b, L
<1>5. a \in 0 .. i - 1 /\ b \in 0 .. i
  BY <1>3, <1>4 DEF RunsBefore
<1>6. CASE t[i] = "backslash"
  <2>1. a + 1 \in RunsBefore(t, i + 1)
    <3>1. a + 1 \in 0 .. (i + 1) - 1
      BY <1>5
    <3>2. ASSUME NEW j \in (i + 1) - (a + 1) .. (i + 1) - 1 PROVE t[j] = "backslash"
      <4>1. j = i \/ j \in i - a .. i - 1
        BY <1>5
      <4> QED
        BY <1>3, <1>6, <4>1 DEF RunsBefore
    <3> QED
      BY <3>1, <3>2 DEF RunsBefore
  <2>2. b >= 1
    BY <1>4, <1>5, <2>1
  <2>3. b - 1 \in RunsBefore(t, i)
    <3>1. b - 1 \in 0 .. i - 1
      BY <1>5, <2>2
    <3>2. ASSUME NEW j \in i - (b - 1) .. i - 1 PROVE t[j] = "backslash"
      <4>1. j \in (i + 1) - b .. (i + 1) - 1
        BY <1>5
      <4> QED
        BY <1>4, <4>1 DEF RunsBefore
    <3> QED
      BY <3>1, <3>2 DEF RunsBefore
  <2>4. b = a + 1
    BY <1>3, <1>4, <1>5, <2>1, <2>3
  <2>5. (a + 1) % 2 = 1 <=> ~(a % 2 = 1)
    BY <1>5
  <2> QED
    BY <1>1, <1>2, <1>6, <2>4, <2>5
<1>7. CASE t[i] # "backslash"
  <2>1. ASSUME b # 0 PROVE FALSE
    <3>1. i \in (i + 1) - b .. (i + 1) - 1
      BY <1>5, <2>1
    <3> QED
      BY <1>4, <1>7, <3>1 DEF RunsBefore
  <2>2. 0 % 2 = 0
    OBVIOUS
  <2> QED
    BY <1>2, <1>7, <2>1, <2>2
<1> QED
  BY <1>6, <1>7

LEMMA SameCardinality == \A A : Scanner!Cardinality(A) = Cardinality(A)
BY DEF Scanner!Cardinality, Cardinality

\* The elements of a set of positions up to a place, and how many there are.
UpTo(A, n) == {i \in A : i <= n}
Many(A, n) == Cardinality(UpTo(A, n))

LEMMA OneMore ==
  ASSUME NEW A, A \subseteq Nat \ {0}, NEW n \in Nat
  PROVE  /\ Many(A, n) \in Nat
         /\ Many(A, n + 1) = IF n + 1 \in A THEN Many(A, n) + 1 ELSE Many(A, n)
<1>1. UpTo(A, n) \subseteq 1 .. n
  <2>1. \A i \in A : i <= n => i \in 1 .. n
    OBVIOUS
  <2> QED
    BY <2>1 DEF UpTo
<1>2. IsFiniteSet(UpTo(A, n))
  BY <1>1, FS_Interval, FS_Subset
<1>3. \A i \in A : i <= n + 1 <=> i <= n \/ i = n + 1
  OBVIOUS
<1>4. ~(n + 1 <= n)
  OBVIOUS
<1>5. n + 1 \notin UpTo(A, n)
  BY <1>4 DEF UpTo
<1>6. UpTo(A, n + 1) = IF n + 1 \in A THEN UpTo(A, n) \union {n + 1} ELSE UpTo(A, n)
  BY <1>3 DEF UpTo
<1>7. Cardinality(UpTo(A, n) \union {n + 1}) = Cardinality(UpTo(A, n)) + 1
  BY <1>2, <1>5, FS_AddElement
<1>8. Cardinality(UpTo(A, n)) \in Nat
  BY <1>2, FS_CardinalityType
<1> QED
  BY <1>7, <1>8, <1>6 DEF Many

\* The scan is in a string behind an odd number of quotes.
InString(t, n) == Many(Scanner!Quotes(t), n) % 2 = 1

LEMMA InStringNext ==
  ASSUME NEW C, NEW t \in Seq(C), NEW n \in 0 .. Len(t) - 1
  PROVE  InString(t, n + 1) <=>
           IF t[n + 1] = "quote" /\ ~Scanner!Escaped(t, n + 1) THEN ~InString(t, n) ELSE InString(t, n)
<1> DEFINE A == Scanner!Quotes(t)
           a == Many(A, n)
<1>1. A \subseteq Nat \ {0} /\ n \in Nat /\ n + 1 \in DOMAIN t
  BY DEF Scanner!Quotes, Scanner!Positions
<1>2. n + 1 \in A <=> t[n + 1] = "quote" /\ ~Scanner!Escaped(t, n + 1)
  BY <1>1 DEF Scanner!Quotes, Scanner!Positions
<1> HIDE DEF A
<1>3. a \in Nat /\ Many(A, n + 1) = IF n + 1 \in A THEN a + 1 ELSE a
  BY <1>1, OneMore
<1> HIDE DEF a
<1>4. (a + 1) % 2 = 1 <=> ~(a % 2 = 1)
  BY <1>3
<1> QED
  BY <1>2, <1>3, <1>4 DEF InString, A, a

LEMMA OutsideIs ==
  ASSUME NEW C, NEW t \in Seq(C), NEW c, NEW n \in 0 .. Len(t) - 1
  PROVE  n + 1 \in Scanner!Outside(t, c) <=> t[n + 1] = c /\ ~InString(t, n)
<1> DEFINE A == Scanner!Quotes(t)
<1>1. A \subseteq Nat \ {0} /\ n \in Nat /\ n + 1 \in DOMAIN t
  BY DEF Scanner!Quotes, Scanner!Positions
<1>2. n + 1 \in Scanner!Outside(t, c) <=> t[n + 1] = c /\ Cardinality({q \in A : q < n + 1}) % 2 = 0
  <2>1. n + 1 \in Scanner!Positions(t, c) <=> t[n + 1] = c
    BY <1>1 DEF Scanner!Positions
  <2>2. n + 1 \in Scanner!Outside(t, c) <=>
          n + 1 \in Scanner!Positions(t, c) /\ Cardinality({q \in A : q < n + 1}) % 2 = 0
    BY SameCardinality, Zenon DEF Scanner!Outside
  <2> QED
    BY <2>1, <2>2
<1> HIDE DEF A
<1>3. {q \in A : q < n + 1} = UpTo(A, n)
  <2>1. \A q \in A : q < n + 1 <=> q <= n
    BY <1>1
  <2> QED
    BY <2>1 DEF UpTo
<1>4. Many(A, n) \in Nat
  BY <1>1, OneMore
<1>5. Many(A, n) % 2 = 0 <=> ~(Many(A, n) % 2 = 1)
  BY <1>4
<1> QED
  BY <1>2, <1>3, <1>5 DEF InString, Many, A

Opens(t) == Scanner!Outside(t, "{")
Closes(t) == Scanner!Outside(t, "}")
Ends(t) == {n \in Closes(t) : Scanner!Closed(t, n)}

LEMMA PlacesIn ==
  ASSUME NEW C, NEW t \in Seq(C), NEW c
  PROVE  /\ Scanner!Outside(t, c) \subseteq 1 .. Len(t) /\ Opens(t) \subseteq 1 .. Len(t)
         /\ Closes(t) \subseteq 1 .. Len(t) /\ Ends(t) \subseteq 1 .. Len(t)
         /\ Scanner!Quotes(t) \subseteq 1 .. Len(t) /\ 1 .. Len(t) \subseteq Nat \ {0}
<1>1. \A d : Scanner!Positions(t, d) \subseteq 1 .. Len(t)
  <2>1. DOMAIN t = 1 .. Len(t)
    OBVIOUS
  <2> QED
    BY <2>1 DEF Scanner!Positions
<1>2. \A d : Scanner!Outside(t, d) \subseteq 1 .. Len(t)
  BY <1>1, Zenon DEF Scanner!Outside
<1>3. \A i \in 1 .. Len(t) : i \in Nat \ {0}
  OBVIOUS
<1>4. Opens(t) \subseteq 1 .. Len(t) /\ Closes(t) \subseteq 1 .. Len(t)
  BY <1>2 DEF Opens, Closes
<1>5. Ends(t) \subseteq 1 .. Len(t)
  BY <1>4 DEF Ends
<1>6. Scanner!Quotes(t) \subseteq 1 .. Len(t)
  BY <1>1 DEF Scanner!Quotes
<1> QED
  BY <1>2, <1>3, <1>4, <1>5, <1>6

LEMMA EndsAre ==
  ASSUME NEW C, NEW t \in Seq(C), NEW n \in 0 .. Len(t) - 1
  PROVE  n + 1 \in Ends(t) <=>
           t[n + 1] = "}" /\ ~InString(t, n) /\ Many(Opens(t), n + 1) = Many(Closes(t), n + 1)
<1>1. n + 1 \in Closes(t) <=> t[n + 1] = "}" /\ ~InString(t, n)
  BY OutsideIs DEF Closes
<1>2. Scanner!Closed(t, n + 1) <=> Many(Opens(t), n + 1) = Many(Closes(t), n + 1)
  BY SameCardinality, Zenon DEF Scanner!Closed, Many, UpTo, Opens, Closes
<1> QED
  BY <1>1, <1>2 DEF Ends

\* Between the first turn and the end the scan knows whether it is in a string, whether the
\* next character is behind a backslash and how many braces are open; it stops at the first
\* end.
ScanStates == [depth : Int, inString : BOOLEAN, escape : BOOLEAN, end : Nat, at : Nat]
Scanning(t, st, n) ==
  /\ st.end = 0 /\ st.at = n
  /\ st.inString <=> InString(t, n)
  /\ st.escape <=> InString(t, n) /\ Scanner!Escaped(t, n + 1)
  /\ st.depth = Many(Opens(t), n) - Many(Closes(t), n)
  /\ \A k \in Ends(t) : k > n
Ended(t, st, n) == st.end \in Ends(t) /\ st.end <= n /\ st.end # 0 /\ \A k \in Ends(t) : st.end <= k
ScanInv(t, st, n) == st \in ScanStates /\ (Scanning(t, st, n) \/ Ended(t, st, n))

\* Outside of strings there is no backslash, hence nothing behind one.
LEMMA NoEscapeOutside ==
  ASSUME NEW C, NEW t \in Seq(C), Scanner!Outside(t, "backslash") = {},
         NEW n \in 0 .. Len(t) - 1, ~InString(t, n)
  PROVE  t[n + 1] # "backslash" /\ ~Scanner!Escaped(t, n + 1)
<1>1. t[n + 1] # "backslash"
  BY OutsideIs
<1>2. CASE n = 0
  <2>1. 1 + 1 = 2 /\ n + 1 = 1 /\ 0 % 2 = 0 /\ \A m \in 0 .. 1 - 1 : m = 0
    BY <1>2
  <2>2. PICK l \in RunsBefore(t, 1) : \A m \in RunsBefore(t, 1) : m <= l
    BY LongestRun
  <2>3. \A m \in RunsBefore(t, 1) : m = 0
    BY <2>1 DEF RunsBefore
  <2>4. Scanner!Escaped(t, 1) <=> (CHOOSE k \in RunsBefore(t, 1) : \A m \in RunsBefore(t, 1) : m <= k) % 2 = 1
    BY DEF Scanner!Escaped, RunsBefore
  <2> DEFINE a == CHOOSE k \in RunsBefore(t, 1) : \A m \in RunsBefore(t, 1) : m <= k
  <2>5. a \in RunsBefore(t, 1)
    BY <2>2
  <2>6. a = 0
    BY <2>3, <2>5
  <2> HIDE DEF a
  <2>7. ~(a % 2 = 1)
    BY <2>1, <2>6
  <2> QED
    BY <1>1, <2>1, <2>4, <2>7 DEF a
<1>3. CASE n # 0
  <2>1. n - 1 \in 0 .. Len(t) - 1 /\ (n - 1) + 1 = n /\ n \in Nat \ {0}
    BY <1>3
  <2>2. Scanner!Escaped(t, n + 1) => t[n] = "backslash"
    BY <2>1, EscapedNext
  <2>3. t[n] = "backslash" => InString(t, n - 1)
    BY <2>1, OutsideIs
  <2>4. t[n] = "backslash" => (InString(t, n) <=> InString(t, n - 1))
    BY <2>1, InStringNext
  <2> QED
    BY <1>1, <2>2, <2>3, <2>4
<1> QED
  BY <1>2, <1>3

LEMMA ScanKeeps ==
  ASSUME NEW C, NEW t \in Seq(C), Scanner!Outside(t, "backslash") = {},
         NEW n \in 0 .. Len(t) - 1, NEW st, ScanInv(t, st, n)
  PROVE  ScanInv(t, Scanner!Scan(st, t[n + 1]), n + 1)
<1> DEFINE c == t[n + 1]
           new == Scanner!Scan(st, c)
           now == [st EXCEPT !.at = @ + 1]
           in == InString(t, n)
           esc == Scanner!Escaped(t, n + 1)
           o == Many(Opens(t), n)
           k == Many(Closes(t), n)
<1>1. n \in Nat /\ st \in ScanStates
  BY DEF ScanInv
<1>2. InString(t, n + 1) <=> IF c = "quote" /\ ~esc THEN ~in ELSE in
  BY InStringNext
<1>3. Scanner!Escaped(t, (n + 1) + 1) <=> c = "backslash" /\ ~esc
  BY <1>1, EscapedNext
<1>4. ~in => c # "backslash" /\ ~esc
  BY NoEscapeOutside
<1>5. /\ o \in Nat /\ k \in Nat
      /\ Many(Opens(t), n + 1) = IF c = "{" /\ ~in THEN o + 1 ELSE o
      /\ Many(Closes(t), n + 1) = IF c = "}" /\ ~in THEN k + 1 ELSE k
  <2>1. Opens(t) \subseteq Nat \ {0} /\ Closes(t) \subseteq Nat \ {0}
    BY PlacesIn
  <2>2. n + 1 \in Opens(t) <=> c = "{" /\ ~in
    BY OutsideIs DEF Opens
  <2>3. n + 1 \in Closes(t) <=> c = "}" /\ ~in
    BY OutsideIs DEF Closes
  <2> QED
    BY <1>1, <2>1, <2>2, <2>3, OneMore
<1>6. n + 1 \in Ends(t) <=> c = "}" /\ ~in /\ Many(Opens(t), n + 1) = Many(Closes(t), n + 1)
  BY EndsAre
<1>7. Ends(t) \subseteq Nat
  BY PlacesIn
<1>8. CASE Ended(t, st, n)
  <2>1. new = st
    BY <1>8 DEF Scanner!Scan, Ended
  <2>2. Ended(t, st, n + 1)
    BY <1>1, <1>7, <1>8 DEF Ended
  <2> QED
    BY <1>1, <2>1, <2>2 DEF ScanInv
<1>9. CASE Scanning(t, st, n)
  <2>1. now \in ScanStates /\ now.end = 0 /\ now.at = n + 1 /\ now.depth = st.depth
          /\ now.inString = st.inString /\ now.escape = st.escape
    BY <1>1, <1>9 DEF Scanning, ScanStates
  <2>2. st.depth \in Int
    BY <1>1 DEF ScanStates
  <2>3. n + 1 \notin Ends(t) => \A e \in Ends(t) : e > n + 1
    <3> SUFFICES ASSUME n + 1 \notin Ends(t), NEW e \in Ends(t) PROVE e > n + 1
      OBVIOUS
    <3>1. e > n /\ e # n + 1 /\ e \in Nat
      BY <1>7, <1>9 DEF Scanning
    <3> QED
      BY <1>1, <3>1
  <2>4. CASE in
    <3>1. new = [now EXCEPT !.escape = ~st.escape /\ c = "backslash", !.inString = st.escape \/ c # "quote"]
      BY <1>9, <2>4 DEF Scanner!Scan, Scanning
    <3>2. /\ new \in ScanStates /\ new.end = 0 /\ new.at = n + 1 /\ new.depth = st.depth
          /\ new.escape <=> ~st.escape /\ c = "backslash"
          /\ new.inString <=> st.escape \/ c # "quote"
      BY <2>1, <3>1 DEF ScanStates
    <3>3. st.escape <=> esc
      BY <1>9, <2>4 DEF Scanning
    <3>4. new.inString <=> InString(t, n + 1)
      BY <1>2, <2>4, <3>2, <3>3
    <3>5. new.escape <=> InString(t, n + 1) /\ Scanner!Escaped(t, (n + 1) + 1)
      BY <1>2, <1>3, <2>4, <3>2, <3>3
    <3>6. new.depth = Many(Opens(t), n + 1) - Many(Closes(t), n + 1)
      BY <1>5, <1>9, <2>4, <3>2 DEF Scanning
    <3>7. \A e \in Ends(t) : e > n + 1
      BY <1>6, <2>3, <2>4
    <3> QED
      BY <3>2, <3>4, <3>5, <3>6, <3>7 DEF ScanInv, Scanning
  <2>5. CASE ~in
    <3>1. ~st.inString /\ ~st.escape /\ ~esc /\ c # "backslash" /\ st.end = 0 /\ st.depth = o - k
      BY <1>4, <1>9, <2>5 DEF Scanning
    <3>2. ~Scanner!Escaped(t, (n + 1) + 1)
      BY <1>3, <3>1
    <3>3. InString(t, n + 1) <=> c = "quote"
      BY <1>2, <2>5, <3>1
    <3>4. CASE c = "quote"
      <4>1. new = [now EXCEPT !.inString = TRUE]
        BY <3>1, <3>4 DEF Scanner!Scan
      <4>2. new \in ScanStates /\ new.end = 0 /\ new.at = n + 1 /\ new.depth = st.depth
              /\ new.inString /\ ~new.escape
        BY <2>1, <3>1, <4>1 DEF ScanStates
      <4>3. \A e \in Ends(t) : e > n + 1
        BY <1>6, <2>3, <3>4
      <4>4. new.depth = Many(Opens(t), n + 1) - Many(Closes(t), n + 1)
        BY <1>5, <3>1, <3>4, <4>2
      <4> QED
        BY <3>2, <3>3, <3>4, <4>2, <4>3, <4>4 DEF ScanInv, Scanning
    <3>5. CASE c = "{"
      <4>1. new = [now EXCEPT !.depth = @ + 1]
        BY <3>1, <3>5 DEF Scanner!Scan
      <4>2. new \in ScanStates /\ new.end = 0 /\ new.at = n + 1 /\ new.depth = st.depth + 1
              /\ ~new.inString /\ ~new.escape
        <5> HIDE DEF now, new
        <5> QED
          BY <2>1, <3>1, <4>1 DEF ScanStates
      <4>3. \A e \in Ends(t) : e > n + 1
        BY <1>6, <2>3, <3>5
      <4>4. new.depth = Many(Opens(t), n + 1) - Many(Closes(t), n + 1)
        <5>1. Many(Opens(t), n + 1) = o + 1 /\ Many(Closes(t), n + 1) = k /\ o \in Nat /\ k \in Nat
          BY <1>5, <2>5, <3>5
        <5>2. new.depth = (o - k) + 1
          BY <3>1, <4>2
        <5> HIDE DEF new, o, k
        <5>3. (o + 1) - (k) = (o - k) + 1
          BY <5>1
        <5> QED
          BY <5>1, <5>2, <5>3
      <4> QED
        BY <3>2, <3>3, <3>5, <4>2, <4>3, <4>4 DEF ScanInv, Scanning
    <3>6. CASE c = "}"
      <4>1. new = [now EXCEPT !.depth = @ - 1, !.end = IF st.depth = 1 THEN now.at ELSE 0]
        BY <3>1, <3>6 DEF Scanner!Scan
      <4>2. new \in ScanStates /\ new.at = n + 1 /\ new.depth = st.depth - 1
              /\ ~new.inString /\ ~new.escape /\ new.end = IF st.depth = 1 THEN n + 1 ELSE 0
        <5> HIDE DEF now, new
        <5>1. now.depth - 1 \in Int /\ (IF st.depth = 1 THEN now.at ELSE 0) \in Nat
          BY <1>1, <2>1, <2>2
        <5> QED
          BY <2>1, <3>1, <4>1, <5>1 DEF ScanStates
      <4>3. new.depth = Many(Opens(t), n + 1) - Many(Closes(t), n + 1)
        <5>1. Many(Opens(t), n + 1) = o /\ Many(Closes(t), n + 1) = k + 1 /\ o \in Nat /\ k \in Nat
          BY <1>5, <2>5, <3>6
        <5>2. new.depth = (o - k) - 1
          BY <3>1, <4>2
        <5> HIDE DEF new, o, k
        <5>3. (o) - (k + 1) = (o - k) - 1
          BY <5>1
        <5> QED
          BY <5>1, <5>2, <5>3
      <4>4. n + 1 \in Ends(t) <=> st.depth = 1
        <5>1. Many(Opens(t), n + 1) = o /\ Many(Closes(t), n + 1) = k + 1 /\ o \in Nat /\ k \in Nat
          BY <1>5, <2>5, <3>6
        <5>2. n + 1 \in Ends(t) <=> o = k + 1
          BY <1>6, <2>5, <3>6, <5>1
        <5>3. st.depth = o - k
          BY <3>1
        <5> HIDE DEF o, k
        <5>4. o - k = 1 <=> o = k + 1
          BY <5>1
        <5> QED
          BY <5>2, <5>3, <5>4
      <4>5. CASE st.depth = 1
        <5>1. \A e \in Ends(t) : n + 1 <= e
          <6> SUFFICES ASSUME NEW e \in Ends(t) PROVE n + 1 <= e
            OBVIOUS
          <6>1. e > n /\ e \in Nat
            BY <1>7, <1>9 DEF Scanning
          <6> QED
            BY <1>1, <6>1
        <5>2. new.end = n + 1 /\ n + 1 # 0 /\ n + 1 <= n + 1
          BY <1>1, <4>2, <4>5
        <5>3. Ended(t, new, n + 1)
          BY <4>4, <4>5, <5>1, <5>2 DEF Ended
        <5> QED
          BY <4>2, <5>3 DEF ScanInv
      <4>6. CASE st.depth # 1
        <5>1. new.end = 0 /\ \A e \in Ends(t) : e > n + 1
          BY <2>3, <4>2, <4>4, <4>6
        <5> QED
          BY <3>2, <3>3, <3>6, <4>2, <4>3, <5>1 DEF ScanInv, Scanning
      <4> QED
        BY <4>5, <4>6
    <3>7. CASE c # "quote" /\ c # "{" /\ c # "}"
      <4>1. new = now
        BY <3>1, <3>7 DEF Scanner!Scan
      <4>2. \A e \in Ends(t) : e > n + 1
        BY <1>6, <2>3, <3>7
      <4>3. new.depth = Many(Opens(t), n + 1) - Many(Closes(t), n + 1)
        BY <1>5, <2>1, <3>1, <3>7, <4>1
      <4> QED
        BY <2>1, <3>1, <3>2, <3>3, <3>7, <4>1, <4>2, <4>3 DEF ScanInv, Scanning
    <3> QED
      BY <3>4, <3>5, <3>6, <3>7
  <2> QED
    BY <2>4, <2>5
<1> QED
  BY <1>8, <1>9 DEF ScanInv

\* For a text of any length, with any characters: what is extracted begins at the first brace
\* and ends where, strings apart, as many braces are closed as were opened; it is empty when
\* there is no such end (extractFirstJsonObject).
THEOREM ExtractsTheFirstObject ==
  ASSUME NEW C, NEW text \in Seq(C)
  PROVE  Scanner!IsFirstObject(text, Scanner!ExtractFirstJsonObject(text))
<1> DEFINE starts == Scanner!Positions(text, "{")
           t == SubSeq(text, Scanner!First(starts), Len(text))
           N == Len(t)
           states == Scanner!Scanned(t)
           end == states[N].end
<1>1. CASE starts = {}
  BY <1>1 DEF Scanner!IsFirstObject, Scanner!ExtractFirstJsonObject
<1>2. CASE starts # {}
  <2>1. Scanner!ExtractFirstJsonObject(text) = SubSeq(t, 1, end)
    BY <1>2 DEF Scanner!ExtractFirstJsonObject
  <2>2. SUFFICES ASSUME Scanner!Outside(t, "backslash") = {}
                 PROVE  SubSeq(t, 1, end) = IF Ends(t) = {} THEN <<>> ELSE SubSeq(t, 1, Scanner!First(Ends(t)))
    BY <1>2, <2>1 DEF Scanner!IsFirstObject, Ends, Closes
  <2>3. t \in Seq(C) /\ N \in Nat
    <3>1. starts \subseteq 1 .. Len(text)
      <4>1. DOMAIN text = 1 .. Len(text)
        OBVIOUS
      <4> QED
        BY <4>1 DEF Scanner!Positions
    <3>2. PICK f \in starts : \A j \in starts : f <= j
      <4>1. \A i \in 1 .. Len(text) : i \in Nat
        OBVIOUS
      <4> HIDE DEF starts
      <4> QED
        BY <1>2, <3>1, <4>1, LeastNat
    <3>3. Scanner!First(starts) \in starts
      BY <3>2 DEF Scanner!First
    <3> HIDE DEF starts
    <3>4. Scanner!First(starts) \in 1 .. Len(text)
      BY <3>1, <3>3
    <3> QED
      BY <3>4
  <2> HIDE DEF t
  <2> DEFINE T == {n \in Nat : n <= N => ScanInv(t, states[n], n)}
  <2>4. states[0] = Scanner!Begin /\ \A n \in 0 .. N - 1 : states[n + 1] = Scanner!Scan(states[n], t[n + 1])
    BY <2>3, Turns
  <2> HIDE DEF states
  <2>5. 0 \in T
    <3>1. \A A : A \subseteq Nat \ {0} => Many(A, 0) = 0
      <4> SUFFICES ASSUME NEW A, A \subseteq Nat \ {0} PROVE Many(A, 0) = 0
        OBVIOUS
      <4>1. UpTo(A, 0) = {}
        <5>1. \A i \in A : ~(i <= 0)
          OBVIOUS
        <5> QED
          BY <5>1 DEF UpTo
      <4> QED
        BY <4>1, FS_EmptySet DEF Many
    <3>2. /\ Opens(t) \subseteq Nat \ {0} /\ Closes(t) \subseteq Nat \ {0} /\ Ends(t) \subseteq Nat \ {0}
          /\ Scanner!Quotes(t) \subseteq Nat \ {0}
      BY <2>3, PlacesIn
    <3>3. ~InString(t, 0)
      BY <3>1, <3>2 DEF InString
    <3>4. Scanner!Begin \in ScanStates /\ Scanning(t, Scanner!Begin, 0)
      BY <3>1, <3>2, <3>3 DEF Scanner!Begin, ScanStates, Scanning
    <3> QED
      BY <2>4, <3>4 DEF ScanInv
  <2>6. ASSUME NEW n \in Nat, n \in T PROVE n + 1 \in T
    <3> SUFFICES ASSUME n + 1 <= N PROVE ScanInv(t, states[n + 1], n + 1)
      BY <2>3
    <3>1. n \in 0 .. N - 1 /\ ScanInv(t, states[n], n)
      BY <2>3, <2>6
    <3>2. states[n + 1] = Scanner!Scan(states[n], t[n + 1])
      BY <2>4, <3>1
    <3> QED
      BY <2>2, <2>3, <3>1, <3>2, ScanKeeps
  <2>7. ScanInv(t, states[N], N)
    <3>1. N \in T
      <4> HIDE DEF T
      <4> QED
        BY <2>3, <2>5, <2>6, SetInduction
    <3> QED
      BY <2>3, <3>1
  <2>8. Ends(t) \subseteq 1 .. N
    BY <2>3, PlacesIn
  <2>9. CASE Scanning(t, states[N], N)
    <3>1. Ends(t) = {}
      BY <2>3, <2>8, <2>9 DEF Scanning
    <3>2. end = 0 /\ SubSeq(t, 1, 0) = <<>>
      BY <2>3, <2>9 DEF Scanning
    <3> QED
      BY <3>1, <3>2
  <2>10. CASE Ended(t, states[N], N)
    <3>1. end \in Ends(t) /\ \A k \in Ends(t) : end <= k
      BY <2>10 DEF Ended
    <3> HIDE DEF end
    <3>2. \A i \in Ends(t) : (\A j \in Ends(t) : i <= j) => i = end
      <4> SUFFICES ASSUME NEW i \in Ends(t), i <= end PROVE i = end
        BY <3>1
      <4>1. end <= i /\ i \in Nat /\ end \in Nat
        BY <2>8, <3>1
      <4> QED
        BY <4>1
    <3>3. Scanner!First(Ends(t)) = end
      BY <3>1, <3>2 DEF Scanner!First
    <3> QED
      BY <3>1, <3>3
  <2> QED
    BY <2>7, <2>9, <2>10 DEF ScanInv
<1> QED
  BY <1>1, <1>2


-----------------------------------------------------------------------------
(* CommandRouter: the menu.                                                *)

Router == INSTANCE CommandRouter

LEMMA SetListed ==
  ASSUME NEW S, IsFiniteSet(S)
  PROVE  /\ Router!SetToSeq(S) \in Seq(S)
         /\ \A x \in S : \E i \in 1 .. Len(Router!SetToSeq(S)) : Router!SetToSeq(S)[i] = x
<1> DEFINE N == Cardinality(S)
           f == SetToSeq(S)
<1>1. N \in Nat /\ ExistsBijection(1 .. N, S)
  BY FS_CardinalityType
<1>2. f \in [1 .. N -> S] /\ IsInjective(f)
  <2>1. PICK g \in [1 .. N -> S] : IsInjective(g)
    BY <1>1 DEF ExistsBijection, Bijection, Injection
  <2> QED
    BY <2>1 DEF SetToSeq
<1>3. f \in Injection(1 .. N, S)
  BY <1>2 DEF Injection
<1> HIDE DEF N, f
<1>4. f \in Surjection(1 .. N, S)
  <2>1. IsFiniteSet(1 .. N) /\ Cardinality(1 .. N) = N
    BY <1>1, FS_Interval
  <2> QED
    BY <1>3, <2>1, FS_Injection DEF N
<1>5. f \in Seq(S) /\ Len(f) = N /\ \A x \in S : \E i \in 1 .. N : f[i] = x
  BY <1>1, <1>2, <1>4 DEF Surjection
<1>6. Router!SetToSeq(S) = f
  BY Zenon DEF Router!SetToSeq, Router!Cardinality, Router!IsInjective, SetToSeq, Cardinality, IsInjective, f
<1> QED
  BY <1>5, <1>6

\* The program's own names, one after the other.
LEMMA OwnNames ==
  LET names == Router!Own \o Router!Creating IN
  /\ DOMAIN names = 1 .. 10
  /\ \A i \in 1 .. 10 : IF i <= 6 THEN names[i] \in Router!ToSet(Router!Own) /\ names[i] \notin Router!Prefixed
                                  ELSE names[i] \in Router!ToSet(Router!Creating)
  /\ \A x \in Router!ToSet(Router!Own) \union Router!ToSet(Router!Creating) : \E i \in 1 .. 10 : names[i] = x
  /\ Router!Prefixed = Router!ToSet(Router!Creating) \union {"create_other"}
<1> DEFINE names == Router!Own \o Router!Creating
           O == {"quit", "clear", "sessions", "agents", "skills", "reload-skills"}
           P == {"create_skill", "create_command", "create_agent", "create_rule"}
<1>1. Router!ToSet(Router!Own) = O
  BY DEF Router!ToSet, Router!Own
<1>2. Router!ToSet(Router!Creating) = P
  BY DEF Router!ToSet, Router!Creating
<1>3. Router!Prefixed = P \union {"create_other"}
  BY <1>2 DEF Router!Prefixed
<1>4. /\ DOMAIN names = 1 .. 10 /\ names[1] = "quit" /\ names[2] = "clear" /\ names[3] = "sessions"
      /\ names[4] = "agents" /\ names[5] = "skills" /\ names[6] = "reload-skills"
      /\ names[7] = "create_skill" /\ names[8] = "create_command" /\ names[9] = "create_agent"
      /\ names[10] = "create_rule"
  BY DEF Router!Own, Router!Creating
<1> HIDE DEF names
<1>5. ASSUME NEW i \in 1 .. 10
      PROVE  IF i <= 6 THEN names[i] \in O /\ names[i] \notin P \union {"create_other"} ELSE names[i] \in P
  <2>1. \/ i = 1 \/ i = 2 \/ i = 3 \/ i = 4 \/ i = 5 \/ i = 6 \/ i = 7 \/ i = 8 \/ i = 9 \/ i = 10
    OBVIOUS
  <2> QED
    BY <1>4, <2>1
<1>6. ASSUME NEW x \in O \union P PROVE \E i \in 1 .. 10 : names[i] = x
  <2>1. 1 \in 1 .. 10 /\ 2 \in 1 .. 10 /\ 3 \in 1 .. 10 /\ 4 \in 1 .. 10 /\ 5 \in 1 .. 10
          /\ 6 \in 1 .. 10 /\ 7 \in 1 .. 10 /\ 8 \in 1 .. 10 /\ 9 \in 1 .. 10 /\ 10 \in 1 .. 10
    OBVIOUS
  <2> QED
    BY <1>4, <2>1
<1> QED
  BY <1>1, <1>2, <1>3, <1>4, <1>5, <1>6 DEF names

\* The menu's part of one kind.
OfKind(D, kind) == {[name |-> n, runs |-> kind] : n \in D}

LEMMA KindListed ==
  ASSUME NEW D, IsFiniteSet(D), NEW kind, NEW s, s = Router!SetToSeq(OfKind(D, kind))
  PROVE  /\ s \in Seq(OfKind(D, kind)) /\ Len(s) \in Nat /\ DOMAIN s = 1 .. Len(s)
         /\ \A i \in 1 .. Len(s) : s[i].name \in D /\ s[i].runs = kind
         /\ \A n \in D : \E i \in 1 .. Len(s) : s[i].name = n
<1> DEFINE S == OfKind(D, kind)
           f == [n \in D |-> [name |-> n, runs |-> kind]]
<1>1. f \in Surjection(D, S)
  BY DEF Surjection, OfKind
<1>2. IsFiniteSet(S)
  BY <1>1, FS_Surjection
<1>3. ASSUME NEW x \in S PROVE x.name \in D /\ x.runs = kind
  <2>1. PICK n \in D : x = [name |-> n, runs |-> kind]
    BY DEF OfKind
  <2> QED
    BY <2>1
<1>4. ASSUME NEW n \in D PROVE \E x \in S : x.name = n
  <2>1. [name |-> n, runs |-> kind] \in S
    BY DEF OfKind
  <2> QED
    BY <2>1
<1> HIDE DEF S
<1>5. s \in Seq(S) /\ \A x \in S : \E i \in 1 .. Len(s) : s[i] = x
  BY <1>2, SetListed DEF S
<1>6. DOMAIN s = 1 .. Len(s) /\ Len(s) \in Nat /\ \A i \in 1 .. Len(s) : s[i] \in S
  BY <1>5
<1>7. \A n \in D : \E i \in 1 .. Len(s) : s[i].name = n
  BY <1>4, <1>5
<1> QED
  BY <1>3, <1>5, <1>6, <1>7 DEF S

LEMMA Joint ==
  ASSUME NEW A, NEW s \in Seq(A), NEW r \in Seq(A)
  PROVE  /\ s \o r \in Seq(A) /\ Len(s \o r) = Len(s) + Len(r)
         /\ \A i \in 1 .. Len(s) : (s \o r)[i] = s[i]
         /\ \A i \in 1 .. Len(r) : (s \o r)[Len(s) + i] = r[i]
<1>1. Len(s) \in Nat /\ Len(r) \in Nat
  OBVIOUS
<1>2. /\ s \o r \in Seq(A) /\ Len(s \o r) = Len(s) + Len(r)
      /\ \A i \in 1 .. Len(s) + Len(r) : (s \o r)[i] = IF i <= Len(s) THEN s[i] ELSE r[i - Len(s)]
  BY ConcatProperties
<1>3. \A i \in 1 .. Len(s) : i \in 1 .. Len(s) + Len(r) /\ i <= Len(s)
  BY <1>1
<1>4. \A i \in 1 .. Len(r) : /\ Len(s) + i \in 1 .. Len(s) + Len(r) /\ ~(Len(s) + i <= Len(s))
                             /\ (Len(s) + i) - Len(s) = i
  BY <1>1
<1> QED
  BY <1>2, <1>3, <1>4

\* Whatever names the templates and the skills have taken: the first entry of a name in the
\* menu is what the name runs (commands, handle, onSubmit).
THEOREM MenuAndRouterAgree ==
  ASSUME NEW templates, NEW skills, IsFiniteSet(DOMAIN templates), IsFiniteSet(DOMAIN skills)
  PROVE  Router!MenuRuns(templates, skills)
<1> DEFINE names == Router!Own \o Router!Creating
           F == [i \in DOMAIN names |-> [name |-> names[i], runs |-> names[i]]]
           TS == OfKind(DOMAIN templates, "template")
           KS == OfKind(DOMAIN skills, "skill")
           T == Router!SetToSeq(TS)
           K == Router!SetToSeq(KS)
           menu == Router!Commands(templates, skills)
           runs(n) == Router!OnSubmit(n, <<>>, templates, skills).runs
           mine == Router!ToSet(Router!Own) \union Router!ToSet(Router!Creating)
<1>1. menu = (F \o T) \o K
  BY DEF Router!Commands, OfKind
<1>2. /\ DOMAIN names = 1 .. 10
      /\ \A i \in 1 .. 10 : IF i <= 6 THEN names[i] \in Router!ToSet(Router!Own) /\ names[i] \notin Router!Prefixed
                                      ELSE names[i] \in Router!ToSet(Router!Creating)
      /\ \A x \in mine : \E i \in 1 .. 10 : names[i] = x
      /\ Router!Prefixed = Router!ToSet(Router!Creating) \union {"create_other"}
  BY OwnNames
<1> HIDE DEF names
<1>3. Len(F) = 10 /\ DOMAIN F = 1 .. 10 /\ \A i \in 1 .. 10 : F[i].name = names[i] /\ F[i].runs = names[i]
  BY <1>2
<1>4. /\ T \in Seq(TS) /\ Len(T) \in Nat /\ DOMAIN T = 1 .. Len(T)
      /\ \A i \in 1 .. Len(T) : T[i].name \in DOMAIN templates /\ T[i].runs = "template"
      /\ \A n \in DOMAIN templates : \E i \in 1 .. Len(T) : T[i].name = n
  BY KindListed
<1>5. /\ K \in Seq(KS) /\ Len(K) \in Nat /\ DOMAIN K = 1 .. Len(K)
      /\ \A i \in 1 .. Len(K) : K[i].name \in DOMAIN skills /\ K[i].runs = "skill"
  BY KindListed
<1> DEFINE FS == {F[i] : i \in 1 .. 10}
<1>6. F \in Seq(FS)
  BY <1>3
<1> HIDE DEF F, T, K, FS, TS, KS, menu, mine
<1>7. /\ DOMAIN menu = 1 .. 10 + Len(T) + Len(K)
      /\ \A i \in 1 .. 10 : menu[i] = F[i]
      /\ \A i \in 1 .. Len(T) : menu[10 + i] = T[i]
      /\ \A i \in 1 .. Len(K) : menu[10 + Len(T) + i] = K[i]
  <2> DEFINE A == FS \union TS \union KS
             FT == F \o T
  <2>1. F \in Seq(A) /\ T \in Seq(A) /\ K \in Seq(A)
    BY <1>4, <1>5, <1>6
  <2> HIDE DEF A
  <2>2. FT \in Seq(A) /\ Len(FT) = 10 + Len(T) /\ \A i \in 1 .. 10 : FT[i] = F[i]
    <3>1. FT \in Seq(A) /\ Len(FT) = Len(F) + Len(T) /\ \A i \in 1 .. Len(F) : FT[i] = F[i]
      BY <2>1, Joint
    <3> QED
      BY <1>3, <3>1
  <2>3. \A i \in 1 .. Len(T) : FT[10 + i] = T[i]
    <3>1. \A i \in 1 .. Len(T) : FT[Len(F) + i] = T[i]
      BY <2>1, Joint
    <3> QED
      BY <1>3, <3>1
  <2> HIDE DEF FT
  <2>4. menu = FT \o K
    BY <1>1 DEF FT
  <2>5. Len(menu) = 10 + Len(T) + Len(K) /\ DOMAIN menu = 1 .. Len(menu)
    <3>1. menu \in Seq(A) /\ Len(menu) = Len(FT) + Len(K)
      BY <2>1, <2>2, <2>4, Joint
    <3> QED
      BY <2>2, <3>1
  <2>6. \A i \in 1 .. 10 + Len(T) : menu[i] = FT[i]
    BY <2>1, <2>2, <2>4, Joint
  <2>7. \A i \in 1 .. Len(K) : menu[10 + Len(T) + i] = K[i]
    <3>1. FT \in Seq(A) /\ K \in Seq(A)
      BY <2>1, <2>2
    <3>2. \A i \in 1 .. Len(K) : (FT \o K)[Len(FT) + i] = K[i]
      BY ONLY <3>1, Joint
    <3> QED
      BY <2>2, <2>4, <3>2
  <2>8. \A i \in 1 .. 10 : i \in 1 .. 10 + Len(T)
    BY <1>4
  <2>9. \A i \in 1 .. Len(T) : 10 + i \in 1 .. 10 + Len(T)
    BY <1>4
  <2> QED
    BY <2>2, <2>3, <2>5, <2>6, <2>7, <2>8, <2>9
<1>8. SUFFICES ASSUME NEW i \in DOMAIN menu, menu[i].name \notin {"exit", "create_other"},
                      \A j \in 1 .. i - 1 : menu[j].name # menu[i].name
               PROVE  runs(menu[i].name) = menu[i].runs
  BY DEF Router!MenuRuns, menu
<1> DEFINE n == menu[i].name
<1>9. runs(n) = IF n \in Router!Prefixed THEN IF n \in Router!ToSet(Router!Creating) THEN n ELSE "unknown"
                ELSE IF n \in Router!ToSet(Router!Own) THEN n
                ELSE IF n \in DOMAIN templates THEN "template"
                ELSE IF n \in DOMAIN skills THEN "skill" ELSE "message"
  BY <1>8 DEF Router!OnSubmit, Router!Handle, Router!Template, Router!Skill
<1> HIDE DEF runs, n
<1>10. CASE i \in 1 .. 10
  <2>1. n = names[i] /\ menu[i].runs = names[i]
    BY <1>3, <1>7, <1>10 DEF n
  <2> QED
    BY <1>2, <1>9, <1>10, <2>1 DEF n
<1>11. ASSUME i > 10 PROVE n \notin mine
  <2>1. SUFFICES ASSUME NEW j \in 1 .. 10, names[j] = n PROVE FALSE
    BY <1>2
  <2>2. j \in 1 .. i - 1
    BY <1>4, <1>5, <1>7, <1>11
  <2> QED
    BY <1>3, <1>7, <1>8, <2>1, <2>2 DEF n
<1>12. CASE i > 10 /\ i <= 10 + Len(T)
  <2>1. i - 10 \in 1 .. Len(T) /\ 10 + (i - 10) = i
    BY <1>4, <1>5, <1>7, <1>12
  <2>2. menu[i] = T[i - 10]
    BY <1>7, <2>1
  <2>3. n \in DOMAIN templates /\ menu[i].runs = "template"
    BY <1>4, <2>1, <2>2 DEF n
  <2>4. n \notin mine
    BY <1>11, <1>12
  <2> QED
    BY <1>2, <1>8, <1>9, <2>3, <2>4 DEF mine, n
<1>13. CASE i > 10 + Len(T)
  <2>1. i \in Nat /\ Len(T) \in Nat /\ Len(K) \in Nat /\ i <= 10 + Len(T) + Len(K) /\ i > 10 + Len(T)
    BY <1>4, <1>5, <1>7, <1>13
  <2>2. i - (10 + Len(T)) \in 1 .. Len(K) /\ 10 + Len(T) + (i - (10 + Len(T))) = i /\ i > 10
    <3>1. \A a, b \in Nat : \A m \in Nat :
             m > 10 + a /\ m <= 10 + a + b =>
               m - (10 + a) \in 1 .. b /\ 10 + a + (m - (10 + a)) = m /\ m > 10
      OBVIOUS
    <3> QED
      BY ONLY <2>1, <3>1
  <2>3. menu[i] = K[i - (10 + Len(T))]
    BY <1>7, <2>2
  <2>4. n \in DOMAIN skills /\ menu[i].runs = "skill"
    BY <1>5, <2>2, <2>3 DEF n
  <2>5. n \notin DOMAIN templates
    <3>1. SUFFICES ASSUME NEW j \in 1 .. Len(T), T[j].name = n PROVE FALSE
      BY <1>4
    <3>2. 10 + j \in 1 .. i - 1
      <4>1. i \in Nat /\ Len(T) \in Nat
        BY <1>4, <1>5, <1>7
      <4>2. i \in Nat /\ Len(T) \in Nat /\ j \in Nat /\ 1 <= j /\ j <= Len(T) /\ i > 10 + Len(T)
        BY <1>13, <4>1
      <4> QED
        BY ONLY <4>2
    <3> QED
      BY <1>7, <1>8, <3>1, <3>2 DEF n
  <2>6. n \notin mine
    BY <1>11, <2>2
  <2> QED
    BY <1>2, <1>8, <1>9, <2>4, <2>5, <2>6 DEF mine, n
<1>14. i \in 1 .. 10 \/ (i > 10 /\ i <= 10 + Len(T)) \/ i > 10 + Len(T)
  BY <1>4, <1>5, <1>7
<1> QED
  BY <1>10, <1>12, <1>13, <1>14 DEF n

=============================================================================
