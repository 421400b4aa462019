------------------------------ MODULE LruCache ------------------------------
(***************************************************************************)
(* src/util/LruCache.h: the list of entries, the latest used first. The    *)
(* map beside it finds the position of an entry by its key. Each operation *)
(* runs under the mutex, so that a history is a sequence of them.          *)
(***************************************************************************)
EXTENDS Naturals, Sequences, SequencesExt

Keys(items) == {items[i].key : i \in DOMAIN items}
ContainsKey(items, key) == key \in Keys(items)

\* cacheMap_, and what splice does with the entry at a position.
Position(items, key) == CHOOSE i \in DOMAIN items : items[i].key = key
Spliced(items, i, entry) == Cons(entry, RemoveAt(items, i))

\* get: a hit moves the entry to the front.
Hit(items, key) ==
  IF ContainsKey(items, key) THEN LET i == Position(items, key) IN Spliced(items, i, items[i])
  ELSE items

\* put: a key that is there moves to the front with its new value; another one is put in
\* front, after the last entry was dropped when there are maxSize of them.
Put(items, key, value, maxSize) ==
  LET entry == [key |-> key, value |-> value] IN
  IF ContainsKey(items, key) THEN Spliced(items, Position(items, key), entry)
  ELSE IF Len(items) >= maxSize THEN Cons(entry, SubSeq(items, 1, Len(items) - 1))
  ELSE Cons(entry, items)

\* An operation of a history: a put when it has a value, otherwise a get.
Applied(items, op, maxSize) ==
  IF op.value = 0 THEN Hit(items, op.key) ELSE Put(items, op.key, op.value, maxSize)

\* The list after each number of operations.
After(ops, maxSize) ==
  LET list[n \in 0 .. Len(ops)] == IF n = 0 THEN <<>> ELSE Applied(list[n - 1], ops[n], maxSize) IN list

-----------------------------------------------------------------------------

\* The last of a set of operations.
Latest(s) == IF s = {} THEN 0 ELSE CHOOSE i \in s : \A j \in s : j <= i

\* The last use of a key among the first n operations: a put, or a get that found it.
LastPut(ops, key, n) == Latest({i \in 1 .. n : ops[i].key = key /\ ops[i].value # 0})
LastUse(ops, list, key, n) ==
  Latest({i \in 1 .. n : ops[i].key = key /\ (ops[i].value # 0 \/ ContainsKey(list[i - 1], key))})

\* After any history the cache holds the keys used last, each once, in the order of their
\* last use and with the value put last; a key that was dropped was used before all of them,
\* and there are maxSize of them (LruCache::put, get).
HoldsTheLatest(ops, maxSize) ==
  LET list == After(ops, maxSize)
      n == Len(ops)
      items == list[n]
      use(k) == LastUse(ops, list, k, n)
  IN  /\ Len(items) <= maxSize
      /\ \A i, j \in DOMAIN items : i < j => use(items[i].key) > use(items[j].key)
      /\ \A i \in DOMAIN items : items[i].value = ops[LastPut(ops, items[i].key, n)].value
      /\ \A k \in {ops[i].key : i \in 1 .. n} : use(k) # 0 /\ ~ContainsKey(items, k) =>
           /\ Len(items) = maxSize
           /\ \A i \in DOMAIN items : use(items[i].key) > use(k)

=============================================================================
