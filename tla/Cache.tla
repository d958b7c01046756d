------------------------------- MODULE Cache --------------------------------
(***************************************************************************)
(* CacheManager (cache.go): a map and the order in which its keys were     *)
(* inserted.  Its mutex makes every call of a method atomic, so a method   *)
(* is a function from a cache to a cache.                                  *)
(***************************************************************************)
EXTENDS Integers, Sequences, FiniteSets, Functions

EmptyCache == [items |-> [k \in {} |-> 0], order |-> <<>>]

Has(c, k) == k \in DOMAIN c.items

Without(f, k) == Restrict(f, DOMAIN f \ {k})
With(f, k, v) == [x \in DOMAIN f \cup {k} |-> IF x = k THEN v ELSE f[x]]

\* An existing entry is appended to the order again.
SetTwice(c, k, v, max) ==
    IF max > 0 /\ Cardinality(DOMAIN c.items) >= max /\ c.order # <<>>
    THEN [items |-> With(Without(c.items, Head(c.order)), k, v), order |-> Append(Tail(c.order), k)]
    ELSE [items |-> With(c.items, k, v), order |-> Append(c.order, k)]

\* Set: a new key makes room by evicting the oldest; max = 0 is unbounded.
Set(c, k, v, max) ==
    IF Has(c, k)
    THEN [items |-> With(c.items, k, v), order |-> c.order]
    ELSE IF max > 0 /\ Cardinality(DOMAIN c.items) >= max /\ c.order # <<>>
    THEN [items |-> With(Without(c.items, Head(c.order)), k, v), order |-> Append(Tail(c.order), k)]
    ELSE [items |-> With(c.items, k, v), order |-> Append(c.order, k)]

\* The first place of k in s, if it has one.
IsFirst(s, k, i) == s[i] = k /\ \A j \in 1 .. i - 1 : s[j] # k

\* Delete takes the first occurrence out of the order and stops looking.
Delete(c, k) ==
    IF ~Has(c, k) THEN c
    ELSE [items |-> Without(c.items, k),
          order |-> IF k \notin Range(c.order) THEN c.order
                    ELSE LET i == CHOOSE i \in DOMAIN c.order : IsFirst(c.order, k, i)
                         IN  SubSeq(c.order, 1, i - 1) \o SubSeq(c.order, i + 1, Len(c.order))]

\* The order lists the keys of the map, each once.
Coherent(c) == Range(c.order) = DOMAIN c.items /\ IsInjective(c.order)
=============================================================================
