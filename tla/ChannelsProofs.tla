--------------------------- MODULE ChannelsProofs ---------------------------
(***************************************************************************)
(* The channels a client keeps, for any channels, goroutines and bounds:   *)
(* Channels keeps its types, its caches stay coherent and within their     *)
(* limit, no tier holds what a handled change has made old (Fresh), and a  *)
(* channel's object survives (Survives).  The first part is about          *)
(* CacheManager alone, the last about Users.                               *)
(***************************************************************************)
EXTENDS MCChannels, SequenceTheorems, FiniteSetTheorems, TLAPS

\* A cache of keys from K and values from V.
CacheOf(K, V) ==
    {c \in [items : UNION {[D -> V] : D \in SUBSET K}, order : Seq(K)] : Coherent(c)}

\* The order without its first key.
LEMMA TailOrder ==
    ASSUME NEW K, NEW s \in Seq(K), s # <<>>, IsInjective(s)
    PROVE  /\ Tail(s) \in Seq(K)
           /\ Range(Tail(s)) = Range(s) \ {Head(s)}
           /\ IsInjective(Tail(s))
           /\ Len(Tail(s)) = Len(s) - 1
           /\ Head(s) \in Range(s)
<1>1. /\ Tail(s) \in Seq(K) /\ Len(Tail(s)) = Len(s) - 1
      /\ \A i \in 1 .. Len(s) - 1 : Tail(s)[i] = s[i + 1]
      /\ Len(s) \in Nat /\ Len(s) > 0 /\ Head(s) = s[1]
      /\ DOMAIN s = 1 .. Len(s) /\ DOMAIN Tail(s) = 1 .. Len(s) - 1
  OBVIOUS
<1>2. IsInjective(Tail(s))
  BY <1>1 DEF IsInjective
<1>3. Head(s) \in Range(s)
  BY <1>1 DEF Range
<1>4. Range(Tail(s)) \subseteq Range(s) \ {Head(s)}
  BY <1>1 DEF Range, IsInjective
<1>5. ASSUME NEW x \in Range(s) \ {Head(s)} PROVE x \in Range(Tail(s))
  <2>1. PICK i \in 1 .. Len(s) : x = s[i]
    BY <1>1 DEF Range
  <2>2. i - 1 \in 1 .. Len(s) - 1 /\ Tail(s)[i - 1] = x
    BY <2>1, <1>1
  <2> QED BY <2>2, <1>1 DEF Range
<1> QED BY <1>1, <1>2, <1>3, <1>4, <1>5

\* The order with a new key at its end.
LEMMA AppendOrder ==
    ASSUME NEW K, NEW s \in Seq(K), NEW k \in K, k \notin Range(s), IsInjective(s)
    PROVE  /\ Append(s, k) \in Seq(K)
           /\ Range(Append(s, k)) = Range(s) \cup {k}
           /\ IsInjective(Append(s, k))
           /\ Len(Append(s, k)) = Len(s) + 1
<1> DEFINE a == Append(s, k)
<1>1. /\ a \in Seq(K) /\ Len(a) = Len(s) + 1 /\ Len(s) \in Nat
      /\ \A i \in 1 .. Len(s) : a[i] = s[i]
      /\ a[Len(s) + 1] = k
      /\ DOMAIN s = 1 .. Len(s) /\ DOMAIN a = 1 .. Len(s) + 1
  OBVIOUS
<1>2. \A i \in 1 .. Len(s) : s[i] # k
  BY <1>1 DEF Range
<1> HIDE DEF a
<1>3. IsInjective(a)
  BY <1>1, <1>2 DEF IsInjective
<1>4. Range(a) \subseteq Range(s) \cup {k}
  BY <1>1 DEF Range
<1>5. Range(s) \subseteq Range(a)
  BY <1>1 DEF Range
<1>6. k \in Range(a)
  BY <1>1 DEF Range
<1> QED BY <1>1, <1>3, <1>4, <1>5, <1>6 DEF a

\* The order without the first place of k.
LEMMA CutOrder ==
    ASSUME NEW K, NEW s \in Seq(K), NEW i \in DOMAIN s, IsInjective(s)
    PROVE  LET r == SubSeq(s, 1, i - 1) \o SubSeq(s, i + 1, Len(s))
           IN  /\ r \in Seq(K) /\ Range(r) = Range(s) \ {s[i]}
               /\ IsInjective(r) /\ Len(r) = Len(s) - 1
<1> DEFINE p == SubSeq(s, 1, i - 1)
           q == SubSeq(s, i + 1, Len(s))
           r == p \o q
           n == Len(s)
<1>1. n \in Nat /\ i \in 1 .. n /\ DOMAIN s = 1 .. n
  OBVIOUS
<1>2. p \in Seq(K) /\ Len(p) = i - 1 /\ \A j \in 1 .. i - 1 : p[j] = s[j]
  BY <1>1
<1>3. q \in Seq(K) /\ Len(q) = n - i /\ \A j \in 1 .. n - i : q[j] = s[i + j]
  BY <1>1
<1> HIDE DEF p, q, n
<1>4. r \in Seq(K) /\ Len(r) = Len(p) + Len(q)
      /\ \A j \in 1 .. Len(p) + Len(q) : r[j] = IF j <= Len(p) THEN p[j] ELSE q[j - Len(p)]
  BY <1>2, <1>3, ConcatProperties
<1> HIDE DEF r
<1>5. Len(p) + Len(q) = n - 1
  BY <1>1, <1>2, <1>3
<1>6. Len(r) = n - 1 /\ DOMAIN r = 1 .. n - 1
  BY <1>4, <1>5
<1>7. \A j \in 1 .. n - 1 : r[j] = IF j < i THEN s[j] ELSE s[j + 1]
  <2> SUFFICES ASSUME NEW j \in 1 .. n - 1 PROVE r[j] = IF j < i THEN s[j] ELSE s[j + 1]
    OBVIOUS
  <2>1. r[j] = IF j <= i - 1 THEN p[j] ELSE q[j - (i - 1)]
    BY <1>2, <1>4, <1>5
  <2>2. CASE j < i
    BY <2>1, <2>2, <1>1, <1>2
  <2>3. CASE ~(j < i)
    <3>1. j - (i - 1) \in 1 .. n - i /\ i + (j - (i - 1)) = j + 1 /\ ~(j <= i - 1)
      BY <2>3, <1>1
    <3>2. q[j - (i - 1)] = s[i + (j - (i - 1))]
      BY <3>1, <1>3
    <3> QED BY <2>1, <2>3, <3>1, <3>2
  <2> QED BY <2>2, <2>3
<1>9. IsInjective(r)
  <2> SUFFICES ASSUME NEW a \in 1 .. n - 1, NEW b \in 1 .. n - 1, r[a] = r[b] PROVE a = b
    BY <1>6 DEF IsInjective
  <2> DEFINE up(j) == IF j < i THEN j ELSE j + 1
  <2>1. up(a) \in DOMAIN s /\ up(b) \in DOMAIN s /\ s[up(a)] = s[up(b)]
    BY <1>1, <1>7
  <2>2. up(a) = up(b)
    BY <2>1 DEF IsInjective
  <2> QED BY <2>2, <1>1
<1>10. ASSUME NEW x \in Range(r) PROVE x \in Range(s) \ {s[i]}
  <2>1. PICK j \in 1 .. n - 1 : x = r[j]
    BY <1>6 DEF Range
  <2> DEFINE up == IF j < i THEN j ELSE j + 1
  <2>2. up \in DOMAIN s /\ x = s[up] /\ up # i
    BY <2>1, <1>1, <1>7
  <2> HIDE DEF up
  <2> QED BY <2>2 DEF Range, IsInjective
<1>8. ASSUME NEW x \in Range(s) \ {s[i]} PROVE x \in Range(r)
  <2>1. PICK j \in 1 .. n : x = s[j]
    BY <1>1 DEF Range
  <2>2. j # i
    BY <2>1
  <2>3. CASE j < i
    BY <2>1, <2>3, <1>1, <1>6, <1>7 DEF Range
  <2>4. CASE j > i
    <3>1. j - 1 \in 1 .. n - 1 /\ r[j - 1] = x
      BY <2>1, <2>4, <1>1, <1>7
    <3> QED BY <3>1, <1>6 DEF Range
  <2> QED BY <2>2, <2>3, <2>4, <1>1
<1> QED BY <1>4, <1>6, <1>8, <1>9, <1>10 DEF r, p, q, n

\* A coherent cache has as many items as its order is long.
LEMMA SizeIsLength ==
    ASSUME NEW K, NEW s \in Seq(K), IsInjective(s)
    PROVE  Cardinality(Range(s)) = Len(s)
<1>1. s \in Bijection(1 .. Len(s), Range(s))
  BY DEF Bijection, Injection, Surjection, Range
<1>2. IsFiniteSet(1 .. Len(s)) /\ Cardinality(1 .. Len(s)) = Len(s)
  <2> DEFINE n == Len(s)
  <2>1. n \in Int /\ n >= 0 /\ 1 \in Int
    OBVIOUS
  <2> HIDE DEF n
  <2>2. IsFiniteSet(1 .. n) /\ Cardinality(1 .. n) = IF 1 > n THEN 0 ELSE n - 1 + 1
    BY <2>1, FS_Interval, Zenon
  <2>3. Cardinality(1 .. n) = n
    BY <2>1, <2>2
  <2> QED BY <2>2, <2>3 DEF n
<1>3. ExistsBijection(1 .. Len(s), Range(s))
  BY <1>1 DEF ExistsBijection
<1> QED BY <1>2, <1>3, FS_Bijection

----------------------------------------------------------------------------
(* CacheManager's methods.                                                 *)

\* What a cache of type CacheOf is.
LEMMA CacheShape ==
    ASSUME NEW K, NEW V, NEW c \in CacheOf(K, V)
    PROVE  /\ DOMAIN c.items \subseteq K /\ c.items \in [DOMAIN c.items -> V]
           /\ c.order \in Seq(K) /\ Range(c.order) = DOMAIN c.items /\ IsInjective(c.order)
           /\ Len(c.order) \in Nat
           /\ Cardinality(DOMAIN c.items) = Len(c.order)
<1>1. c \in [items : UNION {[D -> V] : D \in SUBSET K}, order : Seq(K)] /\ Coherent(c)
  BY DEF CacheOf
<1>2. PICK D \in SUBSET K : c.items \in [D -> V]
  BY <1>1
<1>3. c.order \in Seq(K) /\ Range(c.order) = DOMAIN c.items /\ IsInjective(c.order)
  BY <1>1 DEF Coherent
<1>4. Cardinality(Range(c.order)) = Len(c.order) /\ Len(c.order) \in Nat
  BY <1>3, SizeIsLength
<1> QED BY <1>2, <1>3, <1>4

\* The converse.
LEMMA CacheBuilt ==
    ASSUME NEW K, NEW V, NEW f, NEW s \in Seq(K), DOMAIN f \subseteq K, f \in [DOMAIN f -> V],
           Range(s) = DOMAIN f, IsInjective(s)
    PROVE  [items |-> f, order |-> s] \in CacheOf(K, V)
<1>1. f \in UNION {[D -> V] : D \in SUBSET K}
  OBVIOUS
<1> QED BY <1>1 DEF CacheOf, Coherent

\* NewCacheManager returns a cache.
LEMMA EmptyIsCache == ASSUME NEW K, NEW V PROVE EmptyCache \in CacheOf(K, V) /\ Len(EmptyCache.order) = 0
<1> DEFINE f == [k \in {} |-> 0]
           s == << >>
<1>1. DOMAIN f = {} /\ f \in [DOMAIN f -> V]
  OBVIOUS
<1>2. s \in Seq(K) /\ Range(s) = {} /\ IsInjective(s)
  BY DEF Range, IsInjective
<1>3. [items |-> f, order |-> s] \in CacheOf(K, V)
  BY <1>1, <1>2, CacheBuilt
<1> QED BY <1>3 DEF EmptyCache

\* Set keeps a cache coherent and within its limit.
LEMMA SetKeeps ==
    ASSUME NEW K, NEW V, NEW c \in CacheOf(K, V), NEW k \in K, NEW v \in V, NEW max \in Nat
    PROVE  /\ Set(c, k, v, max) \in CacheOf(K, V)
           /\ max > 0 /\ Len(c.order) <= max => Len(Set(c, k, v, max).order) <= max
<1> DEFINE D == DOMAIN c.items
<1>0. /\ D \subseteq K /\ c.items \in [D -> V]
      /\ c.order \in Seq(K) /\ Range(c.order) = D /\ IsInjective(c.order)
      /\ Len(c.order) \in Nat /\ Cardinality(D) = Len(c.order)
  BY CacheShape
<1>1. CASE Has(c, k)
  <2>1. /\ DOMAIN With(c.items, k, v) = DOMAIN c.items
        /\ With(c.items, k, v) \in [DOMAIN c.items -> V]
    <3>1. D \cup {k} = D
      BY <1>1 DEF Has
    <3> HIDE DEF D
    <3>2. DOMAIN With(c.items, k, v) = D \cup {k} /\ With(c.items, k, v) \in [D \cup {k} -> V]
      BY <1>0 DEF With
    <3> QED BY <3>1, <3>2 DEF D
  <2>2. [items |-> With(c.items, k, v), order |-> c.order] \in CacheOf(K, V)
    BY <1>0, <2>1, CacheBuilt
  <2> QED BY <1>0, <1>1, <2>2 DEF Set
<1>2. CASE ~Has(c, k) /\ max > 0 /\ Cardinality(DOMAIN c.items) >= max /\ c.order # <<>>
  <2> DEFINE f == Without(c.items, Head(c.order))
             s == Tail(c.order)
  <2>1. /\ s \in Seq(K) /\ Range(s) = DOMAIN c.items \ {Head(c.order)}
        /\ IsInjective(s) /\ Len(s) = Len(c.order) - 1
    BY <1>0, <1>2, TailOrder
  <2>2. DOMAIN f = Range(s) /\ f \in [DOMAIN f -> V]
    BY <1>0, <2>1 DEF Without, Restrict
  <2> HIDE DEF f, s
  <2>3. k \notin Range(s)
    BY <1>0, <1>2, <2>1 DEF Has
  <2>4. /\ DOMAIN With(f, k, v) = Range(s) \cup {k}
        /\ With(f, k, v) \in [DOMAIN With(f, k, v) -> V]
    BY <2>2 DEF With
  <2>5. /\ Append(s, k) \in Seq(K) /\ Range(Append(s, k)) = Range(s) \cup {k}
        /\ IsInjective(Append(s, k)) /\ Len(Append(s, k)) = Len(s) + 1
    BY <2>1, <2>3, AppendOrder
  <2>6. DOMAIN With(f, k, v) \subseteq K
    BY <1>0, <2>1, <2>4
  <2>7. [items |-> With(f, k, v), order |-> Append(s, k)] \in CacheOf(K, V)
    BY <2>4, <2>5, <2>6, CacheBuilt
  <2>8. Set(c, k, v, max) = [items |-> With(f, k, v), order |-> Append(s, k)]
    BY <1>2 DEF Set, f, s
  <2>9. Len(Append(s, k)) = Len(c.order)
    BY <1>0, <2>1, <2>5
  <2> QED BY <2>7, <2>8, <2>9
<1>3. CASE ~Has(c, k) /\ ~(max > 0 /\ Cardinality(DOMAIN c.items) >= max /\ c.order # <<>>)
  <2>1. /\ DOMAIN With(c.items, k, v) = DOMAIN c.items \cup {k}
        /\ With(c.items, k, v) \in [DOMAIN With(c.items, k, v) -> V]
    BY <1>0 DEF With
  <2>2. k \notin Range(c.order)
    BY <1>0, <1>3 DEF Has
  <2>3. /\ Append(c.order, k) \in Seq(K) /\ Range(Append(c.order, k)) = Range(c.order) \cup {k}
        /\ IsInjective(Append(c.order, k)) /\ Len(Append(c.order, k)) = Len(c.order) + 1
    BY <1>0, <2>2, AppendOrder
  <2>4. [items |-> With(c.items, k, v), order |-> Append(c.order, k)] \in CacheOf(K, V)
    BY <1>0, <2>1, <2>3, CacheBuilt
  <2>5. Set(c, k, v, max) = [items |-> With(c.items, k, v), order |-> Append(c.order, k)]
    BY <1>3 DEF Set
  <2>6. ASSUME max > 0 PROVE Len(c.order) + 1 <= max
    <3>1. CASE c.order = <<>>
      BY <2>6, <3>1
    <3>2. CASE c.order # <<>>
      BY <1>0, <1>3, <2>6, <3>2
    <3> QED BY <3>1, <3>2
  <2> QED BY <2>3, <2>4, <2>5, <2>6
<1> QED BY <1>1, <1>2, <1>3

\* Delete keeps a cache coherent, takes the key out, and never makes it longer.
LEMMA DeleteKeeps ==
    ASSUME NEW K, NEW V, NEW c \in CacheOf(K, V), NEW k \in K
    PROVE  /\ Delete(c, k) \in CacheOf(K, V)
           /\ Len(Delete(c, k).order) <= Len(c.order)
           /\ ~Has(Delete(c, k), k)
<1> DEFINE D == DOMAIN c.items
<1>0. /\ D \subseteq K /\ c.items \in [D -> V]
      /\ c.order \in Seq(K) /\ Range(c.order) = D /\ IsInjective(c.order)
      /\ Len(c.order) \in Nat /\ Cardinality(D) = Len(c.order)
  BY CacheShape
<1>1. CASE ~Has(c, k)
  BY <1>0, <1>1 DEF Delete
<1>2. CASE Has(c, k)
  <2> DEFINE s == c.order
             i == CHOOSE i \in DOMAIN s : IsFirst(s, k, i)
             r == SubSeq(s, 1, i - 1) \o SubSeq(s, i + 1, Len(s))
             f == Without(c.items, k)
  <2>1. PICK j \in DOMAIN s : s[j] = k
    BY <1>0, <1>2 DEF Has, Range
  <2>2. IsFirst(s, k, j)
    BY <1>0, <2>1 DEF IsFirst, IsInjective
  <2>3. i \in DOMAIN s /\ IsFirst(s, k, i)
    BY <2>2
  <2>4. s[i] = k
    BY <2>3 DEF IsFirst
  <2> HIDE DEF i
  <2>5. r \in Seq(K) /\ Range(r) = Range(s) \ {k} /\ IsInjective(r) /\ Len(r) = Len(s) - 1
    BY <1>0, <2>3, <2>4, CutOrder
  <2>6. DOMAIN f = DOMAIN c.items \ {k} /\ f \in [DOMAIN f -> V]
    BY <1>0 DEF Without, Restrict
  <2>7. Delete(c, k) = [items |-> f, order |-> r]
    <3>1. k \in Range(s)
      BY <1>0, <1>2 DEF Has
    <3> QED BY <1>2, <3>1 DEF Delete, i
  <2> HIDE DEF r, f
  <2>8. Range(r) = DOMAIN f /\ DOMAIN f \subseteq K
    BY <1>0, <2>5, <2>6
  <2>9. [items |-> f, order |-> r] \in CacheOf(K, V)
    BY <2>5, <2>6, <2>8, CacheBuilt
  <2> QED BY <1>0, <2>5, <2>6, <2>7, <2>9 DEF Has
<1> QED BY <1>1, <1>2

----------------------------------------------------------------------------
(* The inductive invariant.  A cache's coherence needs that what is stored *)
(* in it is a key and an object, so it says of each goroutine which of its *)
(* fields are already meaningful at its step.                              *)

Objects == 1 .. Len(desc)

World ==
    /\ server \in [Keys -> 0 .. Gone] /\ events \in Seq(Event)
    /\ ops \in Nat /\ pushed \in Nat
Control == loaded \in BOOLEAN /\ lock \subseteq Threads
History == handled \in [Keys -> 0 .. Gone] /\ overlap \in [Keys -> BOOLEAN] /\ crowded \subseteq Keys
Details == l2 \in [Keys -> 0 .. MaxVersion] /\ desc \in Seq(1 .. MaxVersion)
Caches ==
    /\ l1 \in CacheOf(Keys, Objects) /\ clan \in CacheOf(Keys, Objects)
    /\ Len(l1.order) <= MaxChannels

\* The data d of goroutine t are ready for its step, when O are the objects.
Ready(t, d, O) ==
    /\ d \in ThreadState
    /\ d.pc \notin {"idle", "reload", "load", "list", "next"} => d.key \in Keys
    /\ t = Dispatcher /\ d.pc # "idle" => d.want \in Keys
    /\ d.pc \in {"l2set", "clanget", "clientget", "apply"} => d.ver \in 1 .. MaxVersion
    /\ d.pc = "apply" => d.obj \in {0} \cup O
    /\ d.pc \in {"setclan", "setclient", "again"} => d.obj \in O

Goroutines == st \in [Threads -> ThreadState] /\ \A t \in Threads : Ready(t, st[t], Objects)

Inv == World /\ Control /\ History /\ Details /\ Caches /\ Goroutines

\* More objects do no harm to a cache.
LEMMA CacheGrows ==
    ASSUME NEW K, NEW V, NEW W, V \subseteq W, NEW c \in CacheOf(K, V)
    PROVE  c \in CacheOf(K, W)
<1>1. /\ DOMAIN c.items \subseteq K /\ c.items \in [DOMAIN c.items -> V]
      /\ c.order \in Seq(K) /\ Range(c.order) = DOMAIN c.items /\ IsInjective(c.order)
  BY CacheShape
<1>2. c = [items |-> c.items, order |-> c.order]
  BY DEF CacheOf
<1>3. c.items \in [DOMAIN c.items -> W]
  BY <1>1
<1> QED BY <1>1, <1>2, <1>3, CacheBuilt

\* A step of goroutine t to data d that are ready; there may be a new object.
LEMMA GoroutineStep ==
    ASSUME Goroutines, NEW t \in Threads, NEW d, Go(t, d), Ready(t, d, Objects'), Objects \subseteq Objects'
    PROVE  Goroutines'
<1>1. d \in ThreadState
  BY DEF Ready
<1>2. st' \in [Threads -> ThreadState]
  BY <1>1 DEF Goroutines, Go
<1>3. ASSUME NEW u \in Threads PROVE Ready(u, st'[u], Objects')
  <2>1. CASE u = t
    BY <2>1 DEF Goroutines, Go
  <2>2. CASE u # t
    <3>1. st'[u] = st[u] /\ Ready(u, st[u], Objects)
      BY <2>2 DEF Goroutines, Go
    <3> QED BY <3>1 DEF Ready
  <2> QED BY <2>1, <2>2
<1> QED BY <1>2, <1>3 DEF Goroutines

\* A step that leaves the caches and the store alone.
LEMMA Move ==
    ASSUME Inv, NEW t \in Threads, NEW d, Go(t, d), Ready(t, d, Objects),
           UNCHANGED caches, World', Control', History'
    PROVE  Inv'
<1>1. UNCHANGED <<l1, clan, l2, desc>>
  BY DEF caches
<1>2. Objects' = Objects
  BY <1>1 DEF Objects
<1>3. Goroutines'
  BY <1>2, GoroutineStep DEF Inv
<1> QED BY <1>1, <1>2, <1>3 DEF Inv, Details, Caches

\* What is known of a goroutine.
LEMMA Known ==
    ASSUME Inv, NEW t \in Threads
    PROVE  Ready(t, st[t], Objects) /\ st[t] \in ThreadState
BY DEF Inv, Goroutines

\* To be idle is always possible.
LEMMA IdleReady == ASSUME NEW t, NEW O PROVE Ready(t, Idle, O)
<1>1. Idle \in ThreadState
  BY BoundsAssumption DEF Idle, ThreadState, Labels, Gone
<1> QED BY <1>1 DEF Ready, Idle

\* The initial states.
LEMMA InvInit == Init => Inv
<1> SUFFICES ASSUME Init PROVE Inv
  OBVIOUS
<1>0. 0 \in 0 .. Gone /\ 1 \in 0 .. Gone /\ << >> \in Seq(Event)
  BY BoundsAssumption DEF Gone
<1>1. World /\ Control /\ History
  <2>1. World
    BY <1>0 DEF Init, World
  <2>2. Control
    BY DEF Init, Control
  <2>3. handled \in [Keys -> 0 .. Gone] /\ crowded \subseteq Keys
    BY <1>0 DEF Init
  <2>4. overlap \in [Keys -> BOOLEAN]
    BY Zenon DEF Init
  <2> QED BY <2>1, <2>2, <2>3, <2>4 DEF History
<1>2. Details
  BY BoundsAssumption DEF Init, Details
<1>3. Caches
  BY EmptyIsCache, MaxChannelsAssumption DEF Init, Caches
<1>4. Goroutines
  BY IdleReady DEF Init, Goroutines, Ready
<1> QED BY <1>1, <1>2, <1>3, <1>4 DEF Inv

----------------------------------------------------------------------------
(* The steps that begin an operation or go on without touching a cache.    *)

\* What a step leaves alone keeps its type.
LEMMA Kept ==
    ASSUME Inv
    PROVE  /\ UNCHANGED outside => World'
           /\ UNCHANGED <<loaded, lock>> => Control'
           /\ UNCHANGED history => History'
           /\ UNCHANGED <<l2, desc>> => Details'
           /\ UNCHANGED desc => Objects' = Objects
BY DEF Inv, World, Control, History, Details, Objects, outside, history

\* Meets only records.
LEMMA MeetsType ==
    ASSUME Inv, NEW t, NEW k \in Keys, Meets(t, k)
    PROVE  History'
<1>1. handled' \in [Keys -> 0 .. Gone] /\ crowded' \subseteq Keys
  BY DEF Meets, Inv, History
<1>2. overlap' \in [Keys -> BOOLEAN]
  <2>1. overlap \in [Keys -> BOOLEAN]
    BY DEF Inv, History
  <2>2. PICK b : overlap' = [overlap EXCEPT ![k] = overlap[k] \/ b]
    BY Zenon DEF Meets
  <2>3. (overlap[k] \/ b) \in BOOLEAN
    OBVIOUS
  <2> QED BY <2>1, <2>2, <2>3, Zenon
<1> QED BY <1>1, <1>2 DEF History

\* Begin and BeginReload.
LEMMA BeginInv ==
    ASSUME Inv, NEW t \in Threads,
           BeginReload(t) \/ \E k \in Keys : \E op \in {"get", "create", "remove"} : Begin(t, op, k)
    PROVE  Inv'
<1>1. CASE BeginReload(t)
  <2>1. Go(t, [Idle EXCEPT !.pc = "reload"]) /\ t # Dispatcher
    BY <1>1, DispatcherAssumption DEF BeginReload
  <2>2. Ready(t, [Idle EXCEPT !.pc = "reload"], Objects)
    BY <2>1, IdleReady DEF Ready, Idle, ThreadState, Labels
  <2>3. World'
    BY <1>1 DEF BeginReload, Inv, World
  <2>4. UNCHANGED caches /\ Control' /\ History'
    BY <1>1, Kept DEF BeginReload
  <2> QED BY <2>1, <2>2, <2>3, <2>4, Move
<1>2. ASSUME NEW k \in Keys, NEW op \in {"get", "create", "remove"}, Begin(t, op, k) PROVE Inv'
  <2> DEFINE d == [Idle EXCEPT !.pc = op, !.key = k]
  <2>1. Go(t, d) /\ t # Dispatcher
    BY <1>2, DispatcherAssumption DEF Begin
  <2>2. Ready(t, d, Objects)
    BY <2>1, IdleReady DEF Ready, Idle, ThreadState, Labels
  <2>3. World'
    <3>1. UNCHANGED <<server, events, pushed>> /\ ops' = ops + 1
      BY <1>2 DEF Begin
    <3> QED BY <3>1 DEF Inv, World
  <2>4. UNCHANGED caches /\ Control'
    BY <1>2, Kept DEF Begin
  <2>5. History'
    BY <1>2, MeetsType DEF Begin
  <2> QED BY <2>1, <2>2, <2>3, <2>4, <2>5, Move
<1> QED BY <1>1, <1>2

\* Get, L2Get and Rest.
LEMMA FetchInv ==
    ASSUME Inv, NEW t \in Threads, Get(t) \/ L2Get(t) \/ Rest(t)
    PROVE  Inv'
<1>0. Ready(t, st[t], Objects)
  BY Known
<1>1. UNCHANGED caches /\ World' /\ Control' /\ History'
  BY Kept DEF Get, L2Get, Rest
<1>2. \E d : Go(t, d) /\ Ready(t, d, Objects)
  <2>1. CASE Go(t, Idle)
    BY <2>1, IdleReady
  <2>2. CASE Get(t) /\ To(t, "l2get")
    BY <1>0, <2>2 DEF Get, To, At, Ready, ThreadState, Labels
  <2>3. CASE L2Get(t) /\ To(t, "rest")
    BY <1>0, <2>3 DEF L2Get, To, At, Ready, ThreadState, Labels
  <2>4. CASE L2Get(t) /\ ~To(t, "rest")
    <3> DEFINE d == [st[t] EXCEPT !.pc = "clanget", !.ver = l2[st[t].key], !.then = "again"]
    <3>1. Go(t, d) /\ l2[st[t].key] # 0 /\ At(t, "l2get")
      BY <2>4 DEF L2Get
    <3>2. st[t].key \in Keys
      BY <1>0, <3>1 DEF Ready, At
    <3>3. l2[st[t].key] \in 1 .. MaxVersion /\ l2[st[t].key] \in 0 .. Gone
      BY <3>1, <3>2, BoundsAssumption DEF Inv, Details, Gone
    <3>4. Ready(t, d, Objects)
      BY <1>0, <3>1, <3>2, <3>3 DEF At, Ready, ThreadState, Labels
    <3> QED BY <3>1, <3>4
  <2>5. CASE Rest(t) /\ ~Go(t, Idle)
    <3> DEFINE d == [st[t] EXCEPT !.pc = "l2set", !.ver = server[st[t].key], !.then = "again"]
    <3>1. Go(t, d) /\ server[st[t].key] \in 1 .. MaxVersion /\ At(t, "rest")
      BY <2>5 DEF Rest, Exists
    <3>2. server[st[t].key] \in 0 .. Gone
      BY <3>1, BoundsAssumption DEF Gone
    <3>3. Ready(t, d, Objects)
      BY <1>0, <3>1, <3>2 DEF At, Ready, ThreadState, Labels
    <3> QED BY <3>1, <3>3
  <2> QED BY <2>1, <2>2, <2>3, <2>4, <2>5 DEF Get
<1> QED BY <1>1, <1>2, Move

\* The two look-ups of upsertChannel.
LEMMA LookUpInv ==
    ASSUME Inv, NEW t \in Threads, ClanGet(t) \/ ClientGet(t)
    PROVE  Inv'
<1>0. Ready(t, st[t], Objects)
  BY Known
<1>1. UNCHANGED caches /\ World' /\ Control' /\ History'
  BY Kept DEF ClanGet, ClientGet
<1>2. Objects \subseteq Nat
  BY DEF Objects
<1>3. /\ \A k : Has(clan, k) => clan.items[k] \in Objects
      /\ \A k : Has(l1, k) => l1.items[k] \in Objects
  <2>1. l1 \in CacheOf(Keys, Objects) /\ clan \in CacheOf(Keys, Objects)
    BY DEF Inv, Caches
  <2>2. clan.items \in [DOMAIN clan.items -> Objects] /\ l1.items \in [DOMAIN l1.items -> Objects]
    BY <2>1, CacheShape
  <2> QED BY <2>2 DEF Has
<1>4. \E d : Go(t, d) /\ Ready(t, d, Objects)
  <2>1. CASE ClanGet(t) /\ Has(clan, st[t].key)
    <3> DEFINE d == [st[t] EXCEPT !.pc = "apply", !.obj = clan.items[st[t].key]]
    <3>1. Go(t, d) /\ At(t, "clanget")
      BY <2>1 DEF ClanGet
    <3>2. Ready(t, d, Objects)
      BY <1>0, <1>2, <1>3, <2>1, <3>1 DEF At, Ready, ThreadState, Labels
    <3> QED BY <3>1, <3>2
  <2>2. CASE ClanGet(t) /\ ~Has(clan, st[t].key)
    BY <1>0, <2>2 DEF ClanGet, At, To, Ready, ThreadState, Labels
  <2>3. CASE ClientGet(t)
    <3> DEFINE o == IF Has(l1, st[t].key) THEN l1.items[st[t].key] ELSE 0
               d == [st[t] EXCEPT !.pc = "apply", !.obj = o]
    <3>1. Go(t, d) /\ At(t, "clientget")
      BY <2>3 DEF ClientGet
    <3>2. o \in {0} \cup Objects /\ o \in Nat
      BY <1>2, <1>3
    <3>3. Ready(t, d, Objects)
      BY <1>0, <3>1, <3>2 DEF At, Ready, ThreadState, Labels
    <3> QED BY <3>1, <3>3
  <2> QED BY <2>1, <2>2, <2>3
<1> QED BY <1>1, <1>4, Move

----------------------------------------------------------------------------
(* The steps that change a cache, the store or an object.                  *)

\* A step of goroutine t that changes only Details and Caches.
LEMMA CacheMove ==
    ASSUME Inv, NEW t \in Threads, NEW d, Go(t, d), Ready(t, d, Objects'), Objects \subseteq Objects',
           UNCHANGED outside, UNCHANGED history, UNCHANGED <<loaded, lock>>, Details', Caches'
    PROVE  Inv'
BY Kept, GoroutineStep DEF Inv

\* L2Set writes the detail that was read, or fails.
LEMMA StoreInv ==
    ASSUME Inv, NEW t \in Threads, L2Set(t)
    PROVE  Inv'
<1>0. Ready(t, st[t], Objects) /\ At(t, "l2set")
  BY Known DEF L2Set
<1>1. UNCHANGED <<l1, clan, desc>> /\ UNCHANGED outside /\ UNCHANGED history /\ UNCHANGED <<loaded, lock>>
  BY DEF L2Set
<1>2. Objects' = Objects
  BY <1>1, Kept
<1>3. st[t].key \in Keys /\ st[t].ver \in 0 .. MaxVersion
  BY <1>0, BoundsAssumption DEF Ready, At
<1>4. Details'
  BY <1>1, <1>3 DEF L2Set, Inv, Details
<1>5. Caches'
  BY <1>1, <1>2 DEF Inv, Caches
<1> DEFINE d == [st[t] EXCEPT !.pc = "clanget"]
<1>6. Go(t, d) /\ Ready(t, d, Objects)
  BY <1>0 DEF L2Set, To, At, Ready, ThreadState, Labels
<1> HIDE DEF d
<1> QED BY <1>1, <1>2, <1>4, <1>5, <1>6, CacheMove

\* A new object gets the next number; an update changes no number.
LEMMA ObjectStep ==
    ASSUME Inv
    PROVE  /\ \A v \in 1 .. MaxVersion : desc' = NewTextChannel(v) =>
                  /\ desc' \in Seq(1 .. MaxVersion) /\ Objects \subseteq Objects' /\ Len(desc) + 1 \in Objects'
           /\ \A v \in 1 .. MaxVersion, o \in Objects : desc' = UpdateFromDesc(o, v) =>
                  /\ desc' \in Seq(1 .. MaxVersion) /\ Objects' = Objects
<1>0. desc \in Seq(1 .. MaxVersion) /\ Len(desc) \in Nat
  BY DEF Inv, Details
<1>1. ASSUME NEW v \in 1 .. MaxVersion, desc' = Append(desc, v)
      PROVE  desc' \in Seq(1 .. MaxVersion) /\ Len(desc') = Len(desc) + 1
  BY <1>0, <1>1
<1>2. ASSUME NEW v \in 1 .. MaxVersion, NEW o \in Objects, desc' = [desc EXCEPT ![o] = v]
      PROVE  desc' \in Seq(1 .. MaxVersion) /\ Len(desc') = Len(desc)
  BY <1>0, <1>2 DEF Objects
<1> QED BY <1>0, <1>1, <1>2 DEF NewTextChannel, UpdateFromDesc, Objects

\* Caches that did not change, when there may be a new object.
LEMMA CachesKept ==
    ASSUME Inv, Objects \subseteq Objects', UNCHANGED <<l1, clan>>
    PROVE  Caches'
BY CacheGrows DEF Inv, Caches

\* Apply.
LEMMA ApplyInv ==
    ASSUME Inv, NEW t \in Threads, Apply(t)
    PROVE  Inv'
<1>0. Ready(t, st[t], Objects) /\ At(t, "apply")
  BY Known DEF Apply
<1>1. UNCHANGED <<l1, clan, l2>> /\ UNCHANGED outside /\ UNCHANGED history /\ UNCHANGED <<loaded, lock>>
  BY DEF Apply
<1>2. /\ st[t] \in ThreadState /\ st[t].key \in Keys /\ st[t].ver \in 1 .. MaxVersion
      /\ st[t].obj \in {0} \cup Objects /\ (t = Dispatcher => st[t].want \in Keys)
  BY <1>0 DEF Ready, At
<1>3. CASE st[t].obj # 0
  <2> DEFINE d == [st[t] EXCEPT !.pc = "setclan"]
  <2>1. desc' = UpdateFromDesc(st[t].obj, st[t].ver) /\ Go(t, d)
    BY <1>3 DEF Apply, To
  <2>2. desc' \in Seq(1 .. MaxVersion) /\ Objects' = Objects
    BY <1>2, <1>3, <2>1, ObjectStep
  <2>3. Ready(t, d, Objects)
    BY <1>2, <1>3 DEF Ready, ThreadState, Labels
  <2> HIDE DEF d
  <2>4. Details' /\ Caches'
    BY <1>1, <2>2, CachesKept DEF Inv, Details
  <2> QED BY <1>1, <2>1, <2>2, <2>3, <2>4, CacheMove
<1>4. CASE st[t].obj = 0
  <2> DEFINE n == Len(desc) + 1
             d == [st[t] EXCEPT !.pc = "setclan", !.obj = n]
  <2>1. desc' = NewTextChannel(st[t].ver) /\ Go(t, d)
    BY <1>4 DEF Apply
  <2>2. desc' \in Seq(1 .. MaxVersion) /\ Objects \subseteq Objects' /\ n \in Objects'
    BY <1>2, <2>1, ObjectStep
  <2>3. n \in Nat
    BY <2>2 DEF Objects
  <2> HIDE DEF n
  <2>4. Ready(t, d, Objects')
    BY <1>2, <2>2, <2>3 DEF Ready, ThreadState, Labels
  <2> HIDE DEF d
  <2>5. Details' /\ Caches'
    BY <1>1, <2>2, CachesKept DEF Inv, Details
  <2> QED BY <1>1, <2>1, <2>2, <2>4, <2>5, CacheMove
<1> QED BY <1>3, <1>4

\* The stores of upsertChannel and Fetch.
LEMMA SetInv ==
    ASSUME Inv, NEW t \in Threads, SetClan(t) \/ SetClient(t) \/ SetAgain(t)
    PROVE  Inv'
<1>0. Ready(t, st[t], Objects) /\ st[t].pc \in {"setclan", "setclient", "again"}
  BY Known DEF SetClan, SetClient, SetAgain, At
<1>1. UNCHANGED <<l2, desc>> /\ UNCHANGED outside /\ UNCHANGED history /\ UNCHANGED <<loaded, lock>>
  BY DEF SetClan, SetClient, SetAgain
<1>2. Objects' = Objects /\ Details'
  BY <1>1, Kept
<1>3. /\ st[t] \in ThreadState /\ st[t].key \in Keys /\ st[t].obj \in Objects
      /\ (t = Dispatcher => st[t].want \in Keys)
  BY <1>0 DEF Ready
<1>4. /\ Set(clan, st[t].key, st[t].obj, 0) \in CacheOf(Keys, Objects)
      /\ Set(l1, st[t].key, st[t].obj, MaxChannels) \in CacheOf(Keys, Objects)
      /\ Len(Set(l1, st[t].key, st[t].obj, MaxChannels).order) <= MaxChannels
  <2>1. l1 \in CacheOf(Keys, Objects) /\ clan \in CacheOf(Keys, Objects) /\ Len(l1.order) <= MaxChannels
    BY DEF Inv, Caches
  <2>2. MaxChannels \in Nat /\ MaxChannels > 0
    BY MaxChannelsAssumption
  <2> QED BY <1>3, <2>1, <2>2, SetKeeps
<1>5. Caches'
  BY <1>2, <1>4 DEF SetClan, SetClient, SetAgain, Inv, Caches
<1>6. \E d : Go(t, d) /\ Ready(t, d, Objects)
  <2>1. CASE Go(t, Idle)
    BY <2>1, IdleReady
  <2>2. CASE SetClan(t)
    BY <1>3, <2>2 DEF SetClan, To, Ready, ThreadState, Labels
  <2>3. CASE SetClient(t) /\ ~Go(t, Idle)
    <3>1. Go(t, [st[t] EXCEPT !.pc = st[t].then]) /\ st[t].then \in {"again", "next"}
      BY <1>3, <2>3 DEF SetClient, To, ThreadState
    <3>2. Ready(t, [st[t] EXCEPT !.pc = st[t].then], Objects)
      BY <1>3, <3>1 DEF Ready, ThreadState, Labels
    <3> QED BY <3>1, <3>2
  <2> QED BY <2>1, <2>2, <2>3 DEF SetAgain
<1> QED BY <1>1, <1>2, <1>5, <1>6, CacheMove

----------------------------------------------------------------------------
(* Loading a clan's channels.                                              *)

\* After a load the dispatcher has its message's channel to fetch.
LEMMA AfterLoadReady ==
    ASSUME Inv, NEW t \in Threads, st[t].pc # "idle"
    PROVE  Ready(t, AfterLoad(t), Objects)
<1>1. CASE t = Dispatcher
  <2>1. st[t].want \in Keys
    BY <1>1, Known DEF Ready
  <2> QED BY <1>1, <2>1, IdleReady DEF AfterLoad, Ready, Idle, ThreadState, Labels
<1>2. CASE t # Dispatcher
  BY <1>2, IdleReady DEF AfterLoad
<1> QED BY <1>1, <1>2

\* Reload, List and NextDesc.
LEMMA LoadInv ==
    ASSUME Inv, NEW t \in Threads, Reload(t) \/ List(t) \/ NextDesc(t)
    PROVE  Inv'
<1>0. Ready(t, st[t], Objects) /\ st[t].pc \in {"reload", "load", "list", "next"}
  BY Known DEF Reload, List, NextDesc, At
<1>1. Ready(t, AfterLoad(t), Objects)
  BY <1>0, AfterLoadReady
<1>2. st[t] \in ThreadState /\ (t = Dispatcher => st[t].want \in Keys)
  BY <1>0 DEF Ready
<1>3. UNCHANGED caches /\ World'
  BY Kept DEF Reload, List, NextDesc
<1>4. Control'
  BY DEF Reload, List, NextDesc, Inv, Control
<1>5. CASE Reload(t)
  <2>1. History'
    BY <1>5, Kept DEF Reload
  <2>2. \E d : Go(t, d) /\ Ready(t, d, Objects)
    BY <1>1, <1>2, <1>5 DEF Reload, To, Ready, ThreadState, Labels
  <2> QED BY <1>3, <1>4, <2>1, <2>2, Move
<1>6. CASE List(t) /\ UNCHANGED history /\ Go(t, AfterLoad(t))
  BY <1>1, <1>3, <1>4, <1>6, Kept, Move
<1>7. CASE List(t) /\ ~(UNCHANGED history /\ Go(t, AfterLoad(t)))
  <2> DEFINE todo == {[key |-> k, ver |-> server[k]] : k \in {k \in Keys : Exists(server[k])}}
             d == [st[t] EXCEPT !.pc = "next", !.todo = todo]
  <2>1. Go(t, d)
    BY <1>7 DEF List
  <2>2. todo \in SUBSET [key : Keys, ver : 1 .. MaxVersion]
    BY DEF Exists
  <2>3. handled' = handled
    BY <1>7 DEF List
  <2>4. overlap' \in [Keys -> BOOLEAN]
    BY <1>7, Zenon DEF List
  <2>5. crowded' \subseteq Keys
    <3>1. PICK S \in SUBSET todo : crowded' = crowded \cup {x.key : x \in S}
      BY <1>7 DEF List
    <3>2. crowded \subseteq Keys
      BY DEF Inv, History
    <3> HIDE DEF todo
    <3> QED BY <2>2, <3>1, <3>2
  <2> HIDE DEF todo
  <2>6. Ready(t, d, Objects)
    BY <1>2, <2>2 DEF Ready, ThreadState, Labels
  <2> HIDE DEF d
  <2>7. History'
    BY <2>3, <2>4, <2>5 DEF Inv, History
  <2> QED BY <1>3, <1>4, <2>1, <2>6, <2>7, Move
<1>8. CASE NextDesc(t)
  <2>1. History'
    BY <1>8, Kept DEF NextDesc
  <2>2. CASE st[t].todo = {}
    BY <1>1, <1>3, <1>4, <1>8, <2>1, <2>2, Move DEF NextDesc
  <2>3. CASE st[t].todo # {}
    <3>1. PICK x \in st[t].todo :
              Go(t, [st[t] EXCEPT !.pc = "clanget", !.key = x.key, !.ver = x.ver,
                                  !.obj = 0, !.todo = @ \ {x}, !.then = "next"])
      BY <1>8, <2>3 DEF NextDesc
    <3> DEFINE d == [st[t] EXCEPT !.pc = "clanget", !.key = x.key, !.ver = x.ver,
                                  !.obj = 0, !.todo = @ \ {x}, !.then = "next"]
    <3>2. x.key \in Keys /\ x.ver \in 1 .. MaxVersion /\ x.ver \in 0 .. Gone
      BY <1>2, BoundsAssumption DEF ThreadState, Gone
    <3>3. st[t].todo \ {x} \in SUBSET [key : Keys, ver : 1 .. MaxVersion]
      BY <1>2 DEF ThreadState
    <3> DEFINE rest == st[t].todo \ {x}
    <3>5. d = [st[t] EXCEPT !.pc = "clanget", !.key = x.key, !.ver = x.ver,
                            !.obj = 0, !.todo = rest, !.then = "next"]
      OBVIOUS
    <3>4. Ready(t, d, Objects)
      <4> HIDE DEF d, rest
      <4>1. d \in ThreadState
        BY <1>2, <3>2, <3>3, <3>5 DEF ThreadState, Labels, rest
      <4>2. d.pc = "clanget" /\ d.key = x.key /\ d.ver = x.ver /\ d.want = st[t].want /\ st[t].pc = "next"
        BY <1>2, <1>8, <3>5 DEF ThreadState, NextDesc, At
      <4> QED BY <1>2, <3>2, <4>1, <4>2 DEF Ready
    <3> QED BY <1>3, <1>4, <2>1, <3>1, <3>4, Move
  <2> QED BY <2>2, <2>3
<1> QED BY <1>5, <1>6, <1>7, <1>8

----------------------------------------------------------------------------
(* CreateChannel, DeleteChannel, the listeners and the server.             *)

\* Create.
LEMMA CreateInv ==
    ASSUME Inv, NEW t \in Threads, Create(t)
    PROVE  Inv'
<1>0. Ready(t, st[t], Objects) /\ At(t, "create")
  BY Known DEF Create
<1>1. UNCHANGED <<l1, clan, l2, events, ops, pushed>> /\ UNCHANGED history /\ UNCHANGED <<loaded, lock>>
  BY DEF Create
<1>2. Control' /\ History'
  BY <1>1, Kept
<1>3. st[t] \in ThreadState /\ st[t].key \in Keys /\ (t = Dispatcher => st[t].want \in Keys)
  BY <1>0 DEF Ready, At
<1>4. CASE Go(t, Idle) /\ UNCHANGED <<server, desc>>
  <2>1. World' /\ UNCHANGED caches
    BY <1>1, <1>4, Kept DEF outside, caches
  <2> QED BY <1>2, <1>4, <2>1, IdleReady, Move
<1>5. CASE ~(Go(t, Idle) /\ UNCHANGED <<server, desc>>)
  <2> DEFINE n == Len(desc) + 1
             d == [st[t] EXCEPT !.pc = "setclan", !.obj = n]
  <2>1. server' = [server EXCEPT ![st[t].key] = 1] /\ desc' = NewTextChannel(1) /\ Go(t, d)
    BY <1>5 DEF Create
  <2>2. desc' \in Seq(1 .. MaxVersion) /\ Objects \subseteq Objects' /\ n \in Objects'
    BY <2>1, BoundsAssumption, ObjectStep
  <2>3. n \in Nat
    BY <2>2 DEF Objects
  <2> HIDE DEF n
  <2>4. Ready(t, d, Objects')
    BY <1>3, <2>2, <2>3 DEF Ready, ThreadState, Labels
  <2> HIDE DEF d
  <2>5. Details' /\ Caches'
    BY <1>1, <2>2, CachesKept DEF Inv, Details
  <2>6. World'
    <3>1. 1 \in 0 .. Gone
      BY BoundsAssumption DEF Gone
    <3>2. server' \in [Keys -> 0 .. Gone]
      BY <1>3, <2>1, <3>1 DEF Inv, World
    <3> QED BY <1>1, <3>2 DEF Inv, World
  <2> QED BY <1>2, <2>1, <2>2, <2>4, <2>5, <2>6, GoroutineStep DEF Inv
<1> QED BY <1>4, <1>5

\* A pushed event is an event.
LEMMA PushType ==
    ASSUME Inv, NEW type \in {"changed", "message"}, NEW k \in Keys, NEW v \in 0 .. Gone, Push(type, k, v)
    PROVE  events' \in Seq(Event)
<1>1. [type |-> type, key |-> k, ver |-> v] \in Event
  BY DEF Event
<1>2. events \in Seq(Event)
  BY DEF Inv, World
<1> QED BY <1>1, <1>2 DEF Push

\* DeleteDesc.
LEMMA DeleteDescInv ==
    ASSUME Inv, NEW t \in Threads, DeleteDesc(t)
    PROVE  Inv'
<1>0. Ready(t, st[t], Objects) /\ At(t, "remove")
  BY Known DEF DeleteDesc
<1>1. UNCHANGED caches /\ Control' /\ History' /\ UNCHANGED <<ops, pushed>>
  BY Kept DEF DeleteDesc
<1>2. CASE Go(t, Idle) /\ UNCHANGED <<server, events>>
  <2>1. World'
    BY <1>1, <1>2, Kept DEF outside
  <2> QED BY <1>1, <1>2, <2>1, IdleReady, Move
<1>3. CASE ~(Go(t, Idle) /\ UNCHANGED <<server, events>>)
  <2>1. st[t].key \in Keys /\ Gone \in 0 .. Gone
    BY <1>0, BoundsAssumption DEF Ready, At, Gone
  <2>2. server' = [server EXCEPT ![st[t].key] = Gone] /\ Push("changed", st[t].key, Gone)
    BY <1>3 DEF DeleteDesc
  <2>3. events' \in Seq(Event)
    BY <2>1, <2>2, PushType
  <2>4. World'
    BY <1>1, <2>1, <2>2, <2>3 DEF Inv, World
  <2> DEFINE d == [st[t] EXCEPT !.pc = "delclan"]
  <2>5. Go(t, d) /\ Ready(t, d, Objects)
    BY <1>0, <1>3 DEF DeleteDesc, To, At, Ready, ThreadState, Labels
  <2> HIDE DEF d
  <2> QED BY <1>1, <2>4, <2>5, Move
<1> QED BY <1>2, <1>3

\* The evictions of DeleteChannel and of the listeners; those are the dispatcher's.
LEMMA EvictInv ==
    ASSUME Inv, NEW t \in Threads,
           DelClan(t) \/ DelClient(t) \/ (t = Dispatcher /\ (Evict1 \/ Evict2 \/ Evict3))
    PROVE  Inv'
<1>0. Ready(t, st[t], Objects) /\ st[t].pc \in {"delclan", "delclient", "evict1", "evict2", "evict3"}
  BY Known DEF DelClan, DelClient, Evict1, Evict2, Evict3, At
<1>1. UNCHANGED desc /\ UNCHANGED outside /\ UNCHANGED <<loaded, lock>>
  BY DEF DelClan, DelClient, Evict1, Evict2, Evict3
<1>2. Objects' = Objects /\ World' /\ Control'
  BY <1>1, Kept
<1>3. /\ st[t] \in ThreadState /\ st[t].key \in Keys /\ st[t].ver \in 0 .. Gone
      /\ (t = Dispatcher => st[t].want \in Keys)
  BY <1>0 DEF Ready, ThreadState
<1>4. Details'
  BY <1>1, <1>3, BoundsAssumption DEF DelClan, DelClient, Evict1, Evict2, Evict3, Inv, Details
<1>5. Caches'
  <2>1. /\ l1 \in CacheOf(Keys, Objects) /\ clan \in CacheOf(Keys, Objects)
        /\ Len(l1.order) <= MaxChannels
    BY DEF Inv, Caches
  <2>2. /\ Delete(l1, st[t].key) \in CacheOf(Keys, Objects) /\ Delete(clan, st[t].key) \in CacheOf(Keys, Objects)
        /\ Len(Delete(l1, st[t].key).order) <= Len(l1.order)
    BY <1>3, <2>1, DeleteKeeps
  <2>3. Len(l1.order) \in Nat /\ Len(Delete(l1, st[t].key).order) \in Nat
    BY <2>1, <2>2, CacheShape
  <2>4. Len(Delete(l1, st[t].key).order) <= MaxChannels
    BY <2>1, <2>2, <2>3, MaxChannelsAssumption
  <2>5. l1' \in {l1, Delete(l1, st[t].key)} /\ clan' \in {clan, Delete(clan, st[t].key)}
    BY DEF DelClan, DelClient, Evict1, Evict2, Evict3
  <2> QED BY <1>2, <2>1, <2>2, <2>4, <2>5 DEF Caches
<1>6. History'
  <2>1. CASE UNCHANGED history
    BY <2>1, Kept
  <2>2. CASE Evict2 /\ t = Dispatcher
    <3>1. overlap \in [Keys -> BOOLEAN]
      BY DEF Inv, History
    <3>2. overlap' = overlap \/ overlap' = [overlap EXCEPT ![st[t].key] = TRUE]
      BY <2>2 DEF Evict2
    <3>3. overlap' \in [Keys -> BOOLEAN]
      BY <3>1, <3>2, Zenon
    <3>4. UNCHANGED <<handled, crowded>>
      BY <2>2 DEF Evict2
    <3> QED BY <3>3, <3>4 DEF Inv, History
  <2>3. CASE Evict3 /\ t = Dispatcher
    BY <1>3, <2>3 DEF Evict3, Inv, History
  <2> QED BY <2>1, <2>2, <2>3 DEF DelClan, DelClient, Evict1
<1>7. \E d : Go(t, d) /\ Ready(t, d, Objects)
  <2>1. CASE Go(t, Idle)
    BY <2>1, IdleReady
  <2>2. CASE \E l \in {"delclient", "evict2", "evict3"} : To(t, l)
    BY <1>3, <2>2 DEF To, Ready, ThreadState, Labels
  <2> QED BY <2>1, <2>2 DEF DelClan, DelClient, Evict1, Evict2, Evict3
<1> QED BY <1>2, <1>4, <1>5, <1>6, <1>7, GoroutineStep DEF Inv

\* Dispatch takes the next event.
LEMMA DispatchInv ==
    ASSUME Inv, Dispatch
    PROVE  Inv'
<1> DEFINE e == Head(events)
           d == [Idle EXCEPT !.pc = IF e.type = "changed" THEN "evict1" ELSE "load",
                             !.key = e.key, !.want = e.key, !.ver = e.ver]
<1>1. events \in Seq(Event) /\ events # <<>>
  BY DEF Inv, World, Dispatch
<1>2. e \in Event /\ Tail(events) \in Seq(Event)
  BY <1>1
<1>3. Go(Dispatcher, d) /\ Dispatcher \in Threads
  BY DEF Dispatch, Threads
<1>4. e.key \in Keys /\ e.ver \in 0 .. Gone
  BY <1>2 DEF Event
<1>5. UNCHANGED caches /\ Control' /\ World'
  BY <1>2, Kept DEF Dispatch, Inv, World
<1>6. History'
  <2>1. handled' = handled /\ crowded' \in {crowded, crowded \cup {e.key}}
    BY DEF Dispatch
  <2>2. overlap \in [Keys -> BOOLEAN]
    BY DEF Inv, History
  <2>3. PICK b \in BOOLEAN : overlap' \in {overlap, [overlap EXCEPT ![e.key] = b]}
    BY Zenon DEF Dispatch
  <2>4. overlap' \in [Keys -> BOOLEAN]
    BY <2>2, <2>3, Zenon
  <2> QED BY <1>4, <2>1, <2>4 DEF Inv, History
<1> HIDE DEF e
<1>7. Ready(Dispatcher, d, Objects)
  <2> DEFINE pc == IF e.type = "changed" THEN "evict1" ELSE "load"
  <2>1. pc \in {"evict1", "load"} /\ pc \in Labels
    BY DEF Labels
  <2> HIDE DEF pc
  <2>2. /\ d = [Idle EXCEPT !.pc = pc, !.key = e.key, !.want = e.key, !.ver = e.ver]
        /\ d.pc = pc /\ d.key = e.key /\ d.want = e.key
    BY DEF Idle, pc
  <2>3. d \in ThreadState
    BY <1>4, <2>1, <2>2 DEF Idle, ThreadState
  <2> QED BY <1>4, <2>1, <2>2, <2>3 DEF Ready
<1> HIDE DEF d
<1> QED BY <1>3, <1>5, <1>6, <1>7, Move

\* Change, Message and Expire.
LEMMA OutsideInv ==
    ASSUME Inv, NEW k \in Keys, Change(k) \/ Message(k) \/ Expire(k)
    PROVE  Inv'
<1>1. UNCHANGED <<l1, clan, desc, st>> /\ UNCHANGED history /\ UNCHANGED <<loaded, lock>>
  BY DEF Change, Message, Expire, caches
<1>2. Objects' = Objects /\ Control' /\ History'
  BY <1>1, Kept
<1>3. Caches' /\ Goroutines'
  BY <1>1, <1>2 DEF Inv, Caches, Goroutines
<1>4. Details'
  BY <1>1, BoundsAssumption DEF Change, Message, Expire, caches, Inv, Details
<1>5. World'
  <2>1. CASE Change(k)
    <3>1. PICK v \in {server[k] + 1, Gone} : server' = [server EXCEPT ![k] = v] /\ Push("changed", k, v)
      BY <2>1 DEF Change
    <3>2. v \in 0 .. Gone
      BY <2>1, BoundsAssumption DEF Change, Exists, Gone
    <3>3. events' \in Seq(Event)
      BY <3>1, <3>2, PushType
    <3> QED BY <2>1, <3>1, <3>2, <3>3 DEF Change, Inv, World
  <2>2. CASE Message(k)
    <3>1. server[k] \in 0 .. Gone
      BY DEF Inv, World
    <3>2. events' \in Seq(Event)
      BY <2>2, <3>1, PushType DEF Message
    <3> QED BY <2>2, <3>2 DEF Message, Inv, World
  <2>3. CASE Expire(k)
    BY <2>3, Kept DEF Expire
  <2> QED BY <2>1, <2>2, <2>3
<1> QED BY <1>2, <1>3, <1>4, <1>5 DEF Inv

\* A stuttering step.
LEMMA StutterInv == Inv /\ UNCHANGED vars => Inv'
<1> SUFFICES ASSUME Inv, UNCHANGED vars PROVE Inv'
  OBVIOUS
<1>1. UNCHANGED outside /\ UNCHANGED history /\ UNCHANGED <<loaded, lock>> /\ UNCHANGED <<l1, clan, l2, desc, st>>
  BY DEF vars, outside, history
<1>2. World' /\ Control' /\ History' /\ Details' /\ Objects' = Objects
  BY <1>1, Kept
<1> QED BY <1>1, <1>2 DEF Inv, Caches, Goroutines

\* Every step keeps the invariant.
LEMMA InvNext == Inv /\ [Next]_vars => Inv'
<1> SUFFICES ASSUME Inv, [Next]_vars PROVE Inv'
  OBVIOUS
<1>1. ASSUME NEW t \in Threads, Thread(t) PROVE Inv'
  BY <1>1, BeginInv, FetchInv, StoreInv, LookUpInv, ApplyInv, SetInv, LoadInv, CreateInv,
     DeleteDescInv, EvictInv DEF Thread
<1>2. CASE Dispatch
  BY <1>2, DispatchInv
<1>3. CASE Evict1 \/ Evict2 \/ Evict3
  <2>1. Dispatcher \in Threads
    BY DEF Threads
  <2> QED BY <1>3, <2>1, EvictInv
<1>4. ASSUME NEW k \in Keys, Change(k) \/ Message(k) \/ Expire(k) PROVE Inv'
  BY <1>4, OutsideInv
<1>5. CASE UNCHANGED vars
  BY <1>5, StutterInv
<1> QED BY <1>1, <1>2, <1>3, <1>4, <1>5 DEF Next

\* Spec always satisfies the invariant.
LEMMA InvHolds == Spec => []Inv
<1> QED BY InvInit, InvNext, PTL DEF Spec

\* What a cache of the invariant is in terms of the properties.
LEMMA CacheTypes ==
    ASSUME NEW c \in CacheOf(Keys, Objects), desc \in Seq(1 .. MaxVersion)
    PROVE  CacheType(c) /\ Coherent(c)
<1>1. DOMAIN c = {"items", "order"} /\ Coherent(c)
  BY DEF CacheOf
<1>2. DOMAIN desc = Objects
  BY DEF Objects
<1>3. DOMAIN c.items \subseteq Keys /\ c.items \in [DOMAIN c.items -> Objects] /\ c.order \in Seq(Keys)
  BY CacheShape
<1> QED BY <1>1, <1>2, <1>3 DEF CacheType

\* Every variable keeps its type, and what a cache holds are objects, for any
\* channels, goroutines and sizes.
THEOREM TypeCorrect == Spec => []TypeOK
<1>1. Inv => TypeOK
  BY CacheTypes DEF Inv, World, Control, History, Details, Caches, Goroutines, TypeOK
<1> QED BY <1>1, InvHolds, PTL

\* CacheManager's map and order agree, and the client's cache never exceeds
\* maxSize, whatever Fetch, the loads, CreateChannel, DeleteChannel and the
\* listeners do to it in whatever order.
THEOREM CachesCorrect == Spec => []CachesCoherent
<1>1. Inv => CachesCoherent
  BY CacheTypes DEF Inv, Details, Caches, CachesCoherent
<1> QED BY <1>1, InvHolds, PTL
----------------------------------------------------------------------------
(* Fresh and Survives.  They follow what a goroutine has read, found or    *)
(* made until it stores it: a version no older than the change handled     *)
(* last, and, where it is alone, the object the clan's cache keeps.        *)

\* The steps of upsertChannel and of what leads to it: the goroutine has a version, or
\* an object.
Working == {"l2set", "clanget", "clientget", "apply", "setclan", "setclient", "again"}
Reading == {"l2set", "clanget", "clientget", "apply"}
Storing == {"setclan", "setclient", "again"}
Evictions == {"evict1", "evict2", "evict3"}

Evicting(k) == On(Dispatcher, k) /\ st[Dispatcher].pc \in Evictions
\* Fresh says something of the channel.
Settled(k) == ~overlap[k] /\ ~Evicting(k)

\* Object o is known as channel k.
Keeps(c, k, o) == Has(c, k) /\ c.items[k] = o
Holds(t, k, o) == st[t].pc \in Storing \cup {"apply"} /\ st[t].key = k /\ st[t].obj = o
Owned(o, k) == Keeps(l1, k, o) \/ Keeps(clan, k, o) \/ \E t \in Threads : Holds(t, k, o)

\* No object is two channels'.
OneKey == \A o \in Objects : \A j, k \in Keys : Owned(o, j) /\ Owned(o, k) => j = k

\* The server is ahead of what it has told.
Versions ==
    /\ \A k \in Keys : handled[k] <= server[k]
    /\ \A i \in DOMAIN events : events[i].ver <= server[events[i].key]
    /\ st[Dispatcher].pc \in Evictions => st[Dispatcher].ver <= server[st[Dispatcher].key]

\* Nothing is known of a channel that was never made.
Busy(t, k) ==
    /\ st[t].pc # "idle"
    /\ (st[t].pc \in Working /\ st[t].key = k) \/ \E d \in st[t].todo : d.key = k
Unborn ==
    \A k \in Keys : server[k] = 0 =>
        l2[k] = 0 /\ ~Has(clan, k) /\ ~Has(l1, k) /\ \A t \in Threads : ~Busy(t, k)

\* Only one goroutine is on a channel that never was crowded, so what it has found in
\* the clan's cache is still there.
Alone == \A k \in Keys \ crowded : \A t, u \in Threads : On(t, k) /\ On(u, k) => t = u
Placed(t) ==
    LET k == st[t].key
    IN  k \in Keys \ crowded =>
            /\ st[t].pc = "clientget" => ~Has(clan, k)
            /\ st[t].pc = "apply" =>
                   IF st[t].obj = 0 THEN ~Has(clan, k) ELSE Has(clan, k) => clan.items[k] = st[t].obj
            /\ st[t].pc = "setclan" => (Has(clan, k) => clan.items[k] = st[t].obj)
            /\ st[t].pc \in {"setclient", "again"} => Keeps(clan, k, st[t].obj)

\* How far the listener has got with a change no other operation overlaps.
Clearing ==
    LET d == st[Dispatcher]
    IN  d.pc \in Evictions =>
            /\ d.want = d.key /\ d.todo = {}
            /\ ~overlap[d.key] =>
                   /\ \A t \in Apps : ~On(t, d.key)
                   /\ d.pc \in {"evict2", "evict3"} => ~Has(l1, d.key)
                   /\ d.pc = "evict3" => l2[d.key] = 0

\* What a goroutine is about to store is no older than the change handled last.
FreshWork(t) ==
    \A k \in Keys : Settled(k) =>
        /\ st[t].pc \in Reading /\ st[t].key = k => st[t].ver >= handled[k]
        /\ st[t].pc \in Storing /\ st[t].key = k => desc[st[t].obj] >= handled[k]
        /\ \A d \in st[t].todo : st[t].pc # "idle" /\ d.key = k => d.ver >= handled[k]

----------------------------------------------------------------------------
(* What the caches' methods do to the entries.                             *)

\* Set adds one entry; without a limit it takes none out.
LEMMA SetItems ==
    ASSUME NEW K, NEW V, NEW c \in CacheOf(K, V), NEW k \in K, NEW v \in V, NEW max \in Nat
    PROVE  /\ Keeps(Set(c, k, v, max), k, v)
           /\ \A x, o : Keeps(Set(c, k, v, max), x, o) => IF x = k THEN o = v ELSE Keeps(c, x, o)
           /\ max = 0 => \A x, o : x # k /\ Keeps(c, x, o) => Keeps(Set(c, k, v, max), x, o)
<1> DEFINE s == Set(c, k, v, max)
<1>1. CASE s.items = With(c.items, k, v)
  BY <1>1 DEF With, Keeps, Has
<1>2. CASE max > 0 /\ s.items = With(Without(c.items, Head(c.order)), k, v)
  BY <1>2 DEF With, Without, Restrict, Keeps, Has
<1> QED BY <1>1, <1>2 DEF Set

\* Delete takes out the entry of its key and no other.
LEMMA DeleteItems ==
    ASSUME NEW c, NEW k
    PROVE  \A x, o : Keeps(Delete(c, k), x, o) <=> x # k /\ Keeps(c, x, o)
<1>1. CASE ~Has(c, k)
  BY <1>1 DEF Delete, Keeps, Has
<1>2. CASE Has(c, k)
  <2>1. Delete(c, k).items = Without(c.items, k)
    BY <1>2 DEF Delete
  <2> QED BY <2>1 DEF Without, Restrict, Keeps, Has
<1> QED BY <1>1, <1>2

\* What a cache keeps are objects.
LEMMA KeepsObjects ==
    ASSUME Inv
    PROVE  /\ \A k, o : Keeps(l1, k, o) \/ Keeps(clan, k, o) => o \in Objects /\ k \in Keys
           /\ Objects \subseteq Nat /\ 0 \notin Objects /\ Len(desc) + 1 \notin Objects
           /\ \A k : Has(l1, k) => Keeps(l1, k, l1.items[k])
           /\ \A k : Has(clan, k) => Keeps(clan, k, clan.items[k])
<1>1. l1 \in CacheOf(Keys, Objects) /\ clan \in CacheOf(Keys, Objects)
  BY DEF Inv, Caches
<1>2. /\ DOMAIN l1.items \subseteq Keys /\ l1.items \in [DOMAIN l1.items -> Objects]
      /\ DOMAIN clan.items \subseteq Keys /\ clan.items \in [DOMAIN clan.items -> Objects]
  BY <1>1, CacheShape
<1>3. Objects \subseteq Nat /\ 0 \notin Objects /\ Len(desc) + 1 \notin Objects
  <2>1. Len(desc) \in Nat
    BY DEF Inv, Details
  <2> QED BY <2>1 DEF Objects
<1> QED BY <1>2, <1>3 DEF Keeps, Has

----------------------------------------------------------------------------
(* What a step of goroutine t may do to the caches, the store, the objects *)
(* and the other goroutines.                                               *)

Runs(t) == Thread(t) \/ (t = Dispatcher /\ (Dispatch \/ Evict1 \/ Evict2 \/ Evict3))

\* The caches gain what t holds, and lose only an entry of t's channel.
CacheEffect(t) ==
    /\ \A k, o : Keeps(l1, k, o)' => Keeps(l1, k, o) \/ (st[t].pc \in {"setclient", "again"} /\ Holds(t, k, o))
    /\ \A k, o : Keeps(clan, k, o)' => Keeps(clan, k, o) \/ (st[t].pc = "setclan" /\ Holds(t, k, o))
    /\ \A k, o : Keeps(clan, k, o) =>
           Keeps(clan, k, o)' \/ (st[t].pc \in {"setclan", "delclan", "evict3"} /\ st[t].key = k)

\* The store gains the version t holds, an object it updates gets it.
StoreEffect(t) ==
    /\ \A k \in Keys : l2'[k] \in {l2[k], 0} \/ (st[t].pc = "l2set" /\ st[t].key = k /\ l2'[k] = st[t].ver)
    /\ \A o \in Objects : desc'[o] = desc[o] \/ (st[t].pc = "apply" /\ st[t].obj = o /\ desc'[o] = st[t].ver)
    /\ Objects \subseteq Objects' /\ Objects' \subseteq Objects \cup {Len(desc) + 1}

\* The version that t works with is one it had, one it read from the store or from
\* the server, or one of its list's.
ReadEffect(t) ==
    \A k \in Keys : st'[t].pc \in Reading /\ st'[t].key = k =>
        LET v == st'[t].ver
        IN  \/ st[t].pc \in Reading /\ st[t].key = k /\ st[t].ver = v
            \/ l2[k] # 0 /\ l2[k] = v
            \/ Exists(server[k]) /\ server[k] = v
            \/ st[t].pc = "next" /\ \E d \in st[t].todo : d.key = k /\ d.ver = v

\* The object that t stores is one it stored, one it has just updated, or the one of a channel it made.
MakeEffect(t) ==
    \A k \in Keys : st'[t].pc \in Storing /\ st'[t].key = k =>
        LET o == st'[t].obj
        IN  \/ st[t].pc \in Storing /\ st[t].key = k /\ st[t].obj = o /\ desc' = desc
            \/ st[t].pc = "apply" /\ st[t].key = k /\ desc'[o] = st[t].ver
            \/ st[t].pc = "create" /\ server[k] = 0 /\ server'[k] = 1 /\ desc'[o] = 1

\* Its list is the rest of the one it had, or new from the server.
ListEffect(t) ==
    st'[t].pc # "idle" => \A d \in st'[t].todo :
        \/ st[t].pc # "idle" /\ d \in st[t].todo
        \/ d.key \in Keys /\ Exists(server[d.key]) /\ d.ver = server[d.key]

\* t gets an object from a cache or makes one.
HoldEffect(t) ==
    \A k, o : Holds(t, k, o)' /\ o # 0 =>
        Holds(t, k, o) \/ (k = st[t].key /\ (Keeps(clan, k, o) \/ Keeps(l1, k, o) \/ o = Len(desc) + 1))

\* The stores of upsertChannel and the deletes are the only steps that change a cache.
LEMMA CacheSteps ==
    ASSUME Inv, NEW t \in Threads, Runs(t)
    PROVE  CacheEffect(t)
<1>1. CASE UNCHANGED <<l1, clan>>
  BY <1>1 DEF CacheEffect, Keeps, Has
<1>2. CASE SetClan(t)
  <2>1. st[t].pc = "setclan" /\ clan' = Set(clan, st[t].key, st[t].obj, 0) /\ l1' = l1
    BY <1>2 DEF SetClan, At
  <2>2. st[t].key \in Keys /\ st[t].obj \in Objects /\ clan \in CacheOf(Keys, Objects)
    BY <2>1, Known DEF Ready, Inv, Caches
  <2>3. /\ \A x, o : Keeps(clan', x, o) => IF x = st[t].key THEN o = st[t].obj ELSE Keeps(clan, x, o)
        /\ \A x, o : x # st[t].key /\ Keeps(clan, x, o) => Keeps(clan', x, o)
    BY <2>1, <2>2, SetItems
  <2>4. \A x, o : Keeps(clan, x, o)' <=> Keeps(clan', x, o)
    BY DEF Keeps, Has
  <2>5. \A x, o : Keeps(l1, x, o)' <=> Keeps(l1, x, o)
    BY <2>1 DEF Keeps, Has
  <2> QED BY <2>1, <2>3, <2>4, <2>5 DEF CacheEffect, Holds, Storing
<1>3. CASE SetClient(t) \/ SetAgain(t)
  <2>1. st[t].pc \in {"setclient", "again"} /\ l1' = Set(l1, st[t].key, st[t].obj, MaxChannels) /\ clan' = clan
    BY <1>3 DEF SetClient, SetAgain, At
  <2>2. st[t].key \in Keys /\ st[t].obj \in Objects /\ l1 \in CacheOf(Keys, Objects) /\ MaxChannels \in Nat
    BY <2>1, Known, MaxChannelsAssumption DEF Ready, Inv, Caches
  <2>3. \A x, o : Keeps(l1', x, o) => IF x = st[t].key THEN o = st[t].obj ELSE Keeps(l1, x, o)
    BY <2>1, <2>2, SetItems
  <2>4. \A x, o : Keeps(l1, x, o)' <=> Keeps(l1', x, o)
    BY DEF Keeps, Has
  <2>5. \A x, o : Keeps(clan, x, o)' <=> Keeps(clan, x, o)
    BY <2>1 DEF Keeps, Has
  <2> QED BY <2>1, <2>3, <2>4, <2>5 DEF CacheEffect, Holds, Storing
<1>4. CASE DelClient(t) \/ (t = Dispatcher /\ Evict1)
  <2>1. l1' = Delete(l1, st[t].key) /\ clan' = clan
    BY <1>4 DEF DelClient, Evict1
  <2>2. \A x, o : Keeps(l1', x, o) => Keeps(l1, x, o)
    BY <2>1, DeleteItems
  <2> QED BY <2>1, <2>2 DEF CacheEffect, Keeps, Has
<1>5. CASE DelClan(t) \/ (t = Dispatcher /\ Evict3)
  <2>1. clan' = Delete(clan, st[t].key) /\ l1' = l1 /\ st[t].pc \in {"delclan", "evict3"}
    BY <1>5 DEF DelClan, Evict3, At
  <2>2. \A x, o : Keeps(clan', x, o) <=> x # st[t].key /\ Keeps(clan, x, o)
    BY <2>1, DeleteItems
  <2>3. \A x, o : /\ Keeps(clan, x, o)' <=> Keeps(clan', x, o)
                  /\ Keeps(l1, x, o)' <=> Keeps(l1, x, o)
    BY <2>1 DEF Keeps, Has
  <2> QED BY <2>1, <2>2, <2>3 DEF CacheEffect
<1> QED
  BY <1>1, <1>2, <1>3, <1>4, <1>5
     DEF Runs, Thread, Begin, Get, L2Get, Rest, L2Set, ClanGet, ClientGet, Apply, BeginReload, Reload, List,
         NextDesc, Create, DeleteDesc, Dispatch, Evict2, caches

\* The steps change no other goroutine.
LEMMA OthersStay ==
    ASSUME Inv, NEW t \in Threads, Runs(t)
    PROVE  st' \in [Threads -> ThreadState] /\ \A u \in Threads \ {t} : st'[u] = st[u]
<1>1. \E e : Go(t, e)
  BY DEF Runs, Thread, Begin, Get, L2Get, Rest, L2Set, ClanGet, ClientGet, Apply, SetClan, SetClient, SetAgain,
         BeginReload, Reload, List, NextDesc, Create, DeleteDesc, DelClan, DelClient,
         Dispatch, Evict1, Evict2, Evict3, To
<1>2. st \in [Threads -> ThreadState]
  BY DEF Inv, Goroutines
<1>3. st' \in [Threads -> ThreadState]
  <2>1. [Next]_vars
    BY DEF Runs, Next
  <2> QED BY <2>1, InvNext DEF Inv, Goroutines
<1> QED BY <1>1, <1>2, <1>3 DEF Go

\* l2Set stores the version read; Apply is the only step that changes an object.
LEMMA StoreSteps ==
    ASSUME Inv, NEW t \in Threads, Runs(t)
    PROVE  StoreEffect(t)
<1>0. /\ l2 \in [Keys -> 0 .. MaxVersion] /\ desc \in Seq(1 .. MaxVersion) /\ Len(desc) \in Nat
      /\ DOMAIN desc = Objects /\ Objects = 1 .. Len(desc)
  BY DEF Inv, Details, Objects
<1>1. CASE UNCHANGED <<l2, desc>>
  BY <1>1 DEF StoreEffect, Objects
<1>2. CASE L2Set(t)
  BY <1>0, <1>2 DEF L2Set, At, StoreEffect, Objects
<1>3. CASE Apply(t)
  <2>1. l2' = l2 /\ st[t].pc = "apply"
    BY <1>3 DEF Apply, At
  <2>2. CASE st[t].obj # 0
    <3>1. desc' = [desc EXCEPT ![st[t].obj] = st[t].ver]
      BY <1>3, <2>2 DEF Apply, UpdateFromDesc
    <3>2. Len(desc') = Len(desc)
      BY <1>0, <3>1
    <3> QED BY <1>0, <2>1, <3>1, <3>2 DEF StoreEffect, Objects
  <2>3. CASE st[t].obj = 0
    <3>1. desc' = Append(desc, st[t].ver)
      BY <1>3, <2>3 DEF Apply, NewTextChannel
    <3> QED BY <1>0, <2>1, <3>1 DEF StoreEffect, Objects
  <2> QED BY <2>2, <2>3
<1>4. CASE Create(t)
  <2>1. l2' = l2 /\ (desc' = desc \/ desc' = Append(desc, 1))
    BY <1>4 DEF Create, NewTextChannel
  <2> QED BY <1>0, <2>1 DEF StoreEffect, Objects
<1>5. CASE t = Dispatcher /\ Evict2
  BY <1>0, <1>5 DEF Evict2, At, StoreEffect, Objects
<1> QED
  BY <1>1, <1>2, <1>3, <1>4, <1>5
     DEF Runs, Thread, Begin, Get, L2Get, Rest, ClanGet, ClientGet, BeginReload, Reload, List, NextDesc,
         SetClan, SetClient, SetAgain, DeleteDesc, DelClan, DelClient, Dispatch, Evict1, Evict3, caches

\* A step of t, as the new data it has.
LEMMA GoEffect ==
    ASSUME Inv, NEW t \in Threads, NEW e, Go(t, e)
    PROVE  st'[t] = e
<1>1. st \in [Threads -> ThreadState]
  BY DEF Inv, Goroutines
<1> QED BY <1>1 DEF Go

\* What the steps do to the goroutine that takes them.
LEMMA WorkSteps ==
    ASSUME Inv, NEW t \in Threads, Runs(t)
    PROVE  ReadEffect(t) /\ MakeEffect(t) /\ ListEffect(t) /\ HoldEffect(t)
<1>0. st[t] \in ThreadState /\ Ready(t, st[t], Objects)
  BY Known
<1>1. ASSUME st'[t].pc \notin Working, st'[t].pc = "idle" \/ st'[t].todo \in {{}, st[t].todo}, 
             st'[t].pc = "idle" \/ st'[t].todo = {} \/ st[t].pc # "idle"
      PROVE  ReadEffect(t) /\ MakeEffect(t) /\ ListEffect(t) /\ HoldEffect(t)
  BY <1>1 DEF ReadEffect, MakeEffect, ListEffect, HoldEffect, Holds, Working, Reading, Storing
<1>2. CASE \E k \in Keys : \E op \in {"get", "create", "remove"} : Begin(t, op, k)
  BY <1>1, <1>2, GoEffect DEF Begin, Idle, Working
<1> USE DEF Working, Reading, Storing
<1>3. CASE Get(t) \/ Reload(t) \/ DeleteDesc(t) \/ DelClan(t) \/ DelClient(t) \/ SetAgain(t)
  <2>1. \/ st'[t] = Idle \/ st'[t] = AfterLoad(t)
        \/ st[t].pc # "idle" /\ \E pc \in {"l2get", "list", "delclan", "delclient"} : st'[t] = [st[t] EXCEPT !.pc = pc]
    BY <1>3, GoEffect DEF Get, Reload, DeleteDesc, DelClan, DelClient, SetAgain, To, At
  <2>4. CASE st'[t] = Idle
    <3>1. st'[t].pc = "idle"
      BY <2>4 DEF Idle
    <3> QED BY <1>1, <3>1
  <2>2. CASE st'[t] = AfterLoad(t)
    <3>1. st'[t].pc \notin Working /\ st'[t].todo = {}
      BY <2>2 DEF AfterLoad, Idle
    <3> QED BY <1>1, <3>1
  <2>3. CASE /\ st[t].pc # "idle"
             /\ \E pc \in {"l2get", "list", "delclan", "delclient"} : st'[t] = [st[t] EXCEPT !.pc = pc]
    <3>1. st'[t].pc \notin Working /\ st'[t].todo = st[t].todo
      BY <1>0, <2>3 DEF ThreadState
    <3> QED BY <1>1, <2>3, <3>1
  <2> QED BY <2>1, <2>2, <2>3, <2>4
<1>4. CASE BeginReload(t) \/ (t = Dispatcher /\ Dispatch)
  <2>1. \/ st'[t] = [Idle EXCEPT !.pc = "reload"]
        \/ \E k, v : \E pc \in {"evict1", "load"} :
             st'[t] = [Idle EXCEPT !.pc = pc, !.key = k, !.want = k, !.ver = v]
    <3>1. CASE BeginReload(t)
      BY <3>1, GoEffect DEF BeginReload
    <3>2. CASE t = Dispatcher /\ Dispatch
      <4> DEFINE pc == IF Head(events).type = "changed" THEN "evict1" ELSE "load"
      <4>1. Go(t, [Idle EXCEPT !.pc = pc, !.key = Head(events).key, !.want = Head(events).key, !.ver = Head(events).ver])
        BY <3>2 DEF Dispatch
      <4>2. pc \in {"evict1", "load"}
        OBVIOUS
      <4> HIDE DEF pc
      <4> QED BY <4>1, <4>2, GoEffect
    <3> QED BY <1>4, <3>1, <3>2
  <2>2. st'[t].pc \notin Working /\ st'[t].todo = {}
    BY <2>1 DEF Idle
  <2> QED BY <1>1, <2>2
<1>15. CASE t = Dispatcher /\ (Evict1 \/ Evict2 \/ Evict3)
  <2>1. \/ st'[t] = Idle
        \/ st[t].pc # "idle" /\ \E pc \in {"evict2", "evict3"} : st'[t] = [st[t] EXCEPT !.pc = pc]
    BY <1>15, GoEffect DEF Evict1, Evict2, Evict3, To, At
  <2>2. st'[t].pc \notin Working /\ (st'[t].todo = {} \/ (st[t].pc # "idle" /\ st'[t].todo = st[t].todo))
    BY <1>0, <2>1 DEF Idle, ThreadState
  <2> QED BY <1>1, <2>2
<1>5. CASE L2Get(t)
  <2>1. CASE st'[t] = [st[t] EXCEPT !.pc = "rest"]
    <3>1. st'[t].pc \notin Working /\ st[t].pc # "idle" /\ st'[t].todo = st[t].todo
      BY <1>0, <1>5, <2>1 DEF L2Get, At, ThreadState
    <3> QED BY <1>1, <3>1
  <2>2. CASE /\ l2[st[t].key] # 0
             /\ st'[t] = [st[t] EXCEPT !.pc = "clanget", !.ver = l2[st[t].key], !.then = "again"]
    <3>1. /\ st'[t].pc = "clanget" /\ st'[t].key = st[t].key /\ st'[t].ver = l2[st[t].key] /\ st[t].pc = "l2get"
          /\ st'[t].todo = st[t].todo
      BY <1>0, <1>5, <2>2 DEF L2Get, At, ThreadState
    <3> QED BY <2>2, <3>1 DEF ReadEffect, MakeEffect, ListEffect, HoldEffect, Holds
  <2> QED BY <1>5, <2>1, <2>2, GoEffect DEF L2Get, To
<1>6. CASE Rest(t)
  <2>1. CASE st'[t] = Idle
    <3>1. st'[t].pc = "idle"
      BY <2>1 DEF Idle
    <3> QED BY <1>1, <3>1
  <2>2. CASE /\ Exists(server[st[t].key])
             /\ st'[t] = [st[t] EXCEPT !.pc = "l2set", !.ver = server[st[t].key], !.then = "again"]
    <3>1. /\ st'[t].pc = "l2set" /\ st'[t].key = st[t].key /\ st'[t].ver = server[st[t].key] /\ st[t].pc = "rest"
          /\ st'[t].todo = st[t].todo
      BY <1>0, <1>6, <2>2 DEF Rest, At, ThreadState
    <3> QED BY <2>2, <3>1 DEF ReadEffect, MakeEffect, ListEffect, HoldEffect, Holds
  <2> QED BY <1>6, <2>1, <2>2, GoEffect DEF Rest
<1>7. CASE L2Set(t)
  <2>1. st'[t] = [st[t] EXCEPT !.pc = "clanget"] /\ st[t].pc = "l2set"
    BY <1>7, GoEffect DEF L2Set, To, At
  <2>2. /\ st'[t].pc = "clanget" /\ st'[t].key = st[t].key /\ st'[t].ver = st[t].ver
        /\ st'[t].todo = st[t].todo
    BY <1>0, <2>1 DEF ThreadState
  <2> QED BY <2>1, <2>2 DEF ReadEffect, MakeEffect, ListEffect, HoldEffect, Holds
<1>8. CASE ClanGet(t)
  <2>0. st[t].pc = "clanget"
    BY <1>8 DEF ClanGet, At
  <2>1. CASE Has(clan, st[t].key) /\ st'[t] = [st[t] EXCEPT !.pc = "apply", !.obj = clan.items[st[t].key]]
    <3>1. /\ st'[t].pc = "apply" /\ st'[t].key = st[t].key /\ st'[t].ver = st[t].ver
          /\ st'[t].todo = st[t].todo /\ st'[t].obj = clan.items[st[t].key]
      BY <1>0, <2>1 DEF ThreadState
    <3> QED BY <2>0, <2>1, <3>1 DEF ReadEffect, MakeEffect, ListEffect, HoldEffect, Holds, Keeps
  <2>2. CASE st'[t] = [st[t] EXCEPT !.pc = "clientget"]
    <3>1. /\ st'[t].pc = "clientget" /\ st'[t].key = st[t].key /\ st'[t].ver = st[t].ver
          /\ st'[t].todo = st[t].todo
      BY <1>0, <2>2 DEF ThreadState
    <3> QED BY <2>0, <3>1 DEF ReadEffect, MakeEffect, ListEffect, HoldEffect, Holds
  <2> QED BY <1>8, <2>1, <2>2, GoEffect DEF ClanGet, To
<1>9. CASE ClientGet(t)
  <2> DEFINE o == IF Has(l1, st[t].key) THEN l1.items[st[t].key] ELSE 0
  <2>1. st'[t] = [st[t] EXCEPT !.pc = "apply", !.obj = o] /\ st[t].pc = "clientget"
    BY <1>9, GoEffect DEF ClientGet, At
  <2>2. /\ st'[t].pc = "apply" /\ st'[t].key = st[t].key /\ st'[t].ver = st[t].ver
        /\ st'[t].todo = st[t].todo /\ st'[t].obj = o
    <3> HIDE DEF o
    <3> QED BY <1>0, <2>1 DEF ThreadState
  <2>3. o = 0 \/ Keeps(l1, st[t].key, o)
    BY DEF Keeps
  <2> HIDE DEF o
  <2> QED BY <2>1, <2>2, <2>3 DEF ReadEffect, MakeEffect, ListEffect, HoldEffect, Holds
<1>10. CASE Apply(t)
  <2>0. /\ st[t].pc = "apply" /\ desc \in Seq(1 .. MaxVersion)
        /\ st[t].obj \in {0} \cup Objects /\ Objects = 1 .. Len(desc)
    BY <1>0, <1>10 DEF Apply, At, Ready, Inv, Details, Objects
  <2>1. CASE st[t].obj # 0
    <3>1. st'[t] = [st[t] EXCEPT !.pc = "setclan"] /\ desc' = [desc EXCEPT ![st[t].obj] = st[t].ver]
      BY <1>10, <2>1, GoEffect DEF Apply, To, UpdateFromDesc
    <3>2. /\ st'[t].pc = "setclan" /\ st'[t].key = st[t].key /\ st'[t].obj = st[t].obj
          /\ st'[t].todo = st[t].todo
      BY <1>0, <3>1 DEF ThreadState
    <3>3. desc'[st'[t].obj] = st[t].ver
      BY <2>0, <2>1, <3>1, <3>2
    <3> QED BY <2>0, <3>2, <3>3 DEF ReadEffect, MakeEffect, ListEffect, HoldEffect, Holds
  <2>2. CASE st[t].obj = 0
    <3>1. st'[t] = [st[t] EXCEPT !.pc = "setclan", !.obj = Len(desc) + 1] /\ desc' = Append(desc, st[t].ver)
      BY <1>10, <2>2, GoEffect DEF Apply, NewTextChannel
    <3>2. /\ st'[t].pc = "setclan" /\ st'[t].key = st[t].key /\ st'[t].obj = Len(desc) + 1
          /\ st'[t].todo = st[t].todo
      BY <1>0, <3>1 DEF ThreadState
    <3>3. desc'[st'[t].obj] = st[t].ver
      BY <2>0, <3>1, <3>2
    <3> QED BY <2>0, <3>2, <3>3 DEF ReadEffect, MakeEffect, ListEffect, HoldEffect, Holds
  <2> QED BY <2>1, <2>2
<1>11. CASE SetClan(t) \/ SetClient(t)
  <2>0. st[t].pc \in {"setclan", "setclient"} /\ desc' = desc
    BY <1>11 DEF SetClan, SetClient, At
  <2>1. CASE st'[t] = Idle
    <3>1. st'[t].pc = "idle"
      BY <2>1 DEF Idle
    <3> QED BY <1>1, <3>1
  <2>2. CASE \E pc \in {"setclient", "again", "next"} : st'[t] = [st[t] EXCEPT !.pc = pc]
    <3>1. /\ st'[t].pc \in {"setclient", "again", "next"} /\ st'[t].key = st[t].key /\ st'[t].obj = st[t].obj
          /\ st'[t].todo = st[t].todo
      BY <1>0, <2>2 DEF ThreadState
    <3> QED BY <2>0, <3>1 DEF ReadEffect, MakeEffect, ListEffect, HoldEffect, Holds
  <2>3. st[t].then \in {"idle", "again", "next"}
    BY <1>0 DEF ThreadState
  <2> QED BY <1>11, <2>1, <2>2, <2>3, GoEffect DEF SetClan, SetClient, To
<1>12. CASE List(t)
  <2>0. st[t].pc = "list"
    BY <1>12 DEF List, At
  <2>1. CASE st'[t] = AfterLoad(t)
    <3>1. st'[t].pc \notin Working /\ st'[t].todo = {}
      BY <2>1 DEF AfterLoad, Idle
    <3> QED BY <1>1, <3>1
  <2> DEFINE todo == {[key |-> k, ver |-> server[k]] : k \in {k \in Keys : Exists(server[k])}}
  <2>2. CASE st'[t] = [st[t] EXCEPT !.pc = "next", !.todo = todo]
    <3>1. st'[t].pc = "next" /\ st'[t].todo = todo
      <4> HIDE DEF todo
      <4> QED BY <1>0, <2>2 DEF ThreadState
    <3> QED BY <2>0, <3>1 DEF ReadEffect, MakeEffect, ListEffect, HoldEffect, Holds
  <2> QED BY <1>12, <2>1, <2>2, GoEffect DEF List
<1>13. CASE NextDesc(t)
  <2>0. st[t].pc = "next"
    BY <1>13 DEF NextDesc, At
  <2>1. CASE st'[t] = AfterLoad(t)
    <3>1. st'[t].pc \notin Working /\ st'[t].todo = {}
      BY <2>1 DEF AfterLoad, Idle
    <3> QED BY <1>1, <3>1
  <2>2. ASSUME NEW d \in st[t].todo,
               st'[t] = [st[t] EXCEPT !.pc = "clanget", !.key = d.key, !.ver = d.ver,
                                      !.obj = 0, !.todo = @ \ {d}, !.then = "next"]
        PROVE  ReadEffect(t) /\ MakeEffect(t) /\ ListEffect(t) /\ HoldEffect(t)
    <3>1. st'[t].pc = "clanget" /\ st'[t].key = d.key /\ st'[t].ver = d.ver /\ st'[t].todo = st[t].todo \ {d}
      BY <1>0, <2>2 DEF ThreadState
    <3> QED BY <2>0, <3>1 DEF ReadEffect, MakeEffect, ListEffect, HoldEffect, Holds
  <2> QED BY <1>13, <2>1, <2>2, GoEffect DEF NextDesc
<1>14. CASE Create(t)
  <2>0. /\ st[t].pc = "create" /\ st[t].key \in Keys
        /\ server \in [Keys -> 0 .. Gone] /\ desc \in Seq(1 .. MaxVersion)
    BY <1>0, <1>14 DEF Create, At, Ready, Inv, World, Details
  <2>1. CASE st'[t] = Idle
    <3>1. st'[t].pc = "idle"
      BY <2>1 DEF Idle
    <3> QED BY <1>1, <3>1
  <2>2. CASE /\ server[st[t].key] = 0 /\ server' = [server EXCEPT ![st[t].key] = 1]
             /\ desc' = Append(desc, 1)
             /\ st'[t] = [st[t] EXCEPT !.pc = "setclan", !.obj = Len(desc) + 1]
    <3>1. /\ st'[t].pc = "setclan" /\ st'[t].key = st[t].key /\ st'[t].obj = Len(desc) + 1
          /\ st'[t].todo = st[t].todo
      BY <1>0, <2>2 DEF ThreadState
    <3>2. desc'[Len(desc) + 1] = 1 /\ server'[st[t].key] = 1
      BY <2>0, <2>2
    <3> QED BY <2>0, <2>2, <3>1, <3>2 DEF ReadEffect, MakeEffect, ListEffect, HoldEffect, Holds
  <2> QED BY <1>14, <2>1, <2>2, GoEffect DEF Create, NewTextChannel
<1> QED
  BY <1>2, <1>3, <1>4, <1>5, <1>6, <1>7, <1>8, <1>9, <1>10, <1>11, <1>12, <1>13, <1>14, <1>15 DEF Runs, Thread

----------------------------------------------------------------------------
(* Who is on a channel.                                                    *)

\* Who comes to a channel where others are makes it crowded, and overlaps a change
\* that is handled there meanwhile.
JoinEffect(t) ==
    /\ crowded \subseteq crowded'
    /\ \A k \in Keys : On(t, k)' =>
           \/ On(t, k)
           \/ /\ k \in crowded' \/ \A u \in Threads \ {t} : ~On(u, k)
              /\ t # Dispatcher /\ Evicting(k) => overlap'[k]

\* A step that does not come to a channel.
LEMMA StaySteps ==
    ASSUME Inv, NEW t \in Threads, Runs(t), crowded' = crowded,
           \/ st'[t].pc = "idle"
           \/ st[t].pc # "idle" /\ st'[t].key \in {st[t].key, st[t].want} \cup {d.key : d \in st[t].todo}
                 /\ st'[t].want = st[t].want /\ st'[t].todo \subseteq st[t].todo
           \/ st'[t].key \notin Keys /\ st'[t].want \notin Keys /\ st'[t].todo = {}
    PROVE  JoinEffect(t)
BY DEF JoinEffect, On

\* The steps of the goroutines.
LEMMA JoinSteps ==
    ASSUME Inv, NEW t \in Threads, Runs(t)
    PROVE  JoinEffect(t)
<1>0. /\ st[t] \in ThreadState /\ Ready(t, st[t], Objects)
      /\ overlap \in [Keys -> BOOLEAN]
  BY Known DEF Inv, History
<1>1. ASSUME crowded' = crowded, st'[t] = Idle PROVE JoinEffect(t)
  BY <1>1, StaySteps DEF Idle
<1>2. ASSUME crowded' = crowded, st'[t] = AfterLoad(t), st[t].pc # "idle" PROVE JoinEffect(t)
  <2>1. CASE t = Dispatcher
    <3>1. st'[t].key = st[t].want /\ st'[t].want = st[t].want /\ st'[t].todo = {}
      BY <1>2, <2>1 DEF AfterLoad, Idle
    <3> QED BY <1>2, <3>1, StaySteps
  <2>2. CASE t # Dispatcher
    BY <1>1, <1>2, <2>2 DEF AfterLoad
  <2> QED BY <2>1, <2>2
<1>3. ASSUME crowded' = crowded, st[t].pc # "idle", st'[t].key = st[t].key, st'[t].want = st[t].want,
             st'[t].todo = st[t].todo
      PROVE JoinEffect(t)
  BY <1>3, StaySteps
<1>4. CASE Get(t) \/ L2Get(t) \/ Rest(t) \/ L2Set(t) \/ ClanGet(t) \/ ClientGet(t) \/ Apply(t) \/ SetClan(t)
           \/ SetClient(t) \/ SetAgain(t) \/ Create(t) \/ DeleteDesc(t) \/ DelClan(t) \/ DelClient(t)
           \/ (t = Dispatcher /\ (Evict1 \/ Evict2 \/ Evict3))
  <2>1. crowded' = crowded /\ st[t].pc # "idle"
    BY <1>4 DEF Get, L2Get, Rest, L2Set, ClanGet, ClientGet, Apply, SetClan, SetClient, SetAgain, Create,
                DeleteDesc, DelClan, DelClient, Evict1, Evict2, Evict3, At, history
  <2> DEFINE Same == st'[t].key = st[t].key /\ st'[t].want = st[t].want /\ st'[t].todo = st[t].todo
  <2>2. CASE Get(t) \/ L2Get(t) \/ Rest(t) \/ L2Set(t)
    <3>1. st'[t] = Idle \/ Same
      <4>1. CASE Get(t) \/ L2Set(t)
        BY <1>0, <4>1, GoEffect DEF Get, L2Set, To, ThreadState
      <4>2. CASE L2Get(t)
        <5> DEFINE v == l2[st[t].key]
        <5>1. \/ st'[t] = [st[t] EXCEPT !.pc = "rest"]
              \/ st'[t] = [st[t] EXCEPT !.pc = "clanget", !.ver = v, !.then = "again"]
          BY <4>2, GoEffect DEF L2Get, To
        <5> HIDE DEF v
        <5> QED BY <1>0, <5>1 DEF ThreadState
      <4>3. CASE Rest(t)
        <5> DEFINE v == server[st[t].key]
        <5>1. st'[t] = Idle \/ st'[t] = [st[t] EXCEPT !.pc = "l2set", !.ver = v, !.then = "again"]
          BY <4>3, GoEffect DEF Rest
        <5> HIDE DEF v
        <5> QED BY <1>0, <5>1 DEF ThreadState
      <4> QED BY <2>2, <4>1, <4>2, <4>3
    <3> QED BY <1>1, <1>3, <2>1, <3>1
  <2>3. CASE ClanGet(t) \/ ClientGet(t)
    <3> DEFINE c == clan.items[st[t].key]
               o == IF Has(l1, st[t].key) THEN l1.items[st[t].key] ELSE 0
    <3>2. \/ st'[t] = [st[t] EXCEPT !.pc = "clientget"]
          \/ st'[t] = [st[t] EXCEPT !.pc = "apply", !.obj = c]
          \/ st'[t] = [st[t] EXCEPT !.pc = "apply", !.obj = o]
      BY <2>3, GoEffect DEF ClanGet, ClientGet, To
    <3> HIDE DEF c, o
    <3>1. Same
      BY <1>0, <3>2 DEF ThreadState
    <3> QED BY <1>3, <2>1, <3>1
  <2>4. CASE Apply(t)
    <3> DEFINE o == Len(desc) + 1
    <3>2. st'[t] = [st[t] EXCEPT !.pc = "setclan"] \/ st'[t] = [st[t] EXCEPT !.pc = "setclan", !.obj = o]
      BY <2>4, GoEffect DEF Apply, To
    <3> HIDE DEF o
    <3>1. Same
      BY <1>0, <3>2 DEF ThreadState
    <3> QED BY <1>3, <2>1, <3>1
  <2>5. CASE SetClan(t) \/ SetClient(t) \/ SetAgain(t)
    <3>2. st'[t] = Idle \/ \E pc : st'[t] = [st[t] EXCEPT !.pc = pc]
      BY <2>5, GoEffect DEF SetClan, SetClient, SetAgain, To
    <3>1. st'[t] = Idle \/ Same
      BY <1>0, <3>2 DEF ThreadState
    <3> QED BY <1>1, <1>3, <2>1, <3>1
  <2>6. CASE Create(t) \/ DeleteDesc(t) \/ DelClan(t) \/ DelClient(t)
    <3>1. st'[t] = Idle \/ Same
      <4>1. CASE Create(t)
        <5> DEFINE o == Len(desc) + 1
        <5>1. st'[t] = Idle \/ st'[t] = [st[t] EXCEPT !.pc = "setclan", !.obj = o]
          BY <4>1, GoEffect DEF Create
        <5> HIDE DEF o
        <5> QED BY <1>0, <5>1 DEF ThreadState
      <4>2. CASE DeleteDesc(t)
        BY <1>0, <4>2, GoEffect DEF DeleteDesc, To, ThreadState
      <4>3. CASE DelClan(t) \/ DelClient(t)
        BY <1>0, <4>3, GoEffect DEF DelClan, DelClient, To, ThreadState
      <4> QED BY <2>6, <4>1, <4>2, <4>3
    <3> QED BY <1>1, <1>3, <2>1, <3>1
  <2>7. CASE t = Dispatcher /\ (Evict1 \/ Evict2 \/ Evict3)
    <3>1. st'[t] = Idle \/ Same
      BY <1>0, <2>7, GoEffect DEF Evict1, Evict2, Evict3, To, ThreadState
    <3> QED BY <1>1, <1>3, <2>1, <3>1
  <2> QED BY <1>4, <2>2, <2>3, <2>4, <2>5, <2>6, <2>7
<1>5. CASE \E k \in Keys : \E op \in {"get", "create", "remove"} : Begin(t, op, k)
  <2>1. PICK k \in Keys, op \in {"get", "create", "remove"} : Begin(t, op, k)
    BY <1>5
  <2>2. st'[t].key = k /\ st'[t].want = "none" /\ st'[t].todo = {}
    <3>1. st'[t] = [Idle EXCEPT !.pc = op, !.key = k]
      BY <2>1, GoEffect DEF Begin
    <3> QED BY <3>1 DEF Idle
  <2>3. \A j \in Keys : On(t, j)' => j = k
    BY <2>2, NoneAssumption DEF On
  <2> DEFINE others == {u \in Threads \ {t} : On(u, k)}
  <2>4. /\ crowded' = IF others = {} THEN crowded ELSE crowded \cup {k}
        /\ overlap' = [overlap EXCEPT ![k] = @ \/ (\E u \in others : st[u].pc \in {"evict1", "evict2", "evict3"})]
    BY <2>1 DEF Begin, Meets
  <2>5. t # Dispatcher /\ Evicting(k) => overlap'[k]
    BY <1>0, <2>4 DEF Evicting, Evictions, Threads
  <2> QED BY <2>3, <2>4, <2>5 DEF JoinEffect
<1>6. CASE BeginReload(t)
  <2>1. st'[t] = [Idle EXCEPT !.pc = "reload"] /\ crowded' = crowded
    BY <1>6, GoEffect DEF BeginReload, history
  <2> QED BY <2>1, NoneAssumption, StaySteps DEF Idle
<1>7. CASE Reload(t)
  <2>1. crowded' = crowded /\ st[t].pc # "idle"
    BY <1>7 DEF Reload, At, history
  <2>2. CASE st'[t] = AfterLoad(t)
    BY <1>2, <2>1, <2>2
  <2>3. CASE st'[t] = [st[t] EXCEPT !.pc = "list"]
    BY <1>0, <1>3, <2>1, <2>3 DEF ThreadState
  <2> QED BY <1>7, <2>2, <2>3, GoEffect DEF Reload, To
<1>8. CASE NextDesc(t)
  <2>1. crowded' = crowded /\ st[t].pc # "idle"
    BY <1>8 DEF NextDesc, At, history
  <2>2. CASE st'[t] = AfterLoad(t)
    BY <1>2, <2>1, <2>2
  <2>3. ASSUME NEW d \in st[t].todo,
               st'[t] = [st[t] EXCEPT !.pc = "clanget", !.key = d.key, !.ver = d.ver,
                                      !.obj = 0, !.todo = @ \ {d}, !.then = "next"]
        PROVE  JoinEffect(t)
    <3>1. st'[t].key = d.key /\ st'[t].want = st[t].want /\ st'[t].todo = st[t].todo \ {d}
      BY <1>0, <2>3 DEF ThreadState
    <3> QED BY <2>1, <3>1, StaySteps
  <2> QED BY <1>8, <2>2, <2>3, GoEffect DEF NextDesc
<1>9. CASE List(t)
  <2>0. st[t].pc = "list"
    BY <1>9 DEF List, At
  <2>1. CASE st'[t] = AfterLoad(t) /\ crowded' = crowded
    BY <1>2, <2>0, <2>1
  <2> DEFINE todo == {[key |-> k, ver |-> server[k]] : k \in {k \in Keys : Exists(server[k])}}
             met(k) == \E u \in Threads \ {t} : On(u, k)
  <2>2. CASE /\ Go(t, [st[t] EXCEPT !.pc = "next", !.todo = todo])
             /\ crowded' = crowded \cup {d.key : d \in {d \in todo : met(d.key)}}
             /\ overlap' = [k \in Keys |->
                     overlap[k] \/ \E u \in Threads \ {t} :
                                       On(u, k) /\ st[u].pc \in {"evict1", "evict2", "evict3"}]
    <3>1. st'[t].key = st[t].key /\ st'[t].want = st[t].want /\ st'[t].todo = todo
      <4>1. st'[t] = [st[t] EXCEPT !.pc = "next", !.todo = todo]
        BY <2>2, GoEffect
      <4> HIDE DEF todo
      <4> QED BY <1>0, <4>1 DEF ThreadState
    <3>2. \A k \in Keys : On(t, k)' => On(t, k) \/ \E d \in todo : d.key = k
      <4> HIDE DEF todo
      <4> QED BY <2>0, <3>1 DEF On
    <3>3. \A k \in Keys : (\E d \in todo : d.key = k) => k \in crowded' \/ \A u \in Threads \ {t} : ~On(u, k)
      <4> HIDE DEF todo
      <4> QED BY <2>2
    <3>4. \A k \in Keys : t # Dispatcher /\ Evicting(k) => overlap'[k]
      BY <2>2 DEF Evicting, Evictions, Threads
    <3> QED BY <2>2, <3>2, <3>3, <3>4 DEF JoinEffect
  <2> QED BY <1>9, <2>1, <2>2, GoEffect DEF List, history
<1>10. CASE t = Dispatcher /\ Dispatch
  <2> DEFINE k == Head(events).key
             pc == IF Head(events).type = "changed" THEN "evict1" ELSE "load"
             others == {u \in Apps : On(u, k)}
  <2>1. /\ Go(t, [Idle EXCEPT !.pc = pc, !.key = k, !.want = k, !.ver = Head(events).ver])
        /\ crowded' = IF others = {} THEN crowded ELSE crowded \cup {k}
    BY <1>10 DEF Dispatch
  <2> DEFINE v == Head(events).ver
  <2> HIDE DEF pc, k, v
  <2>4. st'[t] = [Idle EXCEPT !.pc = pc, !.key = k, !.want = k, !.ver = v]
    BY <1>10, <2>1, GoEffect DEF v
  <2>2. st'[t].key = k /\ st'[t].want = k /\ st'[t].todo = {}
    BY <2>4 DEF Idle
  <2>3. \A j \in Keys : On(t, j)' => j = k
    BY <2>2 DEF On
  <2> QED BY <1>10, <2>1, <2>3 DEF JoinEffect, Threads
<1> QED BY <1>4, <1>5, <1>6, <1>7, <1>8, <1>9, <1>10 DEF Runs, Thread

----------------------------------------------------------------------------
(* What the server tells only grows.                                       *)

\* The server's versions grow, and from 0 they go to 1.
Forward == \A k \in Keys : server[k] <= server'[k]

\* No step takes the server back.
LEMMA ServerForward ==
    ASSUME Inv, [Next]_vars
    PROVE  Forward
<1>0. server \in [Keys -> 0 .. Gone] /\ Gone \in Nat /\ Gone = MaxVersion + 1 /\ MaxVersion \in Nat
  BY BoundsAssumption DEF Inv, World, Gone
<1>1. CASE server' = server
  BY <1>0, <1>1 DEF Forward
<1>2. CASE \E t \in Threads : Create(t)
  <2>1. PICK t \in Threads : Create(t)
    BY <1>2
  <2>2. server' = server \/ (server[st[t].key] = 0 /\ server' = [server EXCEPT ![st[t].key] = 1])
    BY <2>1 DEF Create
  <2> QED BY <1>0, <2>2 DEF Forward
<1>3. CASE \E t \in Threads : DeleteDesc(t)
  <2>1. PICK t \in Threads : DeleteDesc(t)
    BY <1>3
  <2>2. server' = server \/ server' = [server EXCEPT ![st[t].key] = Gone]
    BY <2>1 DEF DeleteDesc
  <2> QED BY <1>0, <2>2 DEF Forward
<1>4. CASE \E k \in Keys : Change(k)
  <2>1. PICK k \in Keys : Change(k)
    BY <1>4
  <2>2. server' = [server EXCEPT ![k] = server[k] + 1] \/ server' = [server EXCEPT ![k] = Gone]
    BY <2>1 DEF Change
  <2> QED BY <1>0, <2>2 DEF Forward
<1>5. ASSUME NEW t \in Threads, Thread(t), ~Create(t), ~DeleteDesc(t) PROVE server' = server
  BY <1>5
     DEF Thread, Begin, Get, L2Get, Rest, L2Set, ClanGet, ClientGet, Apply, SetClan, SetClient, SetAgain,
         BeginReload, Reload, List, NextDesc, DelClan, DelClient, outside
<1>6. Dispatch \/ Evict1 \/ Evict2 \/ Evict3 \/ (\E k \in Keys : Message(k) \/ Expire(k)) => server' = server
  BY DEF Dispatch, Evict1, Evict2, Evict3, Message, Expire, outside
<1> QED BY <1>1, <1>2, <1>3, <1>4, <1>5, <1>6 DEF Next, vars

\* The listener's goroutine takes no step of an operation while it handles a change.
LEMMA ListenerSteps ==
    ASSUME Inv, NEW t \in Threads, Runs(t), st[t].pc \in Evictions
    PROVE  t = Dispatcher /\ (Evict1 \/ Evict2 \/ Evict3)
BY DEF Evictions, Runs, Thread, Begin, Get, L2Get, Rest, L2Set, ClanGet, ClientGet, Apply, SetClan,
       SetClient, SetAgain, BeginReload, Reload, List, NextDesc, Create, DeleteDesc, DelClan, DelClient, Dispatch, At

----------------------------------------------------------------------------
(* Who is alone on a channel stays so, and an object stays one channel's.  *)

\* Others stay where they are, and who comes where one is makes the channel crowded.
LEMMA AloneStep ==
    ASSUME Inv, Alone, NEW t \in Threads, Runs(t)
    PROVE  Alone'
<1>1. crowded \subseteq crowded'
  BY JoinSteps DEF JoinEffect
<1>2. \A u \in Threads \ {t} : \A k : On(u, k)' <=> On(u, k)
  BY OthersStay DEF On
<1>3. \A k \in Keys \ crowded' : On(t, k)' => On(t, k) \/ \A u \in Threads \ {t} : ~On(u, k)
  BY JoinSteps DEF JoinEffect
<1> QED BY <1>1, <1>2, <1>3 DEF Alone

\* What a step adds to Owned.
LEMMA OwnedStep ==
    ASSUME Inv, NEW t \in Threads, Runs(t), NEW o \in Objects', NEW k \in Keys, Owned(o, k)'
    PROVE  Owned(o, k) \/ (o = Len(desc) + 1 /\ k = st[t].key)
<1>0. o # 0
  BY DEF Objects
<1>1. CASE Keeps(l1, k, o)' \/ Keeps(clan, k, o)'
  BY <1>1, CacheSteps DEF CacheEffect, Owned
<1>2. ASSUME NEW u \in Threads, Holds(u, k, o)'
      PROVE  Owned(o, k) \/ (o = Len(desc) + 1 /\ k = st[t].key)
  <2>1. CASE u = t
    BY <1>0, <1>2, <2>1, WorkSteps DEF HoldEffect, Owned
  <2>2. CASE u # t
    BY <1>2, <2>2, OthersStay DEF Holds, Owned
  <2> QED BY <2>1, <2>2
<1> QED BY <1>1, <1>2 DEF Owned

\* An object that is handed on stays with its channel; a new one is known to its maker alone.
LEMMA OneKeyStep ==
    ASSUME Inv, OneKey, NEW t \in Threads, Runs(t)
    PROVE  OneKey'
<1> SUFFICES ASSUME NEW o \in Objects', NEW j \in Keys, NEW k \in Keys, Owned(o, j)', Owned(o, k)'
             PROVE  j = k
  BY DEF OneKey
<1> DEFINE n == Len(desc) + 1
<1>1. /\ Owned(o, j) \/ (o = n /\ j = st[t].key)
      /\ Owned(o, k) \/ (o = n /\ k = st[t].key)
  BY OwnedStep
<1>2. CASE o \in Objects
  <2>1. o # n
    BY <1>2, KeepsObjects
  <2> QED BY <1>1, <1>2, <2>1 DEF OneKey
<1>3. CASE o \notin Objects
  <2>1. o # 0
    BY DEF Objects
  <2>2. \A u \in Threads : \A i : ~Holds(u, i, o)
    BY <1>3, <2>1, Known DEF Holds, Storing, Ready
  <2>3. \A i : ~Owned(o, i)
    BY <1>3, <2>2, KeepsObjects DEF Owned
  <2> QED BY <1>1, <2>3
<1> QED BY <1>2, <1>3

\* Nothing becomes known of a channel that was never made.
LEMMA UnbornStep ==
    ASSUME Inv, Unborn, NEW t \in Threads, Runs(t)
    PROVE  Unborn'
<1> SUFFICES ASSUME NEW k \in Keys, server'[k] = 0
             PROVE  l2'[k] = 0 /\ ~Has(clan, k)' /\ ~Has(l1, k)' /\ \A u \in Threads : ~Busy(u, k)'
  BY DEF Unborn
<1>1. server[k] = 0
  <2>1. Forward
    BY ServerForward DEF Runs, Next
  <2> QED BY <2>1 DEF Forward, Inv, World, Gone
<1>2. l2[k] = 0 /\ ~Has(clan, k) /\ ~Has(l1, k) /\ \A u \in Threads : ~Busy(u, k)
  BY <1>1 DEF Unborn
<1>3. \A o : ~Holds(t, k, o) \/ st[t].pc = "apply"
  BY <1>2 DEF Holds, Busy, Storing, Working
<1>4. l2'[k] = 0
  BY <1>2, StoreSteps DEF StoreEffect, Busy, Working
<1>5. ~Has(clan, k)' /\ ~Has(l1, k)'
  <2>1. \A o : ~Keeps(clan, k, o)' /\ ~Keeps(l1, k, o)'
    BY <1>2, <1>3, CacheSteps DEF CacheEffect, Keeps
  <2> QED BY <2>1 DEF Keeps, Has
<1>6. ~Busy(t, k)'
  <2>1. ~(st'[t].pc \in Working /\ st'[t].key = k)
    <3>1. ~(st'[t].pc \in Reading /\ st'[t].key = k)
      BY <1>1, <1>2, WorkSteps DEF ReadEffect, Reading, Working, Busy, Exists
    <3>2. ~(st'[t].pc \in Storing /\ st'[t].key = k)
      BY <1>1, <1>2, WorkSteps DEF MakeEffect, Storing, Working, Busy
    <3> QED BY <3>1, <3>2 DEF Working, Reading, Storing
  <2>2. st'[t].pc # "idle" => \A d \in st'[t].todo : d.key # k
    BY <1>1, <1>2, WorkSteps DEF ListEffect, Busy, Exists
  <2> QED BY <2>1, <2>2 DEF Busy
<1>7. \A u \in Threads \ {t} : ~Busy(u, k)'
  BY <1>2, OthersStay DEF Busy
<1> QED BY <1>4, <1>5, <1>6, <1>7

----------------------------------------------------------------------------
(* What a goroutine has found in the clan's cache is still there.          *)

\* Which steps lead to the steps of upsertChannel and of an eviction.
ArriveEffect(t) ==
    LET pc == st'[t].pc
    IN  /\ pc = "clientget" => ClanGet(t)
        /\ pc = "apply" => ClanGet(t) \/ ClientGet(t)
        /\ pc = "setclan" => Apply(t) \/ Create(t)
        /\ pc = "setclient" => SetClan(t)
        /\ pc = "again" => SetClient(t)
        /\ pc \in Evictions => t = Dispatcher
        /\ pc = "evict1" => Dispatch
        /\ pc = "evict2" => Evict1
        /\ pc = "evict3" => Evict2

\* Every other step leads elsewhere.
LEMMA ArriveSteps ==
    ASSUME Inv, NEW t \in Threads, Runs(t)
    PROVE  ArriveEffect(t)
<1>0. st[t] \in ThreadState /\ Ready(t, st[t], Objects)
  BY Known
<1>1. ASSUME st'[t].pc \notin {"clientget", "apply", "setclan", "setclient", "again", "evict1", "evict2", "evict3"}
      PROVE  ArriveEffect(t)
  BY <1>1 DEF ArriveEffect, Evictions
<1>2. CASE \E k \in Keys : \E op \in {"get", "create", "remove"} : Begin(t, op, k)
  BY <1>1, <1>2, GoEffect DEF Begin, Idle
<1>3. ASSUME st'[t] = Idle \/ st'[t] = AfterLoad(t) PROVE ArriveEffect(t)
  <2>1. CASE st'[t] = Idle
    BY <1>1, <2>1 DEF Idle
  <2>2. CASE st'[t] = AfterLoad(t)
    <3>1. st'[t].pc \in {"idle", "get"}
      BY <2>2 DEF AfterLoad, Idle
    <3> QED BY <1>1, <3>1
  <2> QED BY <1>3, <2>1, <2>2
<1>4. CASE Get(t) \/ Reload(t) \/ DeleteDesc(t) \/ DelClan(t) \/ DelClient(t) \/ SetAgain(t)
  <2>1. \/ st'[t] = Idle \/ st'[t] = AfterLoad(t)
        \/ \E pc \in {"l2get", "list", "delclan", "delclient"} : st'[t] = [st[t] EXCEPT !.pc = pc]
    BY <1>4, GoEffect DEF Get, Reload, DeleteDesc, DelClan, DelClient, SetAgain, To, At
  <2>2. CASE \E pc \in {"l2get", "list", "delclan", "delclient"} : st'[t] = [st[t] EXCEPT !.pc = pc]
    <3>1. st'[t].pc \in {"l2get", "list", "delclan", "delclient"}
      BY <1>0, <2>2 DEF ThreadState
    <3> QED BY <1>1, <3>1
  <2> QED BY <1>3, <2>1, <2>2
<1>5. CASE BeginReload(t)
  BY <1>1, <1>5, GoEffect DEF BeginReload, Idle
<1>6. CASE t = Dispatcher /\ Dispatch
  <2> DEFINE pc == IF Head(events).type = "changed" THEN "evict1" ELSE "load"
  <2>1. Go(t, [Idle EXCEPT !.pc = pc, !.key = Head(events).key, !.want = Head(events).key, !.ver = Head(events).ver])
    BY <1>6 DEF Dispatch
  <2>2. pc \in {"evict1", "load"}
    OBVIOUS
  <2> HIDE DEF pc
  <2>3. st'[t].pc = pc
    BY <2>1, GoEffect DEF Idle
  <2> QED BY <1>6, <2>2, <2>3 DEF ArriveEffect, Evictions
<1>7. CASE t = Dispatcher /\ Evict3
  BY <1>3, <1>7, GoEffect DEF Evict3
<1>8. CASE t = Dispatcher /\ (Evict1 \/ Evict2)
  <2>1. st'[t].pc = IF Evict1 THEN "evict2" ELSE "evict3"
    <3>1. CASE Evict1
      <4>1. st'[t] = [st[t] EXCEPT !.pc = "evict2"]
        BY <1>8, <3>1, GoEffect DEF Evict1, To
      <4> QED BY <1>0, <3>1, <4>1 DEF ThreadState
    <3>2. CASE Evict2 /\ ~Evict1
      <4>1. st'[t] = [st[t] EXCEPT !.pc = "evict3"]
        BY <1>8, <3>2, GoEffect DEF Evict2, To
      <4> QED BY <1>0, <3>2, <4>1 DEF ThreadState
    <3> QED BY <1>8, <3>1, <3>2
  <2> QED BY <1>8, <2>1 DEF ArriveEffect, Evictions
<1>9. CASE L2Get(t) \/ Rest(t)
  <2>1. st'[t].pc \in {"idle", "rest", "clanget", "l2set"}
    <3>1. CASE L2Get(t)
      <4> DEFINE v == l2[st[t].key]
      <4>1. \/ st'[t] = [st[t] EXCEPT !.pc = "rest"]
            \/ st'[t] = [st[t] EXCEPT !.pc = "clanget", !.ver = v, !.then = "again"]
        BY <3>1, GoEffect DEF L2Get, To
      <4> HIDE DEF v
      <4> QED BY <1>0, <4>1 DEF ThreadState
    <3>2. CASE Rest(t)
      <4> DEFINE v == server[st[t].key]
      <4>1. st'[t] = Idle \/ st'[t] = [st[t] EXCEPT !.pc = "l2set", !.ver = v, !.then = "again"]
        BY <3>2, GoEffect DEF Rest
      <4> HIDE DEF v
      <4>2. CASE st'[t] = [st[t] EXCEPT !.pc = "l2set", !.ver = v, !.then = "again"]
        BY <1>0, <4>2 DEF ThreadState
      <4> QED BY <4>1, <4>2 DEF Idle
    <3> QED BY <1>9, <3>1, <3>2
  <2> QED BY <1>1, <2>1
<1>10. CASE L2Set(t) \/ List(t)
  <2>1. CASE L2Set(t)
    <3>1. st'[t] = [st[t] EXCEPT !.pc = "clanget"]
      BY <2>1, GoEffect DEF L2Set, To
    <3> QED BY <1>0, <1>1, <3>1 DEF ThreadState
  <2> DEFINE todo == {[key |-> k, ver |-> server[k]] : k \in {k \in Keys : Exists(server[k])}}
  <2>2. CASE List(t)
    <3>1. st'[t] = AfterLoad(t) \/ st'[t] = [st[t] EXCEPT !.pc = "next", !.todo = todo]
      BY <2>2, GoEffect DEF List
    <3> HIDE DEF todo
    <3>2. CASE st'[t] = [st[t] EXCEPT !.pc = "next", !.todo = todo]
      BY <1>0, <1>1, <3>2 DEF ThreadState
    <3> QED BY <1>3, <3>1, <3>2
  <2> QED BY <1>10, <2>1, <2>2
<1>11. CASE ClanGet(t)
  <2> DEFINE o == clan.items[st[t].key]
  <2>1. st'[t] = [st[t] EXCEPT !.pc = "apply", !.obj = o] \/ st'[t] = [st[t] EXCEPT !.pc = "clientget"]
    BY <1>11, GoEffect DEF ClanGet, To
  <2> HIDE DEF o
  <2>2. st'[t].pc \in {"apply", "clientget"}
    BY <1>0, <2>1 DEF ThreadState
  <2> QED BY <1>11, <2>2 DEF ArriveEffect, Evictions
<1>12. CASE ClientGet(t)
  <2> DEFINE o == IF Has(l1, st[t].key) THEN l1.items[st[t].key] ELSE 0
  <2>1. st'[t] = [st[t] EXCEPT !.pc = "apply", !.obj = o]
    BY <1>12, GoEffect DEF ClientGet
  <2> HIDE DEF o
  <2>2. st'[t].pc = "apply"
    BY <1>0, <2>1 DEF ThreadState
  <2> QED BY <1>12, <2>2 DEF ArriveEffect, Evictions
<1>13. CASE Apply(t) \/ Create(t)
  <2> DEFINE o == Len(desc) + 1
  <2>1. \/ st'[t] = Idle \/ st'[t] = [st[t] EXCEPT !.pc = "setclan"]
        \/ st'[t] = [st[t] EXCEPT !.pc = "setclan", !.obj = o]
    BY <1>13, GoEffect DEF Apply, Create, To
  <2> HIDE DEF o
  <2>2. st'[t].pc \in {"idle", "setclan"}
    <3>1. CASE st'[t] = Idle
      BY <3>1 DEF Idle
    <3>2. CASE st'[t] # Idle
      BY <1>0, <2>1, <3>2 DEF ThreadState
    <3> QED BY <3>1, <3>2
  <2> QED BY <1>13, <2>2 DEF ArriveEffect, Evictions
<1>14. CASE SetClan(t)
  <2>1. st'[t] = [st[t] EXCEPT !.pc = "setclient"]
    BY <1>14, GoEffect DEF SetClan, To
  <2>2. st'[t].pc = "setclient"
    BY <1>0, <2>1 DEF ThreadState
  <2> QED BY <1>14, <2>2 DEF ArriveEffect, Evictions
<1>15. CASE SetClient(t)
  <2>1. st'[t] = Idle \/ \E pc \in {"idle", "again", "next"} : st'[t] = [st[t] EXCEPT !.pc = pc]
    BY <1>0, <1>15, GoEffect DEF SetClient, To, ThreadState
  <2>2. st'[t].pc \in {"idle", "again", "next"}
    BY <1>0, <2>1 DEF ThreadState, Idle
  <2> QED BY <1>15, <2>2 DEF ArriveEffect, Evictions
<1>16. CASE NextDesc(t)
  <2>1. \/ st'[t] = AfterLoad(t)
        \/ \E d : st'[t] = [st[t] EXCEPT !.pc = "clanget", !.key = d.key, !.ver = d.ver,
                                         !.obj = 0, !.todo = @ \ {d}, !.then = "next"]
    BY <1>16, GoEffect DEF NextDesc
  <2>2. CASE \E d : st'[t] = [st[t] EXCEPT !.pc = "clanget", !.key = d.key, !.ver = d.ver,
                                         !.obj = 0, !.todo = @ \ {d}, !.then = "next"]
    <3>1. st'[t].pc = "clanget"
      BY <1>0, <2>2 DEF ThreadState
    <3> QED BY <1>1, <3>1
  <2> QED BY <1>3, <2>1, <2>2
<1> QED
  BY <1>2, <1>4, <1>5, <1>6, <1>7, <1>8, <1>9, <1>10, <1>11, <1>12, <1>13, <1>14, <1>15, <1>16 DEF Runs, Thread

\* The step of the goroutine itself.
LEMMA OwnPlace ==
    ASSUME Inv, Unborn, NEW t \in Threads, Runs(t), Placed(t), crowded \subseteq crowded'
    PROVE  Placed(t)'
<1> DEFINE k == st[t].key
           e == st'[t]
<1>0. st[t] \in ThreadState /\ Ready(t, st[t], Objects) /\ Objects \subseteq Nat \ {0}
  BY Known DEF Objects
<1>1. ASSUME e.pc \notin {"clientget", "apply", "setclan", "setclient", "again"} PROVE Placed(t)'
  BY <1>1 DEF Placed
<1>2. CASE ClanGet(t)
  <2>1. UNCHANGED <<clan, crowded>>
    BY <1>2 DEF ClanGet, caches, history
  <2>2. CASE Has(clan, k)
    <3> DEFINE o == clan.items[k]
    <3>1. e = [st[t] EXCEPT !.pc = "apply", !.obj = o]
      BY <1>2, <2>2, GoEffect DEF ClanGet
    <3>2. o \in Objects
      BY <2>2, KeepsObjects DEF Keeps
    <3> HIDE DEF o
    <3>3. e.pc = "apply" /\ e.key = k /\ e.obj = o
      BY <1>0, <3>1 DEF ThreadState
    <3> QED BY <1>0, <2>1, <2>2, <3>2, <3>3 DEF Placed, Has, o
  <2>3. CASE ~Has(clan, k)
    <3>1. e = [st[t] EXCEPT !.pc = "clientget"]
      BY <1>2, <2>3, GoEffect DEF ClanGet, To
    <3>2. e.pc = "clientget" /\ e.key = k
      BY <1>0, <3>1 DEF ThreadState
    <3> QED BY <2>1, <2>3, <3>2 DEF Placed, Has
  <2> QED BY <2>2, <2>3
<1>3. CASE ClientGet(t)
  <2>1. UNCHANGED <<clan, crowded>> /\ st[t].pc = "clientget"
    BY <1>3 DEF ClientGet, caches, history, At
  <2> DEFINE o == IF Has(l1, k) THEN l1.items[k] ELSE 0
  <2>2. e = [st[t] EXCEPT !.pc = "apply", !.obj = o]
    BY <1>3, GoEffect DEF ClientGet
  <2> HIDE DEF o
  <2>3. e.pc = "apply" /\ e.key = k
    BY <1>0, <2>2 DEF ThreadState
  <2> QED BY <2>1, <2>3 DEF Placed, Has
<1>4. CASE Apply(t)
  <2>1. UNCHANGED <<clan, crowded>> /\ st[t].pc = "apply"
    BY <1>4 DEF Apply, history, At
  <2>2. CASE st[t].obj # 0
    <3>1. e = [st[t] EXCEPT !.pc = "setclan"]
      BY <1>4, <2>2, GoEffect DEF Apply, To
    <3>2. e.pc = "setclan" /\ e.key = k /\ e.obj = st[t].obj
      BY <1>0, <3>1 DEF ThreadState
    <3> QED BY <2>1, <2>2, <3>2 DEF Placed, Has
  <2>3. CASE st[t].obj = 0
    <3> DEFINE o == Len(desc) + 1
    <3>1. e = [st[t] EXCEPT !.pc = "setclan", !.obj = o]
      BY <1>4, <2>3, GoEffect DEF Apply
    <3> HIDE DEF o
    <3>2. e.pc = "setclan" /\ e.key = k
      BY <1>0, <3>1 DEF ThreadState
    <3> QED BY <2>1, <2>3, <3>2 DEF Placed, Has
  <2> QED BY <2>2, <2>3
<1>5. CASE Create(t)
  <2>1. UNCHANGED <<clan, crowded>> /\ st[t].pc = "create"
    BY <1>5 DEF Create, history, At
  <2>2. CASE e = Idle
    BY <1>1, <2>2 DEF Idle
  <2>3. CASE e # Idle
    <3> DEFINE o == Len(desc) + 1
    <3>1. e = [st[t] EXCEPT !.pc = "setclan", !.obj = o] /\ server[k] = 0
      BY <1>5, <2>3, GoEffect DEF Create
    <3> HIDE DEF o
    <3>2. e.pc = "setclan" /\ e.key = k /\ k \in Keys
      BY <1>0, <2>1, <3>1 DEF ThreadState, Ready
    <3>3. ~Has(clan, k)
      BY <3>1, <3>2 DEF Unborn
    <3> QED BY <2>1, <3>2, <3>3 DEF Placed, Has
  <2> QED BY <2>2, <2>3
<1>6. CASE SetClan(t)
  <2>1. clan' = Set(clan, k, st[t].obj, 0) /\ st[t].pc = "setclan" /\ e = [st[t] EXCEPT !.pc = "setclient"]
    BY <1>6, GoEffect DEF SetClan, At, To
  <2>2. e.pc = "setclient" /\ e.key = k /\ e.obj = st[t].obj /\ k \in Keys /\ e.obj \in Objects
    BY <1>0, <2>1 DEF ThreadState, Ready
  <2>3. Keeps(clan', k, e.obj)
    <3>1. clan \in CacheOf(Keys, Objects) /\ 0 \in Nat
      BY DEF Inv, Caches
    <3> QED BY <2>1, <2>2, <3>1, SetItems
  <2> QED BY <2>2, <2>3 DEF Placed, Keeps, Has
<1>7. CASE SetClient(t)
  <2>1. UNCHANGED <<clan, crowded>> /\ st[t].pc = "setclient"
    BY <1>7 DEF SetClient, history, At
  <2>2. CASE e = Idle
    BY <1>1, <2>2 DEF Idle
  <2>3. CASE e # Idle
    <3>1. e = [st[t] EXCEPT !.pc = st[t].then]
      BY <1>7, <2>3, GoEffect DEF SetClient, To
    <3>2. e.pc \in {"idle", "again", "next"} /\ e.key = k /\ e.obj = st[t].obj
      BY <1>0, <3>1 DEF ThreadState
    <3> QED BY <2>1, <3>2 DEF Placed, Keeps, Has
  <2> QED BY <2>2, <2>3
<1> QED BY <1>1, <1>2, <1>3, <1>4, <1>5, <1>6, <1>7, ArriveSteps DEF ArriveEffect

\* A step of another goroutine.
LEMMA OtherPlace ==
    ASSUME Inv, Alone, NEW t \in Threads, Runs(t), NEW u \in Threads \ {t}, Placed(u)
    PROVE  Placed(u)'
<1> PICK k : k = st[u].key
  OBVIOUS
<1>1. st'[u] = st[u] /\ crowded \subseteq crowded'
  BY OthersStay, JoinSteps DEF JoinEffect
<1> SUFFICES ASSUME k \in Keys \ crowded, st[u].pc \in {"clientget", "apply", "setclan", "setclient", "again"}
             PROVE  Placed(u)'
  BY <1>1 DEF Placed
<1>2. ~On(t, k)
  BY DEF Alone, On
<1>3. \A o : Keeps(clan, k, o)' <=> Keeps(clan, k, o)
  BY <1>2, CacheSteps DEF CacheEffect, Holds, On
<1>4. Has(clan', k) <=> Has(clan, k)
  BY <1>3 DEF Keeps, Has
<1>5. Has(clan, k) => clan'.items[k] = clan.items[k]
  BY <1>3 DEF Keeps, Has
<1> QED BY <1>1, <1>4, <1>5 DEF Placed, Keeps, Has

\* What Survives says of a step of a goroutine.
LEMMA SurvivesStep ==
    ASSUME Inv, NEW t \in Threads, Runs(t), Placed(t), NEW k \in Keys \ crowded
    PROVE  /\ Has(clan, k) /\ Has(clan', k) => clan'.items[k] = clan.items[k]
           /\ ~Has(l1, k) /\ Has(l1', k) => Has(clan, k) /\ l1'.items[k] = clan.items[k]
<1>1. ASSUME Has(clan, k), Has(clan', k) PROVE clan'.items[k] = clan.items[k]
  <2> PICK o : o = clan'.items[k]
    OBVIOUS
  <2>1. Keeps(clan, k, o)'
    BY <1>1 DEF Keeps, Has
  <2>2. Keeps(clan, k, o) \/ (st[t].pc = "setclan" /\ Holds(t, k, o))
    BY <2>1, CacheSteps DEF CacheEffect
  <2> QED BY <1>1, <2>2 DEF Keeps, Holds, Placed
<1>2. ASSUME ~Has(l1, k), Has(l1', k) PROVE Has(clan, k) /\ l1'.items[k] = clan.items[k]
  <2> PICK o : o = l1'.items[k]
    OBVIOUS
  <2>1. Keeps(l1, k, o)'
    BY <1>2 DEF Keeps, Has
  <2>2. Keeps(l1, k, o) \/ (st[t].pc \in {"setclient", "again"} /\ Holds(t, k, o))
    BY <2>1, CacheSteps DEF CacheEffect
  <2> QED BY <1>2, <2>2 DEF Keeps, Holds, Placed
<1> QED BY <1>1, <1>2

----------------------------------------------------------------------------
(* What the steps do to the history variables and to the queue of events.  *)

\* What has overlapped a change does until the next one is handled; only Evict3 says
\* that one is.
HistoryEffect(t) ==
    /\ \A k \in Keys : overlap[k] => overlap'[k] \/ (t = Dispatcher /\ st'[t].pc = "evict1" /\ st'[t].key = k)
    /\ \A k \in Keys :
           \/ handled'[k] = handled[k]
           \/ t = Dispatcher /\ Evict3 /\ st[t].key = k /\ handled'[k] = st[t].ver

\* Begin and List only mark, Dispatch begins anew, Evict2 marks a failure.
LEMMA HistorySteps ==
    ASSUME Inv, NEW t \in Threads, Runs(t)
    PROVE  HistoryEffect(t)
<1>0. handled \in [Keys -> 0 .. Gone] /\ overlap \in [Keys -> BOOLEAN] /\ st \in [Threads -> ThreadState]
  BY DEF Inv, History, Goroutines
<1>1. CASE UNCHANGED <<handled, overlap>>
  BY <1>1 DEF HistoryEffect
<1>2. CASE \E k \in Keys : \E op \in {"get", "create", "remove"} : Begin(t, op, k)
  <2>1. PICK k \in Keys : \E op \in {"get", "create", "remove"} : Begin(t, op, k)
    BY <1>2
  <2>2. handled' = handled /\ \E b : overlap' = [overlap EXCEPT ![k] = overlap[k] \/ b]
    BY <2>1, Zenon DEF Begin, Meets
  <2> QED BY <1>0, <2>2 DEF HistoryEffect
<1>3. CASE List(t)
  <2>1. CASE UNCHANGED history
    BY <1>1, <2>1 DEF history
  <2>2. CASE ~UNCHANGED history
    <3>1. handled' = handled /\ \A k \in Keys : overlap[k] => overlap'[k]
      BY <1>3, <2>2 DEF List
    <3> QED BY <3>1 DEF HistoryEffect
  <2> QED BY <2>1, <2>2
<1>4. CASE t = Dispatcher /\ Dispatch
  <2> DEFINE k == Head(events).key
             v == Head(events).ver
  <2>1. CASE Head(events).type = "changed"
    <3>1. st'[t] = [Idle EXCEPT !.pc = "evict1", !.key = k, !.want = k, !.ver = v]
      BY <1>4, <2>1, GoEffect DEF Dispatch
    <3>2. handled' = handled /\ \E b : overlap' = [overlap EXCEPT ![k] = b]
      BY <1>4, <2>1 DEF Dispatch
    <3> HIDE DEF k, v
    <3>3. st'[t].pc = "evict1" /\ st'[t].key = k
      BY <3>1 DEF Idle
    <3> QED BY <1>0, <1>4, <3>2, <3>3 DEF HistoryEffect
  <2>2. CASE Head(events).type # "changed"
    BY <1>1, <1>4, <2>2 DEF Dispatch
  <2> QED BY <2>1, <2>2
<1>5. CASE t = Dispatcher /\ Evict2
  <2>1. handled' = handled /\ (overlap' = overlap \/ overlap' = [overlap EXCEPT ![st[Dispatcher].key] = TRUE])
    BY <1>5 DEF Evict2
  <2> QED BY <1>0, <2>1 DEF HistoryEffect
<1>6. CASE t = Dispatcher /\ Evict3
  <2>1. overlap' = overlap /\ handled' = [handled EXCEPT ![st[t].key] = st[t].ver]
    BY <1>6 DEF Evict3
  <2> QED BY <1>0, <1>6, <2>1 DEF HistoryEffect
<1> QED
  BY <1>1, <1>2, <1>3, <1>4, <1>5, <1>6
     DEF Runs, Thread, Get, L2Get, Rest, L2Set, ClanGet, ClientGet, Apply, SetClan, SetClient, SetAgain,
         BeginReload, Reload, NextDesc, Create, DeleteDesc, DelClan, DelClient, Evict1, history

\* What the listener handles stays what it is until it is done.
LEMMA ListenerEffect ==
    ASSUME Inv, NEW t \in Threads, Runs(t), st[Dispatcher].pc \in Evictions
    PROVE  \/ /\ st'[Dispatcher].pc \in Evictions
              /\ st'[Dispatcher].key = st[Dispatcher].key /\ st'[Dispatcher].want = st[Dispatcher].want
              /\ st'[Dispatcher].todo = st[Dispatcher].todo /\ st'[Dispatcher].ver = st[Dispatcher].ver
           \/ t = Dispatcher /\ Evict3 /\ st'[Dispatcher] = Idle
<1>0. Dispatcher \in Threads
  BY DEF Threads
<1>1. CASE t # Dispatcher
  BY <1>0, <1>1, OthersStay
<1>2. CASE t = Dispatcher
  <2>1. Evict1 \/ Evict2 \/ Evict3
    BY <1>2, ListenerSteps
  <2>2. st[Dispatcher] \in ThreadState
    BY <1>0, Known
  <2>3. CASE Evict1 \/ Evict2
    <3>1. \E pc \in {"evict2", "evict3"} : st'[Dispatcher] = [st[Dispatcher] EXCEPT !.pc = pc]
      BY <1>0, <2>3, GoEffect DEF Evict1, Evict2, To
    <3> QED BY <2>2, <3>1 DEF ThreadState, Evictions
  <2>4. CASE Evict3
    BY <1>0, <1>2, <2>4, GoEffect DEF Evict3
  <2> QED BY <2>1, <2>3, <2>4
<1> QED BY <1>1, <1>2

\* Every event is one the server has got to.
Told(es, s) == \A i \in DOMAIN es : es[i].ver <= s[es[i].key]

\* An event carries the version the server has when it is pushed.
LEMMA ToldStep ==
    ASSUME Inv, Told(events, server), [Next]_vars
    PROVE  Told(events', server')
<1>0. /\ events \in Seq(Event) /\ server \in [Keys -> 0 .. Gone] /\ Gone \in Nat
      /\ \A i \in DOMAIN events : events[i] \in Event /\ events[i].key \in Keys /\ events[i].ver \in 0 .. Gone
  <2>1. events \in Seq(Event) /\ server \in [Keys -> 0 .. Gone] /\ Gone \in Nat
    BY BoundsAssumption DEF Inv, World, Gone
  <2>2. \A i \in DOMAIN events : events[i] \in Event
    BY <2>1
  <2> QED BY <2>1, <2>2 DEF Event
<1>1. server' \in [Keys -> 0 .. Gone]
  BY InvNext DEF Inv, World
<1>2. Told(events, server')
  BY <1>0, <1>1, ServerForward DEF Told, Forward
<1>3. ASSUME NEW e, events' = Append(events, e), e.ver <= server'[e.key]
      PROVE  Told(events', server')
  BY <1>0, <1>2, <1>3 DEF Told
<1>4. CASE events' = events
  BY <1>2, <1>4 DEF Told
<1>5. CASE Dispatch
  <2>1. events # <<>> /\ events' = Tail(events)
    BY <1>5 DEF Dispatch
  <2>2. /\ DOMAIN events' = 1 .. Len(events) - 1
        /\ \A i \in DOMAIN events' : i + 1 \in DOMAIN events /\ events'[i] = events[i + 1]
    BY <1>0, <2>1
  <2> QED BY <1>2, <2>2 DEF Told
<1>6. CASE \E t \in Threads : DeleteDesc(t)
  <2>1. PICK t \in Threads : DeleteDesc(t)
    BY <1>6
  <2>2. st[t].key \in Keys
    BY <2>1, Known DEF DeleteDesc, At, Ready
  <2> DEFINE e == [type |-> "changed", key |-> st[t].key, ver |-> Gone]
  <2>3. events' = events \/ (events' = Append(events, e) /\ server' = [server EXCEPT ![st[t].key] = Gone])
    BY <2>1 DEF DeleteDesc, Push
  <2>4. CASE events' = Append(events, e) /\ server' = [server EXCEPT ![st[t].key] = Gone]
    <3>1. e.ver <= server'[e.key]
      BY <1>0, <2>2, <2>4
    <3> HIDE DEF e
    <3> QED BY <1>3, <2>4, <3>1
  <2> QED BY <1>4, <2>3, <2>4
<1>7. CASE \E k \in Keys : Change(k) \/ Message(k)
  <2>1. PICK k \in Keys : Change(k) \/ Message(k)
    BY <1>7
  <2>2. \E v \in 0 .. Gone, type \in {"changed", "message"} :
          /\ events' = Append(events, [type |-> type, key |-> k, ver |-> v])
          /\ server' = [server EXCEPT ![k] = v]
    <3>1. CASE Change(k)
      <4>1. PICK v \in {server[k] + 1, Gone} :
                /\ server' = [server EXCEPT ![k] = v]
                /\ events' = Append(events, [type |-> "changed", key |-> k, ver |-> v])
        BY <3>1 DEF Change, Push
      <4>2. v \in 0 .. Gone
        BY <1>0, <3>1, BoundsAssumption DEF Change, Exists, Gone
      <4> QED BY <4>1, <4>2
    <3>2. CASE Message(k)
      <4>1. server' = server /\ events' = Append(events, [type |-> "message", key |-> k, ver |-> server[k]])
        BY <3>2 DEF Message, Push
      <4> QED BY <1>0, <4>1
    <3> QED BY <2>1, <3>1, <3>2
  <2>3. PICK v \in 0 .. Gone, type \in {"changed", "message"} :
          /\ events' = Append(events, [type |-> type, key |-> k, ver |-> v])
          /\ server' = [server EXCEPT ![k] = v]
    BY <2>2
  <2> DEFINE e == [type |-> type, key |-> k, ver |-> v]
  <2>4. e.ver <= server'[e.key]
    BY <1>0, <2>3
  <2> HIDE DEF e
  <2> QED BY <1>3, <2>3, <2>4 DEF e
<1>8. ASSUME NEW t \in Threads, Thread(t), ~DeleteDesc(t) PROVE events' = events
  BY <1>8
     DEF Thread, Begin, Get, L2Get, Rest, L2Set, ClanGet, ClientGet, Apply, SetClan, SetClient, SetAgain,
         BeginReload, Reload, List, NextDesc, Create, DelClan, DelClient, outside
<1>9. Evict1 \/ Evict2 \/ Evict3 \/ (\E k \in Keys : Expire(k)) => events' = events
  BY DEF Evict1, Evict2, Evict3, Expire, outside
<1> QED BY <1>4, <1>5, <1>6, <1>7, <1>8, <1>9 DEF Next, vars

\* A step of a goroutine leaves the server ahead of all it has told.
LEMMA VersionsStep ==
    ASSUME Inv, Versions, NEW t \in Threads, Runs(t)
    PROVE  Versions'
<1>0. /\ [Next]_vars /\ Dispatcher \in Threads
      /\ server \in [Keys -> 0 .. Gone] /\ server' \in [Keys -> 0 .. Gone] /\ handled \in [Keys -> 0 .. Gone]
      /\ Gone \in Nat
  <2>1. [Next]_vars
    BY DEF Runs, Next
  <2> QED BY <2>1, InvNext, BoundsAssumption DEF Inv, World, History, Gone, Threads
<1>1. \A i \in DOMAIN events' : events'[i].ver <= server'[events'[i].key]
  BY <1>0, ToldStep DEF Versions, Told
<1>2. ASSUME st[Dispatcher].pc \in Evictions PROVE st[Dispatcher].ver <= server'[st[Dispatcher].key]
  <2>1. st[Dispatcher].ver \in 0 .. Gone /\ st[Dispatcher].key \in Keys
    BY <1>0, <1>2, Known DEF Ready, ThreadState, Evictions
  <2> QED BY <1>0, <1>2, <2>1, ServerForward DEF Versions, Forward
<1>3. \A k \in Keys : handled'[k] <= server'[k]
  <2> SUFFICES ASSUME NEW k \in Keys PROVE handled'[k] <= server'[k]
    OBVIOUS
  <2>1. CASE handled'[k] = handled[k]
    BY <1>0, <2>1, ServerForward DEF Versions, Forward
  <2>2. CASE t = Dispatcher /\ Evict3 /\ st[t].key = k /\ handled'[k] = st[t].ver
    BY <1>2, <2>2 DEF Evict3, At, Evictions
  <2> QED BY <2>1, <2>2, HistorySteps DEF HistoryEffect
<1>4. ASSUME st'[Dispatcher].pc \in Evictions PROVE st'[Dispatcher].ver <= server'[st'[Dispatcher].key]
  <2>1. CASE st[Dispatcher].pc \in Evictions
    <3>1. st'[Dispatcher].key = st[Dispatcher].key /\ st'[Dispatcher].ver = st[Dispatcher].ver
      BY <1>4, <2>1, ListenerEffect DEF Idle, Evictions
    <3> QED BY <1>2, <2>1, <3>1
  <2>2. CASE st[Dispatcher].pc \notin Evictions
    <3>1. t = Dispatcher
      BY <1>0, <1>4, <2>2, OthersStay
    <3>2. Dispatch
      BY <1>4, <2>2, <3>1, ArriveSteps DEF ArriveEffect, Evictions, Evict1, Evict2, At
    <3> DEFINE e == Head(events)
               pc == IF e.type = "changed" THEN "evict1" ELSE "load"
    <3>3. /\ Go(Dispatcher, [Idle EXCEPT !.pc = pc, !.key = e.key, !.want = e.key, !.ver = e.ver])
          /\ events # <<>> /\ server' = server
      BY <3>2 DEF Dispatch
    <3>4. e = events[1] /\ 1 \in DOMAIN events
      BY <3>3 DEF Inv, World
    <3> HIDE DEF pc, e
    <3>5. st'[Dispatcher].ver = e.ver /\ st'[Dispatcher].key = e.key
      BY <1>0, <3>3, GoEffect DEF Idle
    <3> QED BY <3>3, <3>4, <3>5 DEF Versions
  <2> QED BY <2>1, <2>2
<1> QED BY <1>1, <1>3, <1>4 DEF Versions

----------------------------------------------------------------------------
(* The change the listener handles, and what no tier may hold after it.    *)

\* Only the step that starts to handle a change is new.
LEMMA DispatchClears ==
    ASSUME Inv, Runs(Dispatcher), Dispatch
    PROVE  Clearing'
<1> DEFINE e == Head(events)
           pc == IF e.type = "changed" THEN "evict1" ELSE "load"
           others == {u \in Apps : On(u, e.key)}
<1>0. Dispatcher \in Threads /\ overlap \in [Keys -> BOOLEAN] /\ e.key \in Keys
  <2>1. events \in Seq(Event) /\ events # <<>>
    BY DEF Inv, World, Dispatch
  <2>2. Head(events) \in Event
    BY <2>1
  <2> QED BY <2>2 DEF Threads, Event, Inv, History
<1>1. Go(Dispatcher, [Idle EXCEPT !.pc = pc, !.key = e.key, !.want = e.key, !.ver = e.ver])
  BY DEF Dispatch
<1>2. overlap' = IF e.type = "changed" THEN [overlap EXCEPT ![e.key] = others # {}] ELSE overlap
  BY DEF Dispatch
<1>3. pc = "evict1" \/ (pc = "load" /\ e.type # "changed")
  OBVIOUS
<1> PICK k : k = e.key
  OBVIOUS
<1>4. ASSUME pc = "evict1", ~overlap'[k] PROVE \A u \in Apps : ~On(u, k)
  <2>1. overlap' = [overlap EXCEPT ![k] = others # {}]
    BY <1>2, <1>4
  <2> QED BY <1>0, <1>4, <2>1
<1> HIDE DEF pc
<1>7. st'[Dispatcher] = [Idle EXCEPT !.pc = pc, !.key = e.key, !.want = e.key, !.ver = e.ver]
  BY <1>0, <1>1, GoEffect
<1> HIDE DEF e
<1>5. /\ st'[Dispatcher].pc = pc /\ st'[Dispatcher].key = k
      /\ st'[Dispatcher].want = k /\ st'[Dispatcher].todo = {}
  BY <1>7 DEF Idle
<1>6. \A u \in Apps : On(u, k)' <=> On(u, k)
  BY <1>0, OthersStay, DispatcherAssumption DEF On, Threads
<1> QED BY <1>3, <1>4, <1>5, <1>6 DEF Clearing, Evictions

\* A step of the listener gets on with the change; one of an application is elsewhere or marks the overlap.
LEMMA ClearingStep ==
    ASSUME Inv, Clearing, NEW t \in Threads, Runs(t)
    PROVE  Clearing'
<1> PICK k : k = st[Dispatcher].key
  OBVIOUS
<1>0. Dispatcher \in Threads
  BY DEF Threads
<1>1. CASE st'[Dispatcher].pc \notin Evictions
  BY <1>1 DEF Clearing
<1>2. CASE st'[Dispatcher].pc \in Evictions /\ st[Dispatcher].pc \notin Evictions
  <2>1. t = Dispatcher
    BY <1>0, <1>2, OthersStay
  <2>2. Dispatch
    BY <1>2, <2>1, ArriveSteps DEF ArriveEffect, Evictions, Evict1, Evict2, At
  <2> QED BY <2>1, <2>2, DispatchClears
<1>3. CASE st'[Dispatcher].pc \in Evictions /\ st[Dispatcher].pc \in Evictions
  <2>1. /\ st'[Dispatcher].key = k /\ st'[Dispatcher].want = k /\ st'[Dispatcher].todo = {}
        /\ k \in Keys /\ Evicting(k)
    <3>1. st[Dispatcher].want = k /\ st[Dispatcher].todo = {}
      BY <1>3 DEF Clearing
    <3>2. k \in Keys
      BY <1>0, <1>3, Known DEF Ready, Evictions
    <3> QED BY <1>3, <3>1, <3>2, ListenerEffect DEF Idle, Evictions, Evicting, On
  <2> SUFFICES ASSUME ~overlap'[k]
               PROVE  /\ \A u \in Apps : ~On(u, k)'
                      /\ st'[Dispatcher].pc \in {"evict2", "evict3"} => ~Has(l1', k)
                      /\ st'[Dispatcher].pc = "evict3" => l2'[k] = 0
    BY <2>1 DEF Clearing, Has
  <2>2. st'[Dispatcher].pc # "evict1"
        \/ t # Dispatcher
    BY <1>3, ArriveSteps DEF ArriveEffect, Dispatch, At, Evictions
  <2>3. ~overlap[k]
    BY <2>1, <2>2, HistorySteps DEF HistoryEffect
  <2>4. /\ \A u \in Apps : ~On(u, k)
        /\ st[Dispatcher].pc \in {"evict2", "evict3"} => ~Has(l1, k)
        /\ st[Dispatcher].pc = "evict3" => l2[k] = 0
    BY <1>3, <2>3 DEF Clearing
  <2>5. \A u \in Apps : ~On(u, k)'
    <3> SUFFICES ASSUME NEW u \in Apps PROVE ~On(u, k)'
      OBVIOUS
    <3>1. CASE u = t
      BY <2>1, <2>4, <3>1, JoinSteps, DispatcherAssumption DEF JoinEffect
    <3>2. CASE u # t
      BY <2>4, <3>2, OthersStay DEF On, Threads
    <3> QED BY <3>1, <3>2
  <2>6. t \in Apps => st[t].pc = "idle" \/ st[t].key # k
    BY <2>4 DEF On
  <2>7. CASE t # Dispatcher
    <3>1. t \in Apps
      BY <2>7 DEF Threads
    <3>2. st'[Dispatcher] = st[Dispatcher]
      BY <1>0, <2>7, OthersStay
    <3>3. ~Has(l1, k) => ~Has(l1', k)
      <4>1. \A o : Keeps(l1, k, o)' => Keeps(l1, k, o)
        BY <2>6, <3>1, CacheSteps DEF CacheEffect, Holds
      <4> QED BY <4>1 DEF Keeps, Has
    <3>4. l2[k] = 0 => l2'[k] = 0
      BY <2>1, <2>6, <3>1, StoreSteps DEF StoreEffect
    <3> QED BY <2>4, <2>5, <3>2, <3>3, <3>4
  <2>8. CASE t = Dispatcher
    <3>1. CASE Evict1
      <4>1. l1' = Delete(l1, k) /\ st[Dispatcher].pc = "evict1"
        BY <3>1 DEF Evict1, At
      <4>2. ~Has(l1', k)
        <5>1. l1 \in CacheOf(Keys, Objects)
          BY DEF Inv, Caches
        <5> QED BY <2>1, <4>1, <5>1, DeleteKeeps
      <4>3. st'[Dispatcher].pc # "evict3"
        BY <2>8, <4>1, ArriveSteps DEF ArriveEffect, Evict2, At
      <4> QED BY <2>5, <4>2, <4>3
    <3>2. CASE Evict2
      <4>1. l1' = l1 /\ st[Dispatcher].pc = "evict2"
        BY <3>2 DEF Evict2, At
      <4>2. l2' = [l2 EXCEPT ![k] = 0] \/ overlap' = [overlap EXCEPT ![k] = TRUE]
        BY <3>2 DEF Evict2
      <4>3. l2'[k] = 0
        BY <2>1, <4>2 DEF Inv, History, Details
      <4> QED BY <2>4, <2>5, <4>1, <4>3
    <3>3. CASE Evict3
      <4>1. st'[Dispatcher].pc = "idle"
        BY <1>0, <3>3, GoEffect DEF Evict3, Idle
      <4> QED BY <1>3, <4>1 DEF Evictions
    <3> QED BY <1>3, <2>8, <3>1, <3>2, <3>3, ListenerSteps
  <2> QED BY <2>7, <2>8
<1> QED BY <1>1, <1>2, <1>3

\* What Fresh says of, after a step, it said before, or the listener has just finished.
LEMMA SettledStep ==
    ASSUME Inv, Clearing, NEW t \in Threads, Runs(t), NEW k \in Keys, Settled(k)'
    PROVE  \/ Settled(k) /\ handled'[k] = handled[k]
           \/ t = Dispatcher /\ Evict3 /\ st[t].key = k /\ ~overlap[k] /\ st'[t] = Idle
<1>0. Dispatcher \in Threads
  BY DEF Threads
<1>1. ~overlap'[k] /\ ~Evicting(k)'
  BY DEF Settled
<1>2. ~overlap[k]
  <2>1. CASE t = Dispatcher /\ st'[t].pc = "evict1" /\ st'[t].key = k
    BY <1>1, <2>1 DEF Evicting, Evictions, On
  <2> QED BY <1>1, <2>1, HistorySteps DEF HistoryEffect
<1>3. CASE Evicting(k)
  <2>1. st[Dispatcher].key = k /\ st[Dispatcher].pc \in Evictions
    BY <1>3 DEF Evicting, Clearing, On
  <2>2. t = Dispatcher /\ Evict3 /\ st'[Dispatcher] = Idle
    BY <1>1, <2>1, ListenerEffect DEF Evicting, On, Evictions
  <2> QED BY <1>2, <2>1, <2>2
<1>4. CASE ~Evicting(k)
  <2>1. ~(t = Dispatcher /\ Evict3 /\ st[t].key = k)
    BY <1>4 DEF Evicting, On, Evict3, At, Evictions
  <2>2. handled'[k] = handled[k]
    BY <2>1, HistorySteps DEF HistoryEffect
  <2> QED BY <1>2, <1>4, <2>2 DEF Settled
<1> QED BY <1>3, <1>4

\* Fresh, of the objects the caches keep.
FreshTiers ==
    \A k \in Keys : Settled(k) =>
        /\ l2[k] = 0 \/ l2[k] >= handled[k]
        /\ \A o : Keeps(l1, k, o) \/ Keeps(clan, k, o) => desc[o] >= handled[k]

\* The two forms say the same.
LEMMA FreshMeans == FreshTiers <=> Fresh
<1>1. ASSUME NEW k \in Keys
      PROVE  Settled(k) <=>
                 ~overlap[k] /\ ~(On(Dispatcher, k) /\ st[Dispatcher].pc \in {"evict1", "evict2", "evict3"})
  BY DEF Settled, Evicting, Evictions
<1>2. ASSUME NEW k \in Keys
      PROVE  (\A o : Keeps(l1, k, o) \/ Keeps(clan, k, o) => desc[o] >= handled[k])
              <=> \A c \in {l1, clan} : Has(c, k) => desc[c.items[k]] >= handled[k]
  BY DEF Keeps
<1> QED BY <1>1, <1>2 DEF FreshTiers, Fresh

\* A change nobody overlapped leaves nothing behind.
LEMMA FreshAfterChange ==
    ASSUME Inv, Clearing, Evict3, NEW k \in Keys, st[Dispatcher].key = k, ~overlap[k], Runs(Dispatcher),
           st'[Dispatcher] = Idle
    PROVE  /\ l2'[k] = 0
           /\ \A o : ~Keeps(l1, k, o)' /\ ~Keeps(clan, k, o)'
           /\ \A u \in Threads : ~On(u, k)'
<1>1. st[Dispatcher].pc = "evict3" /\ l1' = l1 /\ l2' = l2 /\ clan' = Delete(clan, k) /\ Dispatcher \in Threads
  BY DEF Evict3, At, Threads
<1>2. ~Has(l1, k) /\ l2[k] = 0 /\ \A u \in Apps : ~On(u, k)
  BY <1>1 DEF Clearing, Evictions
<1>3. ~Has(clan', k)
  <2>1. \A o : ~Keeps(Delete(clan, k), k, o)
    BY DeleteItems
  <2> QED BY <1>1, <2>1 DEF Keeps
<1>4. \A u \in Threads : ~On(u, k)'
  <2> SUFFICES ASSUME NEW u \in Threads PROVE ~On(u, k)'
    OBVIOUS
  <2>1. CASE u = Dispatcher
    BY <2>1 DEF On, Idle
  <2>2. CASE u # Dispatcher
    BY <1>1, <1>2, <2>2, OthersStay DEF On, Threads
  <2> QED BY <2>1, <2>2
<1> QED BY <1>1, <1>2, <1>3, <1>4 DEF Keeps, Has

\* A step keeps what is known of a channel as new as it was.
LEMMA FreshStep ==
    ASSUME Inv, OneKey, Versions, Clearing, FreshTiers, \A u \in Threads : FreshWork(u),
           NEW t \in Threads, Runs(t)
    PROVE  FreshTiers' /\ \A u \in Threads : FreshWork(u)'
<1> SUFFICES ASSUME NEW k \in Keys, Settled(k)'
             PROVE  /\ l2'[k] = 0 \/ l2'[k] >= handled'[k]
                    /\ \A o : Keeps(l1, k, o)' \/ Keeps(clan, k, o)' => desc'[o] >= handled'[k]
                    /\ \A u \in Threads :
                        /\ st'[u].pc \in Reading /\ st'[u].key = k => st'[u].ver >= handled'[k]
                        /\ st'[u].pc \in Storing /\ st'[u].key = k => desc'[st'[u].obj] >= handled'[k]
                        /\ \A d \in st'[u].todo : st'[u].pc # "idle" /\ d.key = k => d.ver >= handled'[k]
  BY DEF FreshTiers, FreshWork
<1> PICK h : h = handled'[k]
  OBVIOUS
<1>1. CASE t = Dispatcher /\ Evict3 /\ st[t].key = k /\ ~overlap[k] /\ st'[t] = Idle
  <2>1. /\ l2'[k] = 0
        /\ \A o : ~Keeps(l1, k, o)' /\ ~Keeps(clan, k, o)'
        /\ \A u \in Threads : ~On(u, k)'
    BY <1>1, FreshAfterChange
  <2> QED BY <2>1 DEF On, Reading, Storing
<1>2. CASE Settled(k) /\ handled'[k] = handled[k]
  <2>1. /\ l2[k] = 0 \/ l2[k] >= h
        /\ \A o : Keeps(l1, k, o) \/ Keeps(clan, k, o) => desc[o] >= h
        /\ \A u \in Threads :
            /\ st[u].pc \in Reading /\ st[u].key = k => st[u].ver >= h
            /\ st[u].pc \in Storing /\ st[u].key = k => desc[st[u].obj] >= h
            /\ \A d \in st[u].todo : st[u].pc # "idle" /\ d.key = k => d.ver >= h
        /\ server[k] >= h
    BY <1>2 DEF FreshTiers, FreshWork, Versions, Inv, World, History, Gone
  <2>2. h \in Nat
    BY <1>2, BoundsAssumption DEF Inv, History, Gone
  <2>3. l2'[k] = 0 \/ l2'[k] >= h
    BY <2>1, StoreSteps DEF StoreEffect, Reading
  <2>4. ASSUME NEW o \in Objects, Owned(o, k), desc[o] >= h PROVE desc'[o] >= h
    <3>1. CASE desc'[o] = desc[o]
      BY <2>4, <3>1
    <3>2. CASE st[t].pc = "apply" /\ st[t].obj = o /\ desc'[o] = st[t].ver
      <4>1. Owned(o, st[t].key) /\ st[t].key \in Keys
        BY <3>2, Known DEF Owned, Holds, Ready
      <4>2. st[t].key = k
        BY <2>4, <4>1 DEF OneKey
      <4> QED BY <2>1, <3>2, <4>2 DEF Reading
    <3> QED BY <3>1, <3>2, StoreSteps DEF StoreEffect
  <2>5. ASSUME NEW u \in Threads, st[u].pc \in Storing, st[u].key = k
        PROVE  st[u].obj \in Objects /\ Owned(st[u].obj, k) /\ desc'[st[u].obj] >= h
    <3> PICK o : o = st[u].obj
      OBVIOUS
    <3>1. o \in Objects /\ Owned(o, k)
      BY <2>5, Known DEF Owned, Holds, Ready, Storing
    <3> QED BY <2>1, <2>4, <2>5, <3>1
  <2>6. ASSUME NEW o, Keeps(l1, k, o)' \/ Keeps(clan, k, o)' PROVE desc'[o] >= h
    <3>1. CASE Keeps(l1, k, o) \/ Keeps(clan, k, o)
      BY <2>1, <2>4, <3>1, KeepsObjects DEF Owned
    <3>2. CASE st[t].pc \in Storing /\ Holds(t, k, o)
      BY <2>5, <3>2 DEF Holds
    <3> QED BY <2>6, <3>1, <3>2, CacheSteps DEF CacheEffect, Storing
  <2>7. ASSUME NEW u \in Threads \ {t}
        PROVE  /\ st'[u].pc \in Reading /\ st'[u].key = k => st'[u].ver >= h
               /\ st'[u].pc \in Storing /\ st'[u].key = k => desc'[st'[u].obj] >= h
               /\ \A d \in st'[u].todo : st'[u].pc # "idle" /\ d.key = k => d.ver >= h
    <3>1. st'[u] = st[u]
      BY OthersStay
    <3> QED BY <2>1, <2>5, <3>1
  <2>8. st'[t].pc \in Reading /\ st'[t].key = k => st'[t].ver >= h
    BY <2>1, WorkSteps DEF ReadEffect
  <2>9. st'[t].pc \in Storing /\ st'[t].key = k => desc'[st'[t].obj] >= h
    <3> SUFFICES ASSUME st'[t].pc \in Storing, st'[t].key = k PROVE desc'[st'[t].obj] >= h
      OBVIOUS
    <3>1. CASE st[t].pc \in Storing /\ st[t].key = k /\ st[t].obj = st'[t].obj
      BY <2>5, <3>1
    <3>2. CASE st[t].pc = "apply" /\ st[t].key = k /\ desc'[st'[t].obj] = st[t].ver
      BY <2>1, <3>2 DEF Reading
    <3>3. CASE server[k] = 0 /\ desc'[st'[t].obj] = 1
      BY <2>1, <2>2, <3>3
    <3> QED BY <3>1, <3>2, <3>3, WorkSteps DEF MakeEffect
  <2>10. \A d \in st'[t].todo : st'[t].pc # "idle" /\ d.key = k => d.ver >= h
    BY <2>1, WorkSteps DEF ListEffect
  <2> QED BY <2>3, <2>6, <2>7, <2>8, <2>9, <2>10
<1> QED BY <1>1, <1>2, SettledStep

----------------------------------------------------------------------------
(* The inductive invariant of Fresh and of Survives.                       *)

FreshInv ==
    /\ Inv /\ OneKey /\ Versions /\ Unborn /\ Alone /\ Clearing /\ FreshTiers
    /\ \A t \in Threads : Placed(t) /\ FreshWork(t)

\* No goroutine has begun, and no cache keeps anything.
LEMMA FreshInvInit == Init => FreshInv
<1> SUFFICES ASSUME Init PROVE FreshInv
  OBVIOUS
<1>1. /\ Inv
      /\ \A t \in Threads : st[t].pc = "idle"
      /\ \A k : ~Has(l1, k) /\ ~Has(clan, k)
      /\ \A k \in Keys : l2[k] = 0 /\ handled[k] = 0
      /\ server \in [Keys -> {0, 1}]
      /\ events = <<>> /\ Dispatcher \in Threads
  BY InvInit DEF Init, Idle, Has, EmptyCache, Threads
<1>2. Alone /\ Clearing /\ \A t \in Threads : Placed(t) /\ FreshWork(t)
  BY <1>1 DEF Alone, On, Clearing, Evictions, Placed, FreshWork, Reading, Storing
<1>3. OneKey
  BY <1>1 DEF OneKey, Owned, Keeps, Holds, Storing
<1>4. Versions
  BY <1>1 DEF Versions, Evictions
<1>5. Unborn
  BY <1>1 DEF Unborn, Busy
<1>6. FreshTiers
  BY <1>1 DEF FreshTiers, Keeps
<1> QED BY <1>1, <1>2, <1>3, <1>4, <1>5, <1>6 DEF FreshInv

\* The server and the store take no part in an operation.
LEMMA OutsideFresh ==
    ASSUME FreshInv, (\E k \in Keys : Change(k) \/ Message(k) \/ Expire(k)) \/ UNCHANGED vars
    PROVE  FreshInv'
<1>1. UNCHANGED <<l1, clan, desc, handled, overlap, crowded, st>>
  BY DEF Change, Message, Expire, caches, outside, history, vars
<1>2. [Next]_vars /\ Inv
  BY DEF Next, FreshInv
<1>3. \A k \in Keys : l2'[k] \in {l2[k], 0}
  BY <1>2 DEF Inv, Details, Change, Message, Expire, caches, vars
<1>4. \A k \in Keys : server[k] <= server'[k] /\ server[k] \in Nat /\ server'[k] \in Nat
  BY <1>2, ServerForward, InvNext, BoundsAssumption DEF Forward, Inv, World, Gone
<1>5. Inv'
  BY <1>2, InvNext
<1>6. Objects' = Objects
  BY <1>1 DEF Objects
<1>7. OneKey'
  BY <1>1, <1>6 DEF FreshInv, OneKey, Owned, Keeps, Has, Holds
<1>8. Versions'
  <2>1. Told(events', server')
    BY <1>2, ToldStep DEF FreshInv, Versions, Told
  <2>2. \A k \in Keys : handled'[k] <= server'[k]
    BY <1>1, <1>2, <1>4, BoundsAssumption DEF FreshInv, Versions, Inv, History, Gone
  <2>3. ASSUME st[Dispatcher].pc \in Evictions PROVE st[Dispatcher].ver <= server'[st[Dispatcher].key]
    <3>1. st[Dispatcher].key \in Keys /\ st[Dispatcher].ver \in 0 .. Gone
      BY <1>2, <2>3, Known DEF Threads, Ready, ThreadState, Evictions
    <3> QED BY <1>4, <2>3, <3>1, BoundsAssumption DEF FreshInv, Versions, Gone
  <2> QED BY <1>1, <2>1, <2>2, <2>3 DEF Versions, Told
<1>9. Unborn'
  <2> SUFFICES ASSUME NEW k \in Keys, server'[k] = 0
               PROVE  l2'[k] = 0 /\ ~Has(clan', k) /\ ~Has(l1', k) /\ \A t \in Threads : ~Busy(t, k)'
    BY DEF Unborn, Has
  <2>1. server[k] = 0
    BY <1>4
  <2>2. l2[k] = 0 /\ ~Has(clan, k) /\ ~Has(l1, k) /\ \A t \in Threads : ~Busy(t, k)
    BY <2>1 DEF FreshInv, Unborn
  <2> QED BY <1>1, <1>3, <2>2 DEF Busy, Has
<1>10. Alone'
  BY <1>1 DEF FreshInv, Alone, On
<1>11. Clearing'
  <2>1. Dispatcher \in Threads
    BY DEF Threads
  <2>2. st[Dispatcher].pc \in Evictions => st[Dispatcher].key \in Keys
    BY <1>2, <2>1, Known DEF Ready, Evictions
  <2>3. st[Dispatcher].pc \in Evictions /\ l2[st[Dispatcher].key] = 0 => l2'[st[Dispatcher].key] = 0
    BY <1>3, <2>2
  <2> QED BY <1>1, <2>3 DEF FreshInv, Clearing, On, Has
<1>12. FreshTiers'
  BY <1>1, <1>3 DEF FreshInv, FreshTiers, Settled, Evicting, On, Keeps, Has
<1>13. ASSUME NEW t \in Threads PROVE Placed(t)' /\ FreshWork(t)'
  <2>1. Placed(t) /\ FreshWork(t)
    BY DEF FreshInv
  <2>2. Placed(t)'
    BY <1>1, <2>1 DEF Placed, Keeps, Has
  <2>3. FreshWork(t)'
    BY <1>1, <2>1 DEF FreshWork, Settled, Evicting, On
  <2> QED BY <2>2, <2>3
<1> QED BY <1>5, <1>7, <1>8, <1>9, <1>10, <1>11, <1>12, <1>13 DEF FreshInv

\* Every step.
LEMMA FreshInvNext == FreshInv /\ [Next]_vars => FreshInv'
<1> SUFFICES ASSUME FreshInv, [Next]_vars PROVE FreshInv'
  OBVIOUS
<1>1. ASSUME NEW t \in Threads, Runs(t) PROVE FreshInv'
  <2>1. Inv'
    BY InvNext DEF FreshInv
  <2>2. OneKey' /\ Versions' /\ Unborn' /\ Alone' /\ Clearing'
    BY <1>1, OneKeyStep, VersionsStep, UnbornStep, AloneStep, ClearingStep DEF FreshInv
  <2>3. FreshTiers' /\ \A u \in Threads : FreshWork(u)'
    BY <1>1, FreshStep DEF FreshInv
  <2>4. ASSUME NEW u \in Threads PROVE Placed(u)'
    <3>1. CASE u = t
      <4>1. crowded \subseteq crowded'
        BY <1>1, JoinSteps DEF JoinEffect, FreshInv
      <4> QED BY <1>1, <3>1, <4>1, OwnPlace DEF FreshInv
    <3>2. CASE u # t
      BY <1>1, <3>2, OtherPlace DEF FreshInv
    <3> QED BY <3>1, <3>2
  <2> QED BY <2>1, <2>2, <2>3, <2>4 DEF FreshInv
<1>2. Dispatcher \in Threads
  BY DEF Threads
<1> QED BY <1>1, <1>2, OutsideFresh DEF Next, Runs

\* "Drop the stale entry from both tiers so the next fetch reloads fresh detail": once
\* the listener has handled a change that no other operation on the channel overlapped,
\* with the store in order, no tier ever holds an older version of it again.
THEOREM FreshHolds == Spec => []Fresh
<1>1. FreshInv => Fresh
  BY FreshMeans DEF FreshInv
<1> QED BY <1>1, FreshInvInit, FreshInvNext, PTL DEF Spec

\* "an already cached TextChannel is updated in place": on a channel where operations
\* never overlapped, the clan keeps its object and the client's cache gets that one back.
THEOREM SurvivesHolds == Spec => Survives
<1>1. FreshInv /\ [Next]_vars =>
          [\A k \in Keys \ crowded :
            /\ Has(clan, k) /\ Has(clan', k) => clan'.items[k] = clan.items[k]
            /\ ~Has(l1, k) /\ Has(l1', k) => Has(clan, k) /\ l1'.items[k] = clan.items[k]]_vars
  <2> SUFFICES ASSUME FreshInv, [Next]_vars, NEW k \in Keys \ crowded
               PROVE  /\ Has(clan, k) /\ Has(clan', k) => clan'.items[k] = clan.items[k]
                      /\ ~Has(l1, k) /\ Has(l1', k) => Has(clan, k) /\ l1'.items[k] = clan.items[k]
    OBVIOUS
  <2>1. CASE \E t \in Threads : Runs(t)
    BY <2>1, SurvivesStep DEF FreshInv
  <2>2. CASE UNCHANGED <<l1, clan>>
    BY <2>2
  <2>3. Dispatcher \in Threads
    BY DEF Threads
  <2> QED BY <2>1, <2>2, <2>3 DEF Next, Runs, Change, Message, Expire, caches, vars
<1> QED BY <1>1, FreshInvInit, FreshInvNext, PTL DEF Spec, Survives

----------------------------------------------------------------------------
(* Users, in the behaviours of MCChannels: the goroutines that look a user *)
(* up, send and list DM channels agree on which ids there are.  Each       *)
(* goroutine's data must be fit for its step, whatever the others did      *)
(* since it read them.                                                     *)

Ids == {"none", "zero", "dm"}
UserObjects == 1 .. Len(user)
UserLabels == {"idle", "get", "check", "l2get", "create", "l2set", "set", "again", "make", "assign",
               "write", "find", "enrich", "list", "clear", "fill", "precache"}

UserTypes ==
    /\ shared \in Ids /\ listed \in Ids \ {"zero"} /\ user \in Seq(Ids) /\ who \in {0} \cup UserObjects
    /\ dm \in BOOLEAN /\ room \in BOOLEAN /\ blank \in BOOLEAN /\ inits \in Nat
    /\ doing \in [U!Threads -> [pc : UserLabels, obj : Nat, id : Ids]]

\* The ids a client may hold.
RealIds == {id \in Ids : U!Real(id)}

\* The data d of a goroutine at its step, when s are the objects and R the ids that
\* may be held: its object is one of them, an object about to be cached has an id,
\* and so has the id about to be assigned.  A list of channels never holds "0".
UserReady(d, s, R) ==
    /\ d.pc \in {"check", "make", "assign", "write", "set", "again"} => d.obj \in 1 .. Len(s)
    /\ d.pc = "enrich" => d.obj \in {0} \cup 1 .. Len(s)
    /\ d.pc \in {"l2set", "assign"} => d.id # "none"
    /\ d.pc \in {"set", "again"} => s[d.obj] # "none"
    /\ d.pc \in {"find", "enrich", "clear", "fill"} => d.id # "zero"
    /\ d.id \in R

UserInv == UserTypes /\ U!DmReal /\ \A t \in U!Threads : UserReady(doing[t], user, RealIds)

\* No id is held but the one the listing may have brought.
LEMMA UserInvInit == U!Init => UserInv
<1> SUFFICES ASSUME U!Init PROVE UserInv
  OBVIOUS
<1> USE DEF U!Init, Ids, UserObjects
<1>1. UserTypes
  <2>1. doing \in [U!Threads -> [pc : UserLabels, obj : Nat, id : Ids]]
    BY DEF UserLabels, U!Starting, U!Idle
  <2>2. user \in Seq(Ids) /\ who \in {0} \cup UserObjects /\ inits \in Nat
    OBVIOUS
  <2>3. dm \in BOOLEAN /\ room \in BOOLEAN /\ blank \in BOOLEAN
    BY Zenon
  <2> QED BY <2>1, <2>2, <2>3, Zenon DEF UserTypes
<1>2. U!DmReal
  BY DEF U!DmReal, U!Real
<1>3. ASSUME NEW t \in U!Threads PROVE UserReady(doing[t], user, RealIds)
  BY DEF UserReady, U!Starting, U!Idle, U!Real, RealIds, UserObjects, Ids
<1> QED BY <1>1, <1>2, <1>3 DEF UserInv

\* A step of goroutine t to data d that are ready, which takes no id back.
LEMMA UserStep ==
    ASSUME UserInv, NEW t \in U!Threads, NEW d \in [pc : UserLabels, obj : Nat, id : Ids],
           U!Go(t, d), UserReady(d, user', RealIds'),
           dm => dm', blank => blank', dm' \in BOOLEAN, blank' \in BOOLEAN, UserObjects \subseteq UserObjects',
           \A o \in UserObjects : user[o] # "none" => user'[o] # "none"
    PROVE  /\ doing' \in [U!Threads -> [pc : UserLabels, obj : Nat, id : Ids]]
           /\ \A u \in U!Threads : UserReady(doing'[u], user', RealIds')
<1>1. doing' \in [U!Threads -> [pc : UserLabels, obj : Nat, id : Ids]]
  BY DEF UserInv, UserTypes, U!Go
<1>2. ASSUME NEW u \in U!Threads PROVE UserReady(doing'[u], user', RealIds')
  <2>1. CASE u = t
    <3>1. doing'[u] = d
      BY <2>1 DEF UserInv, UserTypes, U!Go
    <3> QED BY <3>1 DEF UserReady, RealIds, UserObjects, U!Real, Ids
  <2>2. CASE u # t
    <3>1. doing'[u] = doing[u] /\ UserReady(doing[u], user, RealIds)
      BY <2>2 DEF UserInv, UserTypes, U!Go
    <3> QED BY <3>1 DEF UserReady, U!Real, RealIds, UserObjects, Ids
  <2> QED BY <2>1, <2>2
<1> QED BY <1>1, <1>2

\* What is known of a goroutine.
LEMMA UserKnown ==
    ASSUME UserInv, NEW t \in U!Threads
    PROVE  /\ UserReady(doing[t], user, RealIds) /\ doing[t] \in [pc : UserLabels, obj : Nat, id : Ids]
           /\ 0 \in Nat /\ \A o \in UserObjects : o \in Nat /\ user[o] \in Ids /\ U!Real(user[o])
           /\ UserReady(U!Idle, user, RealIds) /\ U!Idle \in [pc : UserLabels, obj : Nat, id : Ids]
<1>1. UserReady(doing[t], user, RealIds) /\ doing[t] \in [pc : UserLabels, obj : Nat, id : Ids]
  BY DEF UserInv, UserTypes
<1>2. \A o \in UserObjects : o \in Nat /\ user[o] \in Ids /\ U!Real(user[o])
  BY DEF UserInv, UserTypes, UserObjects, U!DmReal
<1>3. UserReady(U!Idle, user, RealIds) /\ U!Idle \in [pc : UserLabels, obj : Nat, id : Ids]
  BY DEF U!Idle, UserReady, UserLabels, Ids, U!Real, RealIds, UserObjects
<1> QED BY <1>1, <1>2, <1>3

\* A step that changes nothing but what goroutine t is doing.
LEMMA UserMove ==
    ASSUME UserInv, NEW t \in U!Threads, NEW d \in [pc : UserLabels, obj : Nat, id : Ids],
           U!Go(t, d), UserReady(d, user, RealIds), UNCHANGED <<dm, shared, listed, room, who, user, blank>>,
           inits' \in Nat
    PROVE  UserInv'
<1>1. UserReady(d, user', RealIds') /\ UserObjects' = UserObjects /\ (U!DmReal)'
  BY DEF UserReady, UserObjects, U!Real, UserInv, U!DmReal, RealIds, Ids
<1>2. /\ doing' \in [U!Threads -> [pc : UserLabels, obj : Nat, id : Ids]]
      /\ \A u \in U!Threads : UserReady(doing'[u], user', RealIds')
  BY <1>1, UserStep DEF UserInv, UserTypes
<1>3. UserTypes'
  BY <1>1, <1>2 DEF UserInv, UserTypes
<1> QED BY <1>1, <1>2, <1>3 DEF UserInv

\* A new object, or another id of one there is.
LEMMA UserObjectStep ==
    ASSUME UserInv, NEW id \in Ids
    PROVE  /\ user' = Append(user, id) =>
                 /\ user' \in Seq(Ids) /\ UserObjects' = UserObjects \cup {Len(user) + 1}
                 /\ Len(user) + 1 \in Nat /\ user'[Len(user) + 1] = id
                 /\ \A o \in UserObjects : user'[o] = user[o]
           /\ \A x \in UserObjects : user' = [user EXCEPT ![x] = id] =>
                 /\ user' \in Seq(Ids) /\ UserObjects' = UserObjects
                 /\ \A o \in UserObjects : user'[o] = IF o = x THEN id ELSE user[o]
<1>0. user \in Seq(Ids) /\ Len(user) \in Nat
  BY DEF UserInv, UserTypes
<1>1. CASE user' = Append(user, id)
  <2>1. /\ user' \in Seq(Ids) /\ Len(user') = Len(user) + 1 /\ user'[Len(user) + 1] = id
        /\ \A o \in 1 .. Len(user) : user'[o] = user[o]
    BY <1>0, <1>1
  <2> QED BY <1>0, <2>1 DEF UserObjects
<1>2. ASSUME NEW x \in UserObjects, user' = [user EXCEPT ![x] = id]
      PROVE  /\ user' \in Seq(Ids) /\ UserObjects' = UserObjects
             /\ \A o \in UserObjects : user'[o] = IF o = x THEN id ELSE user[o]
  BY <1>0, <1>2 DEF UserObjects
<1>3. user' = Append(user, id) =>
                 /\ user' \in Seq(Ids) /\ UserObjects' = UserObjects \cup {Len(user) + 1}
                 /\ Len(user) + 1 \in Nat /\ user'[Len(user) + 1] = id
                 /\ \A o \in UserObjects : user'[o] = user[o]
  BY <1>0, <1>1
<1> QED BY <1>2, <1>3
\* A step of goroutine t that also changes a cache, the store or an object.
LEMMA UserChange ==
    ASSUME UserInv, NEW t \in U!Threads, NEW d \in [pc : UserLabels, obj : Nat, id : Ids],
           U!Go(t, d), UserReady(d, user', RealIds'), UNCHANGED <<dm, blank, inits>>,
           shared' \in Ids, listed' \in Ids \ {"zero"}, who' \in {0} \cup UserObjects', room' \in BOOLEAN,
           U!Real(shared'), U!Real(listed'), room' => dm,
           user' \in Seq(Ids), UserObjects \subseteq UserObjects', \A o \in UserObjects' : U!Real(user'[o]),
           \A o \in UserObjects : user[o] # "none" => user'[o] # "none"
    PROVE  UserInv'
<1>1. dm' \in BOOLEAN /\ blank' \in BOOLEAN /\ inits' \in Nat
  BY DEF UserInv, UserTypes
<1>2. /\ doing' \in [U!Threads -> [pc : UserLabels, obj : Nat, id : Ids]]
      /\ \A u \in U!Threads : UserReady(doing'[u], user', RealIds')
  BY <1>1, UserStep
<1>3. UserTypes'
  BY <1>1, <1>2 DEF UserTypes
<1>4. DOMAIN user' = UserObjects'
  BY DEF UserObjects
<1>5. (U!DmReal)'
  BY <1>4 DEF U!DmReal, U!Real
<1> QED BY <1>2, <1>3, <1>5 DEF UserInv

\* buildUser.
LEMMA BuildUserInv ==
    ASSUME UserInv, NEW w \in U!Threads, NEW id \in Ids \ {"none"}, U!Real(id), U!BuildUser(w, id),
           shared' \in Ids, U!Real(shared'), UNCHANGED <<dm, listed, room, who, inits, blank>>
    PROVE  UserInv'
<1> DEFINE d == [doing[w] EXCEPT !.pc = "set", !.obj = Len(user) + 1, !.id = "none"]
<1>1. U!Go(w, d) /\ user' = Append(user, id) /\ doing[w] \in [pc : UserLabels, obj : Nat, id : Ids]
  BY DEF U!BuildUser, UserInv, UserTypes
<1>2. /\ user' \in Seq(Ids) /\ UserObjects' = UserObjects \cup {Len(user) + 1}
      /\ Len(user) + 1 \in Nat /\ user'[Len(user) + 1] = id
      /\ \A o \in UserObjects : user'[o] = user[o]
  BY <1>1, UserObjectStep
<1>3. d \in [pc : UserLabels, obj : Nat, id : Ids] /\ d.pc = "set" /\ d.obj = Len(user) + 1 /\ d.id = "none"
  BY <1>1, <1>2 DEF UserLabels, Ids
<1> HIDE DEF d
<1>4. UserReady(d, user', RealIds')
  BY <1>2, <1>3 DEF UserReady, U!Real, RealIds, UserObjects, Ids
<1>5. \A o \in UserObjects' : U!Real(user'[o])
  BY <1>2, UserKnown
<1>6. /\ listed' \in Ids \ {"zero"} /\ who' \in {0} \cup UserObjects' /\ room' \in BOOLEAN
      /\ U!Real(listed') /\ (room' => dm)
  BY <1>2 DEF UserInv, UserTypes, U!DmReal, U!Real
<1> QED BY <1>1, <1>2, <1>3, <1>4, <1>5, <1>6, UserChange

\* The server may have the DM channel from now on.
LEMMA CreateDMInv ==
    ASSUME UserInv, NEW w \in U!Threads,
           NEW found \in [pc : UserLabels, obj : Nat, id : Ids],
           NEW failed \in [pc : UserLabels, obj : Nat, id : Ids],
           U!CreateDMChannel(w, found, failed), UNCHANGED <<shared, listed, room, who, user, inits>>,
           \A id \in {"zero", "dm"} : U!Real(id)' => UserReady([found EXCEPT !.id = id], user', RealIds'),
           UserReady(failed, user, RealIds)
    PROVE  UserInv'
<1>0. /\ dm \in BOOLEAN /\ blank \in BOOLEAN /\ UserObjects' = UserObjects
      /\ \A o \in UserObjects : user[o] # "none" => user'[o] # "none"
  BY DEF UserInv, UserTypes, UserObjects
<1>1. (dm => dm') /\ (blank => blank') /\ dm' \in BOOLEAN /\ blank' \in BOOLEAN
  BY <1>0 DEF U!CreateDMChannel
<1>2. \E d \in [pc : UserLabels, obj : Nat, id : Ids] : U!Go(w, d) /\ UserReady(d, user', RealIds')
  <2>1. CASE U!Go(w, failed)
    <3>1. UserReady(failed, user', RealIds')
      BY <1>0, <1>1 DEF UserReady, U!Real, RealIds, UserObjects, Ids
    <3> QED BY <2>1, <3>1
  <2>2. CASE U!Go(w, [found EXCEPT !.id = "dm"]) /\ dm' = TRUE
    <3>1. U!Real("dm")'
      BY <2>2 DEF U!Real
    <3>2. [found EXCEPT !.id = "dm"] \in [pc : UserLabels, obj : Nat, id : Ids]
      BY DEF Ids
    <3> QED BY <2>2, <3>1, <3>2
  <2>3. CASE U!Go(w, [found EXCEPT !.id = "zero"]) /\ blank' = TRUE
    <3>1. U!Real("zero")'
      BY <2>3 DEF U!Real
    <3>2. [found EXCEPT !.id = "zero"] \in [pc : UserLabels, obj : Nat, id : Ids]
      BY DEF Ids
    <3> QED BY <2>3, <3>1, <3>2
  <2> QED BY <2>1, <2>2, <2>3 DEF U!CreateDMChannel
<1>3. /\ doing' \in [U!Threads -> [pc : UserLabels, obj : Nat, id : Ids]]
      /\ \A u \in U!Threads : UserReady(doing'[u], user', RealIds')
  BY <1>0, <1>1, <1>2, UserStep
<1>4. UserTypes'
  BY <1>0, <1>1, <1>3 DEF UserInv, UserTypes
<1>5. (U!DmReal)'
  BY <1>1 DEF UserInv, U!DmReal, U!Real
<1> QED BY <1>3, <1>4, <1>5 DEF UserInv

\* The steps of a goroutine of the application before SendDM.
LEMMA UserFetchInv ==
    ASSUME UserInv, NEW w \in U!Threads,
           U!Ask(w) \/ U!Get(w) \/ U!L2Get(w) \/ U!Create(w) \/ U!L2Set(w) \/ U!UserSet(w)
    PROVE  UserInv'
<1>0. /\ UserReady(doing[w], user, RealIds) /\ doing[w] \in [pc : UserLabels, obj : Nat, id : Ids]
      /\ 0 \in Nat /\ \A o \in UserObjects : o \in Nat /\ user[o] \in Ids /\ U!Real(user[o])
      /\ UserReady(U!Idle, user, RealIds) /\ U!Idle \in [pc : UserLabels, obj : Nat, id : Ids]
  BY UserKnown
<1>1. CASE U!Ask(w)
  <2> DEFINE d == [U!Idle EXCEPT !.pc = "get"]
  <2>1. d \in [pc : UserLabels, obj : Nat, id : Ids] /\ UserReady(d, user, RealIds)
    BY DEF U!Idle, UserReady, UserLabels, Ids, U!Real, RealIds, UserObjects
  <2>2. U!Go(w, d) /\ UNCHANGED <<dm, shared, listed, room, who, user, blank>> /\ inits' \in Nat
    BY <1>1 DEF U!Ask, UserInv, UserTypes
  <2> HIDE DEF d
  <2> QED BY <2>1, <2>2, UserMove
<1>2. CASE U!Get(w)
  <2> DEFINE d == IF who # 0 THEN U!Found(w, who) ELSE [doing[w] EXCEPT !.pc = "l2get"]
  <2>1. d \in [pc : UserLabels, obj : Nat, id : Ids] /\ UserReady(d, user, RealIds)
    BY <1>0 DEF UserReady, UserLabels, U!Found, UserInv, UserTypes, RealIds, UserObjects, U!Real, Ids
  <2>2. U!Go(w, d) /\ UNCHANGED <<dm, shared, listed, room, who, user, blank>> /\ inits' \in Nat
    BY <1>2 DEF U!Get, U!To, UserInv, UserTypes, U!bounds
  <2> HIDE DEF d
  <2> QED BY <2>1, <2>2, UserMove
<1>3. CASE U!L2Get(w) /\ U!To(w, "create") /\ UNCHANGED user
  <2> DEFINE d == [doing[w] EXCEPT !.pc = "create"]
  <2>1. d \in [pc : UserLabels, obj : Nat, id : Ids] /\ UserReady(d, user, RealIds)
    BY <1>0 DEF UserReady, UserLabels, RealIds, UserObjects, U!Real, Ids
  <2>2. U!Go(w, d) /\ UNCHANGED <<dm, shared, listed, room, who, user, blank>> /\ inits' \in Nat
    BY <1>3 DEF U!L2Get, U!To, UserInv, UserTypes, U!bounds
  <2> HIDE DEF d
  <2> QED BY <2>1, <2>2, UserMove
<1>4. CASE U!L2Get(w) /\ shared # "none" /\ U!BuildUser(w, shared)
  BY <1>4, BuildUserInv DEF U!L2Get, U!bounds, UserInv, UserTypes, U!DmReal, U!Real
<1>5. CASE U!Create(w)
  <2> DEFINE found == [doing[w] EXCEPT !.pc = "l2set"]
  <2>1. U!CreateDMChannel(w, found, U!Idle) /\ UNCHANGED <<shared, listed, room, who, user, inits>>
    BY <1>5 DEF U!Create, U!bounds
  <2>2. found \in [pc : UserLabels, obj : Nat, id : Ids]
    BY <1>0 DEF UserLabels
  <2>3. ASSUME NEW id \in {"zero", "dm"}, U!Real(id)' PROVE UserReady([found EXCEPT !.id = id], user', RealIds')
    BY <1>0, <2>1, <2>2, <2>3 DEF UserReady, UserObjects, RealIds, U!Real, Ids
  <2> QED BY <1>0, <2>1, <2>2, <2>3, CreateDMInv
<1>6. CASE U!L2Set(w)
  <2>1. doing[w].id \in Ids \ {"none"} /\ U!Real(doing[w].id)
    BY <1>0, <1>6 DEF U!L2Set, U!At, UserReady, RealIds, UserObjects, U!Real, Ids
  <2>2. U!BuildUser(w, doing[w].id) /\ shared' \in {shared, doing[w].id} /\ UNCHANGED <<dm, listed, room, who, inits, blank>>
    BY <1>6 DEF U!L2Set, U!bounds
  <2>3. shared' \in Ids /\ U!Real(shared')
    BY <2>1, <2>2 DEF UserInv, UserTypes, U!DmReal, U!Real
  <2> QED BY <2>1, <2>2, <2>3, BuildUserInv
<1>7. CASE U!UserSet(w)
  <2> DEFINE d == IF U!At(w, "set") THEN [doing[w] EXCEPT !.pc = "again"] ELSE U!Found(w, doing[w].obj)
  <2>1. /\ doing[w].obj \in UserObjects /\ who' = doing[w].obj /\ U!Go(w, d)
        /\ UNCHANGED <<dm, shared, listed, room, user, inits, blank>>
    BY <1>0, <1>7 DEF U!UserSet, U!At, U!To, U!bounds, UserReady, RealIds, UserObjects, U!Real, Ids
  <2>2. d \in [pc : UserLabels, obj : Nat, id : Ids] /\ UserReady(d, user, RealIds)
    BY <1>0, <1>7 DEF UserReady, UserLabels, U!Found, U!UserSet, U!At, RealIds, UserObjects, U!Real, Ids
  <2> HIDE DEF d
  <2>3. UserReady(d, user', RealIds') /\ UserObjects' = UserObjects
    BY <2>1, <2>2 DEF UserReady, UserObjects, U!Real, RealIds, Ids
  <2>4. /\ doing' \in [U!Threads -> [pc : UserLabels, obj : Nat, id : Ids]]
        /\ \A u \in U!Threads : UserReady(doing'[u], user', RealIds')
    BY <2>1, <2>2, <2>3, UserStep DEF UserInv, UserTypes
  <2>5. UserTypes'
    BY <2>1, <2>3, <2>4 DEF UserInv, UserTypes
  <2>6. (U!DmReal)'
    BY <2>1 DEF UserInv, U!DmReal, U!Real
  <2> QED BY <2>4, <2>5, <2>6 DEF UserInv
<1> QED BY <1>1, <1>2, <1>3, <1>4, <1>5, <1>6, <1>7 DEF U!L2Get

\* SendDM.
LEMMA UserSendInv ==
    ASSUME UserInv, NEW w \in U!Threads, U!Check(w) \/ U!Make(w) \/ U!Assign(w) \/ U!WriteDM(w)
    PROVE  UserInv'
<1>0. /\ UserReady(doing[w], user, RealIds) /\ doing[w] \in [pc : UserLabels, obj : Nat, id : Ids]
      /\ 0 \in Nat /\ \A o \in UserObjects : o \in Nat /\ user[o] \in Ids /\ U!Real(user[o])
      /\ UserReady(U!Idle, user, RealIds) /\ U!Idle \in [pc : UserLabels, obj : Nat, id : Ids]
  BY UserKnown
<1>1. CASE U!Check(w)
  <2> DEFINE d == [doing[w] EXCEPT !.pc = IF user[doing[w].obj] = "none" THEN "make" ELSE "write"]
  <2>1. d \in [pc : UserLabels, obj : Nat, id : Ids] /\ UserReady(d, user, RealIds)
    BY <1>0, <1>1 DEF U!Check, U!At, UserReady, UserLabels, RealIds, UserObjects, U!Real, Ids
  <2>2. U!Go(w, d) /\ UNCHANGED <<dm, shared, listed, room, who, user, blank>> /\ inits' \in Nat
    BY <1>1 DEF U!Check, U!To, UserInv, UserTypes, U!bounds
  <2> HIDE DEF d
  <2> QED BY <2>1, <2>2, UserMove
<1>2. CASE U!Make(w)
  <2> DEFINE found == [doing[w] EXCEPT !.pc = "assign"]
             failed == [doing[w] EXCEPT !.pc = "write"]
  <2>1. U!CreateDMChannel(w, found, failed) /\ UNCHANGED <<shared, listed, room, who, user, inits>>
    BY <1>2 DEF U!Make, U!bounds
  <2>2. /\ found \in [pc : UserLabels, obj : Nat, id : Ids] /\ failed \in [pc : UserLabels, obj : Nat, id : Ids]
        /\ doing[w].obj \in UserObjects
    BY <1>0, <1>2 DEF UserLabels, U!Make, U!At, UserReady, RealIds, UserObjects, U!Real, Ids
  <2>3. ASSUME NEW id \in {"zero", "dm"}, U!Real(id)' PROVE UserReady([found EXCEPT !.id = id], user', RealIds')
    BY <1>0, <2>1, <2>2, <2>3 DEF UserReady, UserObjects, RealIds, U!Real, Ids
  <2>4. UserReady(failed, user, RealIds)
    BY <1>0, <2>2 DEF UserReady, RealIds, UserObjects, U!Real, Ids
  <2> HIDE DEF found, failed
  <2> QED BY <2>1, <2>2, <2>3, <2>4, CreateDMInv
<1>3. CASE U!Assign(w)
  <2> DEFINE d == [doing[w] EXCEPT !.pc = "write", !.id = "none"]
  <2>1. /\ doing[w].obj \in UserObjects /\ doing[w].id \in Ids \ {"none"} /\ U!Real(doing[w].id)
        /\ user' = [user EXCEPT ![doing[w].obj] = doing[w].id] /\ U!Go(w, d)
        /\ room' = (room \/ doing[w].id = "dm")
        /\ UNCHANGED <<dm, shared, listed, who, inits, blank>>
    BY <1>0, <1>3 DEF U!Assign, U!At, U!bounds, UserReady, RealIds, UserObjects, U!Real, Ids
  <2>2. /\ user' \in Seq(Ids) /\ UserObjects' = UserObjects
        /\ \A o \in UserObjects : user'[o] = IF o = doing[w].obj THEN doing[w].id ELSE user[o]
    BY <2>1, UserObjectStep
  <2>3. d \in [pc : UserLabels, obj : Nat, id : Ids] /\ UserReady(d, user', RealIds')
    BY <1>0, <2>1, <2>2 DEF UserReady, UserLabels, Ids, U!Real, RealIds, UserObjects
  <2> HIDE DEF d
  <2>4. room' \in BOOLEAN /\ (room' => dm')
    BY <2>1 DEF UserInv, UserTypes, U!DmReal, U!Real
  <2>5. /\ \A o \in UserObjects : user[o] # "none" => user'[o] # "none"
        /\ \A o \in UserObjects' : U!Real(user'[o])
    BY <1>0, <2>1, <2>2 DEF U!Real
  <2> QED BY <2>1, <2>2, <2>3, <2>4, <2>5, UserChange DEF UserInv, UserTypes, U!DmReal, U!Real
<1>4. CASE U!WriteDM(w)
  <2>1. /\ doing[w].obj \in UserObjects /\ U!Go(w, U!Idle)
        /\ room' \in {room, room \/ user[doing[w].obj] = "dm"}
        /\ UNCHANGED <<dm, shared, listed, who, user, inits, blank>>
    BY <1>0, <1>4 DEF U!WriteDM, U!Done, U!At, U!bounds, UserReady, RealIds, UserObjects, U!Real, Ids
  <2>2. room' \in BOOLEAN /\ (room' => dm')
    BY <1>0, <2>1 DEF UserInv, UserTypes, U!DmReal, U!Real
  <2>3. UserReady(U!Idle, user', RealIds') /\ user' \in Seq(Ids) /\ UserObjects' = UserObjects
    BY <1>0, <2>1 DEF UserReady, U!Idle, U!Real, UserObjects, UserInv, UserTypes, RealIds, Ids
  <2> QED BY <1>0, <2>1, <2>2, <2>3, UserChange DEF UserInv, UserTypes, U!DmReal, U!Real
<1> QED BY <1>1, <1>2, <1>3, <1>4

\* cacheUserFromMessage.
LEMMA UserMessageInv ==
    ASSUME UserInv, NEW l \in Listeners, U!Arrive(l) \/ U!Find(l) \/ U!Enrich(l)
    PROVE  UserInv'
<1>0. /\ l \in U!Threads
      /\ UserReady(doing[l], user, RealIds) /\ doing[l] \in [pc : UserLabels, obj : Nat, id : Ids]
      /\ 0 \in Nat /\ \A o \in UserObjects : o \in Nat /\ user[o] \in Ids /\ U!Real(user[o])
      /\ UserReady(U!Idle, user, RealIds) /\ U!Idle \in [pc : UserLabels, obj : Nat, id : Ids]
  <2>1. l \in U!Threads
    BY DEF U!Threads
  <2> QED BY <2>1, UserKnown
<1>1. CASE U!Arrive(l)
  <2> DEFINE d == [U!Idle EXCEPT !.pc = "find", !.id = listed]
  <2>1. d \in [pc : UserLabels, obj : Nat, id : Ids] /\ UserReady(d, user, RealIds)
    BY DEF U!Idle, UserReady, UserLabels, Ids, RealIds, UserInv, UserTypes, U!DmReal
  <2>2. U!Go(l, d) /\ UNCHANGED <<dm, shared, listed, room, who, user, blank>> /\ inits' \in Nat
    BY <1>1 DEF U!Arrive, UserInv, UserTypes
  <2> HIDE DEF d
  <2> QED BY <1>0, <2>1, <2>2, UserMove
<1>2. CASE U!Find(l)
  <2> DEFINE d == [doing[l] EXCEPT !.pc = "enrich", !.obj = who]
  <2>1. who \in {0} \cup UserObjects /\ who \in Nat
    BY <1>0 DEF UserInv, UserTypes
  <2>2. d \in [pc : UserLabels, obj : Nat, id : Ids] /\ UserReady(d, user, RealIds)
    BY <1>0, <1>2, <2>1 DEF U!Find, U!At, UserReady, UserLabels, UserObjects
  <2>3. U!Go(l, d) /\ UNCHANGED <<dm, shared, listed, room, who, user, blank>> /\ inits' \in Nat
    BY <1>2 DEF U!Find, UserInv, UserTypes, U!bounds
  <2> HIDE DEF d
  <2> QED BY <1>0, <2>2, <2>3, UserMove
<1>3. CASE U!Enrich(l)
  <2> DEFINE o == doing[l].obj
             id == doing[l].id
  <2>1. /\ o \in {0} \cup UserObjects /\ id \in Ids /\ U!Real(id)
        /\ U!Go(l, U!Idle) /\ UNCHANGED <<dm, shared, listed, room, inits, blank>>
    BY <1>0, <1>3 DEF U!Enrich, U!At, U!Done, U!bounds, UserReady, RealIds, UserObjects
  <2>2. CASE o = 0
    <3>1. user' = Append(user, id) /\ who' = Len(user) + 1
      BY <1>3, <2>2 DEF U!Enrich
    <3>2. /\ user' \in Seq(Ids) /\ UserObjects' = UserObjects \cup {Len(user) + 1}
          /\ Len(user) + 1 \in Nat /\ user'[Len(user) + 1] = id
          /\ \A x \in UserObjects : user'[x] = user[x]
      BY <2>1, <3>1, UserObjectStep
    <3>3. UserReady(U!Idle, user', RealIds')
      BY DEF UserReady, U!Idle, U!Real, RealIds, Ids
    <3>4. \A x \in UserObjects' : U!Real(user'[x])
      BY <1>0, <2>1, <3>2
    <3>5. \A x \in UserObjects : user[x] # "none" => user'[x] # "none"
      BY <3>2
    <3> QED BY <1>0, <2>1, <3>1, <3>2, <3>3, <3>4, <3>5, UserChange DEF UserInv, UserTypes, U!DmReal, U!Real
  <2>3. CASE o # 0
    <3> DEFINE new == IF id = "none" THEN user[o] ELSE id
    <3>1. user' = [user EXCEPT ![o] = new] /\ who' = who /\ o \in UserObjects /\ new \in Ids /\ U!Real(new)
      BY <1>0, <1>3, <2>1, <2>3 DEF U!Enrich
    <3> HIDE DEF new
    <3>2. /\ user' \in Seq(Ids) /\ UserObjects' = UserObjects
          /\ \A x \in UserObjects : user'[x] = IF x = o THEN new ELSE user[x]
      BY <3>1, UserObjectStep
    <3>3. UserReady(U!Idle, user', RealIds')
      BY DEF UserReady, U!Idle, U!Real, RealIds, Ids
    <3>4. \A x \in UserObjects' : U!Real(user'[x])
      BY <1>0, <2>1, <3>1, <3>2 DEF U!Real
    <3>5. \A x \in UserObjects : user[x] # "none" => user'[x] # "none"
      BY <3>1, <3>2 DEF new
    <3> QED BY <1>0, <2>1, <3>1, <3>2, <3>3, <3>4, <3>5, UserChange DEF UserInv, UserTypes, U!DmReal, U!Real
  <2> QED BY <2>2, <2>3
<1> QED BY <1>1, <1>2, <1>3

\* InitAllDMChannels and initDmChannelCache.
LEMMA UserListInv ==
    ASSUME UserInv, U!ListDMs \/ U!ClearDMs \/ U!FillDMs \/ U!InitDmChannelCache \/ U!Reconnect
    PROVE  UserInv'
<1>0. /\ Starter \in U!Threads
      /\ UserReady(doing[Starter], user, RealIds) /\ doing[Starter] \in [pc : UserLabels, obj : Nat, id : Ids]
      /\ 0 \in Nat /\ \A o \in UserObjects : o \in Nat /\ user[o] \in Ids /\ U!Real(user[o])
      /\ UserReady(U!Idle, user, RealIds) /\ U!Idle \in [pc : UserLabels, obj : Nat, id : Ids]
  <2>1. Starter \in U!Threads
    BY DEF U!Threads
  <2> QED BY <2>1, UserKnown
<1>1. CASE U!ListDMs \/ U!Reconnect
  <2>1. \E d \in [pc : UserLabels, obj : Nat, id : Ids] : U!Go(Starter, d) /\ UserReady(d, user, RealIds)
    <3> DEFINE a == [doing[Starter] EXCEPT !.pc = "precache"]
               b == [doing[Starter] EXCEPT !.pc = "clear", !.id = IF dm THEN "dm" ELSE "none"]
               c == [doing[Starter] EXCEPT !.pc = "list"]
    <3>1. U!Go(Starter, a) \/ U!Go(Starter, b) \/ U!Go(Starter, c)
      BY <1>1 DEF U!ListDMs, U!Reconnect, U!To
    <3>2. a \in [pc : UserLabels, obj : Nat, id : Ids] /\ UserReady(a, user, RealIds)
      BY <1>0 DEF UserReady, UserLabels
    <3>3. b \in [pc : UserLabels, obj : Nat, id : Ids] /\ UserReady(b, user, RealIds)
      BY <1>0 DEF UserReady, UserLabels, RealIds, Ids, U!Real
    <3>4. c \in [pc : UserLabels, obj : Nat, id : Ids] /\ UserReady(c, user, RealIds)
      BY <1>0 DEF UserReady, UserLabels
    <3> HIDE DEF a, b, c
    <3> QED BY <3>1, <3>2, <3>3, <3>4
  <2>2. UNCHANGED <<dm, shared, listed, room, who, user, blank>> /\ inits' \in Nat
    BY <1>1 DEF U!ListDMs, U!Reconnect, UserInv, UserTypes, U!bounds
  <2> QED BY <1>0, <2>1, <2>2, UserMove
<1>2. CASE U!ClearDMs \/ U!FillDMs \/ U!InitDmChannelCache
  <2>1. PICK pc \in {"fill", "precache", "idle"} :
            /\ U!Go(Starter, IF pc = "idle" THEN U!Idle ELSE [doing[Starter] EXCEPT !.pc = pc])
            /\ pc = "fill" => doing[Starter].pc = "clear"
    BY <1>2 DEF U!ClearDMs, U!FillDMs, U!InitDmChannelCache, U!To, U!Done, U!At
  <2> DEFINE d == IF pc = "idle" THEN U!Idle ELSE [doing[Starter] EXCEPT !.pc = pc]
  <2>2. d \in [pc : UserLabels, obj : Nat, id : Ids] /\ UserReady(d, user, RealIds)
    BY <1>0, <2>1 DEF UserReady, UserLabels, U!Idle
  <2>3. /\ UNCHANGED <<dm, shared, who, user, inits, blank>>
        /\ \/ listed' \in {listed, "none"}
           \/ listed' = doing[Starter].id /\ doing[Starter].pc = "fill"
        /\ room' \in {room, room \/ listed = "dm"}
    BY <1>2 DEF U!ClearDMs, U!FillDMs, U!InitDmChannelCache, U!bounds, U!At
  <2>4. listed' \in Ids \ {"zero"} /\ U!Real(listed')
    BY <1>0, <2>3 DEF UserReady, RealIds, Ids, U!Real, UserInv, UserTypes, U!DmReal
  <2>5. room' \in BOOLEAN /\ (room' => dm)
    BY <2>3 DEF UserInv, UserTypes, U!DmReal, U!Real
  <2>6. RealIds' = RealIds /\ UserObjects' = UserObjects
    BY <2>3 DEF RealIds, U!Real, UserObjects
  <2>7. UserReady(d, user', RealIds')
    BY <2>2, <2>3, <2>6
  <2> HIDE DEF d
  <2>8. U!Go(Starter, d)
    BY <2>1 DEF d
  <2> QED BY <1>0, <2>2, <2>3, <2>4, <2>5, <2>6, <2>7, <2>8, UserChange DEF UserInv, UserTypes, U!DmReal, U!Real
<1> QED BY <1>1, <1>2

\* A restart forgets the objects, an eviction or the end of an entry a copy.
LEMMA UserFaultInv ==
    ASSUME UserInv, U!Restart \/ U!Forgotten
    PROVE  UserInv'
<1>1. CASE U!Restart
  <2> USE <1>1 DEF U!Restart
  <2>1. doing' \in [U!Threads -> [pc : UserLabels, obj : Nat, id : Ids]]
    BY DEF UserLabels, Ids, U!Starting, U!Idle
  <2>2. user' \in Seq(Ids) /\ who' \in {0} \cup UserObjects' /\ inits' \in Nat /\ shared' \in Ids /\ listed' \in Ids \ {"zero"}
    BY DEF UserInv, UserTypes, Ids
  <2>3. dm' \in BOOLEAN /\ room' \in BOOLEAN /\ blank' \in BOOLEAN
    BY Zenon DEF UserInv, UserTypes
  <2>4. UserTypes'
    BY <2>1, <2>2, <2>3 DEF UserTypes
  <2>5. (U!DmReal)'
    BY DEF UserInv, U!DmReal, U!Real
  <2>6. ASSUME NEW t \in U!Threads PROVE UserReady(doing'[t], user', RealIds')
    BY DEF UserReady, U!Starting, U!Idle, RealIds, Ids, U!Real
  <2> QED BY <2>4, <2>5, <2>6 DEF UserInv
<1>2. CASE U!Forgotten
  <2>1. /\ who' \in {who, 0} /\ shared' \in {shared, "none"}
        /\ UNCHANGED <<dm, listed, room, user, doing, inits, blank>>
    BY <1>2 DEF U!Forgotten, U!bounds
  <2>2. UserObjects' = UserObjects /\ RealIds' = RealIds
    BY <2>1 DEF UserObjects, RealIds, U!Real
  <2>3. UserTypes'
    BY <2>1, <2>2 DEF UserInv, UserTypes, Ids
  <2>4. (U!DmReal)'
    BY <2>1 DEF UserInv, U!DmReal, U!Real
  <2> QED BY <2>1, <2>2, <2>3, <2>4 DEF UserInv
<1> QED BY <1>1, <1>2

\* Every step of the model.
LEMMA UserInvNext == ASSUME UserInv, [U!Next]_userVars PROVE UserInv'
<1>1. ASSUME NEW w \in Askers, U!Asker(w) PROVE UserInv'
  <2>1. w \in U!Threads
    BY DEF U!Threads
  <2> QED BY <1>1, <2>1, UserFetchInv, UserSendInv DEF U!Asker
<1>2. CASE UNCHANGED userVars
  BY <1>2 DEF userVars, UserInv, UserTypes, UserReady, RealIds, UserObjects, U!DmReal, U!Real
<1> QED BY <1>1, <1>2, UserMessageInv, UserListInv, UserFaultInv DEF U!Next

\* MCChannels moves the user's part by a step of Users, or not at all.
LEMMA UserInvSpec == MCSpec => []UserInv
<1>1. MCInit => UserInv
  BY UserInvInit DEF MCInit
<1>2. UserInv /\ [MCNext]_<<part, vars, userVars>> => UserInv'
  BY UserInvNext DEF MCNext
<1> QED BY <1>1, <1>2, PTL DEF MCSpec

\* Users.DmReal, of any number of goroutines: a DM channel id that a User object, the
\* map of the list, the shared store or the channel cache holds is the server's.
THEOREM UserDmReal == MCSpec => []DmReal
<1>1. UserInv => DmReal
  BY DEF UserInv, DmReal
<1> QED BY <1>1, UserInvSpec, PTL

\* What takes the DM channel from the cached user.
Lost ==
    \/ (U!Cached)' = "dm"
    \/ (U!Cached)' = "none" /\ \E l \in Listeners : U!At(l, "enrich") /\ doing[l].obj = 0
    \/ (U!Cached)' = "zero" /\ blank /\ \E w \in Askers : U!Overwrites(w)

LEMMA LostStep ==
    ASSUME UserInv, U!Next, U!Cached = "dm", who' # 0, inits' = inits
    PROVE  Lost
<1>0. who \in UserObjects /\ who # 0 /\ user[who] = "dm"
  BY DEF UserInv, UserTypes, U!Cached
<1>1. ASSUME NEW w \in Askers, U!Asker(w) PROVE Lost
  <2>0. w \in U!Threads
    BY DEF U!Threads
  <2>1. CASE U!UserSet(w)
    <3> DEFINE o == doing[w].obj
    <3>1. o \in UserObjects /\ user[o] \in {"zero", "dm"} /\ (user[o] = "zero" => blank)
      BY <2>0, <2>1, UserKnown DEF U!UserSet, U!At, UserReady, UserObjects, U!Real, Ids
    <3>2. who' = o /\ user' = user /\ (U!At(w, "set") \/ U!At(w, "again"))
      BY <2>1 DEF U!UserSet
    <3>3. (U!Cached)' = user[o]
      BY <3>1, <3>2 DEF U!Cached, UserObjects
    <3> QED BY <3>1, <3>2, <3>3 DEF Lost, U!Overwrites
  <2>2. CASE U!L2Get(w) \/ U!L2Set(w)
    <3>1. who' = who /\ (user' = user \/ \E id \in Ids : user' = Append(user, id))
      <4>1. doing[w].id \in Ids /\ shared \in Ids
        BY <2>0, UserKnown DEF UserInv, UserTypes
      <4> QED BY <2>2, <4>1 DEF U!L2Get, U!L2Set, U!BuildUser
    <3>2. user'[who] = user[who]
      BY <1>0, <3>1, UserObjectStep
    <3> QED BY <1>0, <3>1, <3>2 DEF U!Cached, Lost
  <2>3. CASE U!Assign(w)
    <3>1. /\ doing[w].obj \in UserObjects /\ doing[w].id \in {"zero", "dm"}
          /\ doing[w].id = "zero" => blank
      BY <2>0, <2>3, UserKnown DEF U!Assign, U!At, UserReady, UserObjects, RealIds, U!Real, Ids
    <3>2. who' = who /\ user' = [user EXCEPT ![doing[w].obj] = doing[w].id] /\ U!At(w, "assign")
      BY <2>3 DEF U!Assign
    <3>3. user'[who] \in {"dm", doing[w].id}
      BY <1>0, <3>1, <3>2, UserObjectStep DEF Ids
    <3>4. (U!Cached)' \in {"dm", doing[w].id}
      BY <1>0, <3>2, <3>3 DEF U!Cached
    <3> QED BY <3>1, <3>2, <3>4 DEF Lost, U!Overwrites
  <2>4. CASE U!Ask(w) \/ U!Get(w) \/ U!Create(w) \/ U!Check(w) \/ U!Make(w) \/ U!WriteDM(w)
    <3>1. who' = who /\ user' = user
      BY <2>4 DEF U!Ask, U!Get, U!Create, U!Check, U!Make, U!WriteDM
    <3> QED BY <1>0, <3>1 DEF U!Cached, Lost
  <2> QED BY <1>1, <2>1, <2>2, <2>3, <2>4 DEF U!Asker
<1>2. ASSUME NEW l \in Listeners, U!Enrich(l) PROVE Lost
  <2> DEFINE o == doing[l].obj
             id == doing[l].id
  <2>0. /\ U!At(l, "enrich") /\ id \in {"none", "dm"} /\ o \in {0} \cup UserObjects
    <3>1. l \in U!Threads
      BY DEF U!Threads
    <3> QED BY <1>2, <3>1, UserKnown DEF U!Enrich, U!At, UserReady, UserObjects, Ids
  <2>1. CASE o = 0
    <3>1. user' = Append(user, id) /\ who' = Len(user) + 1
      BY <1>2, <2>1 DEF U!Enrich
    <3>2. user'[who'] = id
      BY <2>0, <3>1, UserObjectStep DEF Ids
    <3>3. (U!Cached)' = id
      BY <3>2 DEF U!Cached
    <3> QED BY <2>0, <2>1, <3>3 DEF Lost
  <2>2. CASE o # 0
    <3> DEFINE new == IF id = "none" THEN user[o] ELSE id
    <3>1. user' = [user EXCEPT ![o] = new] /\ who' = who /\ o \in UserObjects /\ new \in Ids
      BY <1>2, <2>0, <2>2, UserKnown DEF U!Enrich, Ids, UserInv, UserTypes, UserObjects
    <3> HIDE DEF new
    <3>2. user'[who] = IF who = o THEN new ELSE user[who]
      BY <1>0, <3>1, UserObjectStep
    <3>3. user'[who] = "dm"
      BY <1>0, <2>0, <3>2 DEF new
    <3> QED BY <1>0, <3>1, <3>3 DEF U!Cached, Lost
  <2> QED BY <2>0, <2>1, <2>2
<1>3. CASE (\E l \in Listeners : U!Arrive(l) \/ U!Find(l))
           \/ U!ListDMs \/ U!ClearDMs \/ U!FillDMs \/ U!InitDmChannelCache
  <2>1. \A l \in Listeners : U!Arrive(l) \/ U!Find(l) => who' = who /\ user' = user
    BY DEF U!Arrive, U!Find
  <2>2. who' = who /\ user' = user
    BY <1>3, <2>1 DEF U!ListDMs, U!ClearDMs, U!FillDMs, U!InitDmChannelCache
  <2> QED BY <1>0, <2>2 DEF U!Cached, Lost
<1>4. CASE U!Reconnect \/ U!Restart
  BY <1>4 DEF U!Reconnect, U!Restart, UserInv, UserTypes
<1>5. CASE U!Forgotten
  <2>1. who' = who /\ user' = user
    BY <1>5 DEF U!Forgotten
  <2> QED BY <1>0, <2>1 DEF U!Cached, Lost
<1> QED BY <1>1, <1>2, <1>3, <1>4, <1>5 DEF U!Next

\* Users.LostOnlyByRace, of any number of goroutines and dispatchLoops: the cached user
\* keeps the DM channel it has but for an eviction, the handling of a message that had
\* found no User object, or a call that stores or assigns "0" after the server answered
\* without an id.
THEOREM UserLostOnlyByRace == MCSpec => LostOnlyByRace
<1> DEFINE A == U!Cached = "dm" /\ who' # 0 /\ inits' = inits =>
                    \/ (U!Cached)' = "dm"
                    \/ (U!Cached)' = "none" /\ \E l \in Listeners : U!At(l, "enrich") /\ doing[l].obj = 0
                    \/ (U!Cached)' = "zero" /\ blank /\ \E w \in Askers : U!Overwrites(w)
<1>1. UserInv /\ [MCNext]_<<part, vars, userVars>> => [A]_U!vars
  <2> SUFFICES ASSUME UserInv, [MCNext]_<<part, vars, userVars>> PROVE [A]_U!vars
    OBVIOUS
  <2>1. CASE U!Next
    BY <2>1, LostStep DEF Lost
  <2>2. CASE UNCHANGED userVars
    BY <2>2 DEF userVars, U!vars
  <2> QED BY <2>1, <2>2 DEF MCNext
<1>2. MCSpec => [][A]_U!vars
  BY <1>1, UserInvSpec, PTL DEF MCSpec
<1> QED BY <1>2 DEF LostOnlyByRace, U!LostOnlyByRace
=============================================================================
