--------------------------- MODULE RoutingProofs ----------------------------
(***************************************************************************)
(* How a change of a service reaches the proxies: proofs for any number of *)
(* hubs, hosts, services, requests and change handlers, any cache sizes    *)
(* and lifetimes, with and without Redis.  The argument: outdated routes   *)
(* in a cache, in an LRU or with a request have an invalidation to come    *)
(* from some handler, with its first InvalidateHost or with the one for    *)
(* the host the service left, or an announcement on the bus, or are marked *)
(* as raced, or are out of every handler's reach, which is noted; when no  *)
(* handler is under way, nothing is to come.  And the time outdated routes *)
(* have left and the time they have been outdated add up to no more than   *)
(* the lifetimes of the caches they passed.                                *)
(***************************************************************************)
EXTENDS Routing, SequenceTheorems, TLAPS

USE BoundsAssumption, NamesAssumption

-----------------------------------------------------------------------------
(* The LRU.                                                                *)

\* The elements of a sequence by their positions.
LEMMA Positions ==
    ASSUME NEW lru \in Seq(Element)
    PROVE  /\ Len(lru) \in Nat /\ DOMAIN lru = 1..Len(lru)
           /\ \A k \in 1..Len(lru) : lru[k] \in Element /\ lru[k] \in Elements(lru)
           /\ Elements(lru) \subseteq Element
           /\ \A x \in Elements(lru) : \E k \in 1..Len(lru) : x = lru[k]
<1>1. Len(lru) \in Nat /\ DOMAIN lru = 1..Len(lru)
  BY LenProperties
<1>2. \A k \in 1..Len(lru) : lru[k] \in Element
  BY ElementOfSeq
<1> QED
  BY <1>1, <1>2, Zenon DEF Elements

\* Get: what is found is an element of that host.
LEMMA FindIs ==
    ASSUME NEW lru \in Seq(Element), NEW h
    PROVE  /\ Has(lru, h) => /\ Place(lru, h) \in 1..Len(lru) /\ lru[Place(lru, h)].host = h
                             /\ \E x \in Elements(lru) : x.host = h /\ x.entry = Find(lru, h)
           /\ ~Has(lru, h) => \A x \in Elements(lru) : x.host # h
<1>1. ASSUME Has(lru, h)
      PROVE  Place(lru, h) \in 1..Len(lru) /\ lru[Place(lru, h)].host = h
  BY <1>1 DEF Has, Place
<1>2. Has(lru, h) => lru[Place(lru, h)] \in Elements(lru)
  BY <1>1, Positions
<1>3. ~Has(lru, h) => \A x \in Elements(lru) : x.host # h
  <2>1. \A x \in Elements(lru) : \E k \in 1..Len(lru) : x = lru[k]
    BY Positions
  <2> QED
    BY <2>1 DEF Has
<1> QED
  BY <1>1, <1>2, <1>3 DEF Find

\* Remove takes out the one element of a host.
LEMMA RemoveIs ==
    ASSUME NEW lru \in Seq(Element), Once(lru), NEW h
    PROVE  /\ Remove(lru, h) \in Seq(Element) /\ Once(Remove(lru, h))
           /\ Elements(Remove(lru, h)) = {x \in Elements(lru) : x.host # h}
<1>1. CASE ~Has(lru, h)
  <2>1. Remove(lru, h) = lru
    BY <1>1 DEF Remove
  <2>2. \A x \in Elements(lru) : x.host # h
    BY <1>1, FindIs
  <2> QED
    BY <2>1, <2>2
<1>2. CASE Has(lru, h)
  <2> DEFINE n == Len(lru)
             p == Place(lru, h)
             u == SubSeq(lru, 1, p - 1)
             v == SubSeq(lru, p + 1, n)
             z == u \o v
  <2>1. /\ n \in Nat /\ DOMAIN lru = 1..n /\ \A k \in 1..n : lru[k] \in Element
        /\ p \in 1..n /\ lru[p].host = h
    BY <1>2, Positions, FindIs
  <2>2. \A j, k \in 1..n : lru[j].host = lru[k].host => j = k
    BY <2>1 DEF Once
  <2>3. Remove(lru, h) = z
    BY <1>2 DEF Remove
  <2> HIDE DEF n, p
  <2>4. p - 1 \in Int /\ p + 1 \in Int /\ n \in Int /\ 1 \in Int
    BY <2>1
  <2>5. (\A i \in 1..p - 1 : lru[i] \in Element) /\ (\A i \in p + 1..n : lru[i] \in Element)
    BY <2>1
  <2>6. /\ u \in Seq(Element) /\ Len(u) = IF 1 <= p - 1 THEN (p - 1) - 1 + 1 ELSE 0
        /\ \A i \in 1..(p - 1) - 1 + 1 : u[i] = lru[1 + i - 1]
    BY <2>4, <2>5, SubSeqProperties
  <2>7. /\ v \in Seq(Element) /\ Len(v) = IF p + 1 <= n THEN n - (p + 1) + 1 ELSE 0
        /\ \A i \in 1..n - (p + 1) + 1 : v[i] = lru[(p + 1) + i - 1]
    BY <2>4, <2>5, SubSeqProperties
  <2>8. /\ z \in Seq(Element) /\ Len(z) = Len(u) + Len(v)
        /\ \A i \in 1..Len(u) + Len(v) : z[i] = IF i <= Len(u) THEN u[i] ELSE v[i - Len(u)]
    BY <2>6, <2>7, ConcatProperties
  <2> DEFINE lu == Len(u)
             lv == Len(v)
             lz == Len(z)
  <2> HIDE DEF lu, lv, lz, u, v, z
  <2>9. lu = p - 1 /\ lv = n - p
    BY <2>1, <2>6, <2>7 DEF lu, lv
  <2>10. lz = n - 1 /\ DOMAIN z = 1..n - 1
    <3>1. lz = lu + lv
      BY <2>8 DEF lz, lu, lv
    <3>2. lz = n - 1
      BY <2>1, <2>9, <3>1
    <3> QED
      BY <2>8, <3>2, LenProperties DEF lz
  <2>11. \A i \in 1..n - 1 : z[i] = IF i < p THEN lru[i] ELSE lru[i + 1]
    <3> SUFFICES ASSUME NEW i \in 1..n - 1 PROVE z[i] = IF i < p THEN lru[i] ELSE lru[i + 1]
      OBVIOUS
    <3>0. i \in 1..lu + lv
      BY <2>1, <2>9
    <3>1. z[i] = IF i <= lu THEN u[i] ELSE v[i - lu]
      BY <2>8, <3>0 DEF lu, lv
    <3>2. CASE i < p
      <4>1. i \in 1..(p - 1) - 1 + 1 /\ i <= lu /\ 1 + i - 1 = i
        BY <2>1, <2>9, <3>2
      <4> QED
        BY <2>6, <3>1, <3>2, <4>1
    <3>3. CASE ~(i < p)
      <4>1. i - lu \in 1..n - (p + 1) + 1 /\ ~(i <= lu) /\ (p + 1) + (i - lu) - 1 = i + 1
        BY <2>1, <2>9, <3>3
      <4> QED
        BY <2>7, <3>1, <3>3, <4>1
    <3> QED
      BY <3>2, <3>3
  <2>12. Once(z)
    <3> SUFFICES ASSUME NEW j \in 1..n - 1, NEW k \in 1..n - 1, z[j].host = z[k].host PROVE j = k
      BY <2>10 DEF Once
    <3> DEFINE sh(i) == IF i < p THEN i ELSE i + 1
    <3>1. z[j] = lru[sh(j)] /\ z[k] = lru[sh(k)] /\ sh(j) \in 1..n /\ sh(k) \in 1..n
      BY <2>1, <2>11
    <3>2. sh(j) = sh(k)
      BY <2>2, <3>1
    <3> QED
      BY <2>1, <3>2
  <2>13. Elements(z) = {x \in Elements(lru) : x.host # h}
    <3>1. ASSUME NEW i \in 1..n - 1 PROVE \E k \in 1..n : k # p /\ z[i] = lru[k]
      <4>1. (IF i < p THEN i ELSE i + 1) \in 1..n /\ (IF i < p THEN i ELSE i + 1) # p
        BY <2>1
      <4> QED
        BY <2>11, <4>1
    <3>2. ASSUME NEW k \in 1..n, k # p PROVE \E i \in 1..n - 1 : z[i] = lru[k]
      <4>1. CASE k < p
        <5>1. k \in 1..n - 1
          BY <2>1, <4>1
        <5> QED
          BY <2>11, <4>1, <5>1
      <4>2. CASE ~(k < p)
        <5>1. k - 1 \in 1..n - 1 /\ ~(k - 1 < p) /\ (k - 1) + 1 = k
          BY <2>1, <3>2, <4>2
        <5>2. z[k - 1] = lru[(k - 1) + 1]
          BY <2>11, <5>1
        <5> QED
          BY <5>1, <5>2
      <4> QED
        BY <4>1, <4>2
    <3>3. \A k \in 1..n : lru[k].host # h <=> k # p
      BY <2>1, <2>2
    <3> DEFINE Z == {z[i] : i \in 1..n - 1}
               L == {lru[k] : k \in 1..n}
    <3>4. Z \subseteq {x \in L : x.host # h}
      BY <3>1, <3>3
    <3>5. {x \in L : x.host # h} \subseteq Z
      BY <3>2, <3>3
    <3>6. Z = {x \in L : x.host # h}
      BY <3>4, <3>5, Zenon
    <3> QED
      BY <2>1, <2>10, <3>6 DEF Elements
  <2> QED
    BY <2>3, <2>8, <2>12, <2>13
<1> QED
  BY <1>1, <1>2

\* Add puts one element in front of the others and lets the last one go.
LEMMA AddIs ==
    ASSUME NEW lru \in Seq(Element), Once(lru), NEW h \in Hosts, NEW e \in Entry
    PROVE  /\ Add(lru, h, e) \in Seq(Element) /\ Once(Add(lru, h, e))
           /\ \A x \in Elements(Add(lru, h, e)) :
                x = [host |-> h, entry |-> e] \/ (x \in Elements(lru) /\ x.host # h)
<1> DEFINE x0 == [host |-> h, entry |-> e]
           r == Remove(lru, h)
           f == <<x0>>
           w == f \o r
           m == Len(r)
           l == Len(w)
           c == IF l > Capacity THEN Capacity ELSE l
           z == SubSeq(w, 1, c)
<1>0. Add(lru, h, e) = z
  BY DEF Add
<1>1. r \in Seq(Element) /\ Once(r) /\ Elements(r) = {x \in Elements(lru) : x.host # h}
  BY RemoveIs
<1>2. x0 \in Element
  BY DEF Element
<1>3. f \in Seq(Element) /\ Len(f) = 1 /\ f[1] = x0
  BY <1>2
<1> HIDE DEF r, f, x0
<1>4. w \in Seq(Element) /\ l = 1 + m /\ \A i \in 1..1 + m : w[i] = IF i <= 1 THEN f[i] ELSE r[i - 1]
  <2>1. /\ w \in Seq(Element) /\ l = Len(f) + m
        /\ \A i \in 1..Len(f) + m : w[i] = IF i <= Len(f) THEN f[i] ELSE r[i - Len(f)]
    BY <1>1, <1>3, ConcatProperties
  <2> HIDE DEF w, l, m
  <2> QED
    BY <1>3, <2>1
<1>5. m \in Nat /\ DOMAIN r = 1..m
  BY <1>1, LenProperties
<1> HIDE DEF w, m, l
<1>6. Capacity \in Nat \ {0} /\ c \in 1..1 + m /\ l \in Nat
  BY <1>4, <1>5
<1>7. \A i \in 1..1 + m : w[i] \in Element
  BY <1>4, ElementOfSeq DEF l
<1> HIDE DEF c
<1>8. z \in Seq(Element) /\ Len(z) = c /\ \A i \in 1..c : z[i] = w[i]
  <2>1. 1 \in Int /\ c \in Int /\ \A i \in 1..c : w[i] \in Element
    BY <1>5, <1>6, <1>7
  <2>2. /\ z \in Seq(Element) /\ Len(z) = IF 1 <= c THEN c - 1 + 1 ELSE 0
        /\ \A i \in 1..c - 1 + 1 : z[i] = w[1 + i - 1]
    BY <2>1, SubSeqProperties
  <2> HIDE DEF z
  <2>3. c - 1 + 1 = c /\ 1 <= c /\ \A i \in 1..c : 1 + i - 1 = i
    BY <1>5, <1>6
  <2> QED
    BY <2>2, <2>3
<1> HIDE DEF z
<1>9. DOMAIN z = 1..c
  BY <1>8, LenProperties
<1>10. \A i \in 1..c : (i = 1 /\ z[i] = x0) \/ (i - 1 \in 1..m /\ z[i] = r[i - 1])
  <2> SUFFICES ASSUME NEW i \in 1..c PROVE (i = 1 /\ z[i] = x0) \/ (i - 1 \in 1..m /\ z[i] = r[i - 1])
    OBVIOUS
  <2>1. i \in 1..1 + m /\ (i <= 1 <=> i = 1) /\ (i # 1 => i - 1 \in 1..m)
    BY <1>5, <1>6
  <2> QED
    BY <1>3, <1>4, <1>8, <2>1
<1>11. \A k \in 1..m : r[k].host # h /\ r[k] \in Elements(lru)
  <2>1. \A k \in 1..m : r[k] \in Elements(r)
    BY <1>5 DEF Elements
  <2> QED
    BY <1>1, <2>1
<1>12. x0.host = h
  BY DEF x0
<1>13. Once(z)
  <2> SUFFICES ASSUME NEW j \in 1..c, NEW k \in 1..c, z[j].host = z[k].host PROVE j = k
    BY <1>9 DEF Once
  <2>1. CASE j = 1 \/ k = 1
    BY <1>10, <1>11, <1>12, <2>1
  <2>2. CASE j # 1 /\ k # 1
    <3>1. j - 1 \in 1..m /\ k - 1 \in 1..m /\ r[j - 1].host = r[k - 1].host
      BY <1>10, <2>2
    <3>2. j - 1 = k - 1
      BY <1>1, <1>5, <3>1 DEF Once
    <3> QED
      BY <1>6, <1>5, <3>2
  <2> QED
    BY <2>1, <2>2
<1>14. \A x \in Elements(z) : x = x0 \/ (x \in Elements(lru) /\ x.host # h)
  <2>1. \A x \in Elements(z) : \E i \in 1..c : x = z[i]
    BY <1>9 DEF Elements
  <2> QED
    BY <1>10, <1>11, <2>1
<1> QED
  BY <1>0, <1>8, <1>13, <1>14 DEF x0

\* An invalidation takes out what it concerns.
LEMMA DropIs ==
    ASSUME NEW lru \in Seq(Element), Once(lru), NEW x \in Hosts \union {Wild}
    PROVE  /\ DropLocal(lru, x) \in Seq(Element) /\ Once(DropLocal(lru, x))
           /\ Elements(DropLocal(lru, x)) = {y \in Elements(lru) : ~Concerns(x, y.host)}
<1>1. CASE x = Wild
  <2>1. DropLocal(lru, x) = <<>>
    BY <1>1 DEF DropLocal
  <2>2. <<>> \in Seq(Element) /\ Once(<<>>) /\ Elements(<<>>) = {}
    <3>1. <<>> \in Seq(Element) /\ DOMAIN <<>> = {}
      OBVIOUS
    <3> QED
      BY <3>1 DEF Once, Elements
  <2>3. \A y : Concerns(x, y.host)
    BY <1>1 DEF Concerns
  <2> QED
    BY <2>1, <2>2, <2>3
<1>2. CASE x # Wild
  <2>1. DropLocal(lru, x) = Remove(lru, x)
    BY <1>2 DEF DropLocal
  <2>2. \A y : Concerns(x, y.host) <=> y.host = x
    BY <1>2 DEF Concerns
  <2> QED
    BY <2>1, <2>2, RemoveIs
<1> QED
  BY <1>1, <1>2

-----------------------------------------------------------------------------
(* What the invariant says of its parts.                                   *)

\* The installation.
LEMMA SetupIs ==
    ASSUME TypeOK
    PROVE  /\ setup \in Setups /\ setup.hubs \subseteq Instances /\ setup.handlers \subseteq Admins
           /\ setup.rows \subseteq NewRow /\ setup.asked \subseteq Hosts
           /\ setup.writes \in 0..MaxVersion
           /\ \A i \in Instances : CacheOf(i) \in Caches
           /\ \A i, j : CacheOf(i) # CacheOf(j) => CacheOf(i) = i /\ i # j /\ ~UseRedis
<1>1. setup \in [hubs: SUBSET Instances, redis: BOOLEAN, asked: SUBSET Hosts,
                 handlers: SUBSET Admins, changes: SUBSET Changes, rows: SUBSET NewRow,
                 writes: 0..MaxVersion, slow: BOOLEAN]
  BY SetupsAssumption DEF TypeOK
<1> QED
  BY <1>1 DEF TypeOK, CacheOf, Caches

\* Values of the types.
LEMMA Blanks ==
    /\ NoRow.host = None /\ NoRow \notin Row
    /\ NoEntry.ttl = -2 /\ NoEntry \notin Entry
    /\ IdleRes \in Res /\ IdleRes.pc = "idle"
    /\ IdleAdm \in Adm /\ IdleAdm.pc = "idle" /\ IdleAdm.prev = None /\ IdleAdm.host = None
    /\ IdleAdm.row = NoRow
<1>1. NoRow.host = None /\ NoRow \notin Row
  <2>1. \A x \in Row : x.host \in Hosts \union {Wild}
    BY DEF Row
  <2>2. NoRow.host = None
    BY DEF NoRow
  <2> QED
    BY <2>1, <2>2, NamesAssumption, Zenon
<1>2. NoEntry.ttl = -2 /\ NoEntry \notin Entry
  BY DEF NoEntry, Entry
<1>3. IdleRes \in Res /\ IdleRes.pc = "idle"
  BY DEF IdleRes, Res
<1>4. /\ IdleAdm \in Adm /\ IdleAdm.pc = "idle" /\ IdleAdm.prev = None /\ IdleAdm.host = None
      /\ IdleAdm.row = NoRow
  BY DEF IdleAdm, Adm
<1> QED
  BY <1>1, <1>2, <1>3, <1>4

\* A handler that has changed nothing, or is done, has nothing to invalidate.
LEMMA NotDue ==
    ASSUME NEW a \in Admins, adm[a].pc \in {"idle", "write", "delete", "done"}
    PROVE  \A i, h : ~Due(a, i, h, BeforePublish) /\ ~Due(a, i, h, BeforeCompare)
BY DEF Due, First, Second, Beyond, BeforePublish, BeforeCompare, Applying

\* The routes of every host stay when the table does.
LEMMA RoutesStay ==
    ASSUME UNCHANGED services
    PROVE  \A h : RoutesOf(services, h)' = RoutesOf(services, h)
BY DEF RoutesOf, At

\* What does not depend on the handlers.
LEMMA AgesStay ==
    ASSUME AgesInStep, UNCHANGED <<services, shared, local, res, since>>
    PROVE  AgesInStep'
<1>0. \A h : RoutesOf(services, h)' = RoutesOf(services, h)
  BY RoutesStay
<1>1. \A c \in Caches, h \in Hosts : SharedAge(shared[c][h], h)'
  BY <1>0 DEF AgesInStep, SharedAge, Overdue, Valid, Current
<1>2. \A i \in Instances : \A x \in Held(i)' : LocalAge(x)'
  BY <1>0 DEF AgesInStep, LocalAge, Overdue, Valid, Current, Held, Elements
<1>3. \A r \in Resolvers : ResAge(r)'
  BY <1>0 DEF AgesInStep, ResAge, Outdated, Current
<1> QED
  BY <1>1, <1>2, <1>3 DEF AgesInStep, Held, Elements

\* A step of handler a that writes no row and drops nothing.
LEMMA HandlerMoves ==
    ASSUME RouteInv, NEW a \in Admins, NEW d \in Adm, AdmWhole(d), adm' = [adm EXCEPT ![a] = d],
           UNCHANGED <<setup, services, shared, local, res, lost, since>>,
           version' \in 0..MaxVersion, bus' \in [Instances -> Seq(Hosts \union {Wild})],
           missed' \in SUBSET Caches, missed \subseteq missed',
           \A i \in setup.hubs : CacheOf(i) \in missed' => i \in missed',
           \A i \in setup.hubs, h \in Hosts : Announced(i, h) => Announced(i, h)',
           \A i \in setup.hubs, h \in Hosts : CacheOf(i) \notin missed' /\ Due(a, i, h, BeforePublish)
               => Due(a, i, h, BeforePublish)',
           \A i \in setup.hubs, h \in Hosts : i \notin missed' /\ Due(a, i, h, BeforeCompare)
               => Due(a, i, h, BeforeCompare)' \/ Announced(i, h)'
    PROVE  RouteInv'
<1>0. TypeOK /\ Whole /\ AgesInStep /\ ChangesComing
  BY DEF RouteInv
<1>1. /\ adm \in [Admins -> Adm] /\ adm' \in [Admins -> Adm] /\ adm'[a] = d
      /\ \A b \in Admins : b # a => adm'[b] = adm[b]
  BY <1>0 DEF TypeOK
<1>2. TypeOK'
  BY <1>0, <1>1 DEF TypeOK
<1>3. Whole'
  BY <1>0, <1>1 DEF Whole, AdmWhole, ResWhole, Once
<1>4. AgesInStep'
  BY <1>0, AgesStay
<1>a. \A h : RoutesOf(services, h)' = RoutesOf(services, h)
  BY RoutesStay
<1>5. \A b \in Admins, i \in setup.hubs, h \in Hosts : b # a =>
         /\ Due(b, i, h, BeforePublish) => Due(b, i, h, BeforePublish)'
         /\ Due(b, i, h, BeforeCompare) => Due(b, i, h, BeforeCompare)'
  BY <1>1 DEF Due, First, Second, Beyond, Now, CacheOf, UseRedis
<1>6. \A i \in setup.hubs, h \in Hosts : CacheOf(i) \notin missed' /\ ToShared(i, h) => ToShared(i, h)'
  BY <1>5 DEF ToShared
<1>7. \A i \in setup.hubs, h \in Hosts : i \notin missed' /\ ToLocal(i, h) => ToLocal(i, h)' \/ Announced(i, h)'
  BY <1>5 DEF ToLocal
<1>8. ASSUME NEW i \in setup.hubs, NEW h \in Hosts, Tracked(h), CacheOf(i) \notin missed'
      PROVE  SharedComing(i, h)'
  <2>1. SharedComing(i, h)
    BY <1>0, <1>8 DEF ChangesComing
  <2> QED
    BY <1>6, <1>8, <1>a, <2>1 DEF SharedComing, Unseen, Valid, Current, Outdated, CacheOf, UseRedis
<1>9. ASSUME NEW i \in setup.hubs, NEW h \in Hosts, Tracked(h), i \notin missed'
      PROVE  LocalComing(i, h)'
  <2>1. LocalComing(i, h)
    BY <1>0, <1>9 DEF ChangesComing
  <2> QED
    BY <1>7, <1>9, <1>a, <2>1 DEF LocalComing, Unseen, Valid, Current, Held, Elements
<1>10. ChangesComing'
  <2>1. \A h : Tracked(h)' <=> Tracked(h)
    BY DEF Tracked
  <2>2. \A i : CacheOf(i)' = CacheOf(i)
    BY DEF CacheOf, UseRedis
  <2> QED
    BY <1>8, <1>9, <2>1, <2>2 DEF ChangesComing
<1> QED
  BY <1>2, <1>3, <1>4, <1>10 DEF RouteInv

\* The same for a step that only goes on.
LEMMA HandlerGoesOn ==
    ASSUME RouteInv, NEW a \in Admins, NEW d \in Adm, AdmWhole(d), adm' = [adm EXCEPT ![a] = d],
           UNCHANGED <<setup, services, shared, local, res, lost, since, bus, missed>>,
           version' \in 0..MaxVersion,
           \A i \in setup.hubs, h \in Hosts :
               /\ Due(a, i, h, BeforePublish) => Due(a, i, h, BeforePublish)'
               /\ Due(a, i, h, BeforeCompare) => Due(a, i, h, BeforeCompare)'
    PROVE  RouteInv'
<1>1. bus' \in [Instances -> Seq(Hosts \union {Wild})] /\ missed' \in SUBSET Caches
  BY DEF RouteInv, TypeOK
<1>2. \A i \in setup.hubs : CacheOf(i) \in missed' => i \in missed'
  BY DEF RouteInv, ChangesComing
<1>3. \A i \in setup.hubs, h \in Hosts : Announced(i, h) => Announced(i, h)'
  BY DEF Announced
<1> QED
  BY <1>1, <1>2, <1>3, HandlerMoves

\* The handlers load what they are going to change, or are done.
LEMMA LoadsKeep ==
    ASSUME RouteInv, NEW a \in Admins, NEW i \in setup.hubs, NEW s \in Services,
           (\E to \in setup.rows : LoadService(a, i, s, to)) \/ LoadForDelete(a, i, s) \/ Redeploy(a, i, s)
    PROVE  RouteInv'
<1>0. TypeOK /\ services[s] \in Row \union {NoRow} /\ version \in 0..MaxVersion
  BY DEF RouteInv, TypeOK
<1>1. i \in Instances /\ setup.writes \in 0..MaxVersion
  BY <1>0, SetupIs
<1>2. /\ UNCHANGED <<setup, services, shared, local, res, lost, since, bus, missed>>
      /\ adm[a].pc = "idle"
  BY DEF LoadService, LoadForDelete, Redeploy
<1>3. \A j, h : ~Due(a, j, h, BeforePublish) /\ ~Due(a, j, h, BeforeCompare)
  BY <1>2, NotDue
<1>4. ASSUME NEW to \in setup.rows, LoadService(a, i, s, to) PROVE RouteInv'
  <2>0. to \in NewRow
    BY <1>0, SetupIs
  <2> DEFINE d == [pc |-> "write", inst |-> i, id |-> s,
                 row |-> [to EXCEPT !.ver = version + 1], prev |-> services[s].host, host |-> None]
  <2>1. version < setup.writes /\ version' = version + 1 /\ services[s] # NoRow /\ adm' = [adm EXCEPT ![a] = d]
    BY <1>4 DEF LoadService
  <2>2. version' \in 0..MaxVersion
    <3> DEFINE w == setup.writes
    <3>1. w \in 0..MaxVersion /\ version < w
      BY <1>1, <2>1
    <3> HIDE DEF w
    <3>2. \A v \in 0..MaxVersion : v < w => v + 1 \in 0..MaxVersion
      BY <3>1
    <3> QED
      BY <1>0, <2>1, <3>1, <3>2
  <2>3. [to EXCEPT !.ver = version + 1] \in Row /\ services[s].host \in Hosts \union {Wild}
    BY <1>0, <2>0, <2>1, <2>2 DEF NewRow, Row
  <2>4. d \in Adm
    BY <1>1, <2>3 DEF Adm
  <2>5. AdmWhole(d)
    BY DEF AdmWhole, Applying
  <2> HIDE DEF d
  <2> QED
    BY <1>2, <1>3, <2>1, <2>2, <2>4, <2>5, HandlerGoesOn
<1>5. CASE LoadForDelete(a, i, s)
  <2> DEFINE d == [IdleAdm EXCEPT !.pc = "delete", !.inst = i, !.id = s, !.host = services[s].host]
  <2>1. services[s] # NoRow /\ adm' = [adm EXCEPT ![a] = d] /\ version' = version
    BY <1>5 DEF LoadForDelete
  <2>2. services[s].host \in Hosts \union {Wild}
    BY <1>0, <2>1 DEF Row
  <2>3. d \in Adm /\ AdmWhole(d)
    BY <1>1, <2>2 DEF Adm, AdmWhole, IdleAdm, Applying
  <2> HIDE DEF d
  <2> QED
    BY <1>0, <1>2, <1>3, <2>1, <2>3, HandlerGoesOn
<1>6. CASE Redeploy(a, i, s)
  <2> DEFINE d == [IdleAdm EXCEPT !.pc = "apRoute", !.inst = i, !.id = s]
  <2>1. adm' = [adm EXCEPT ![a] = d] /\ version' = version
    BY <1>6 DEF Redeploy
  <2>2. d \in Adm /\ AdmWhole(d)
    BY <1>1 DEF Adm, AdmWhole, IdleAdm, Applying
  <2> HIDE DEF d
  <2> QED
    BY <1>0, <1>2, <1>3, <2>1, <2>2, HandlerGoesOn
<1> QED
  BY <1>4, <1>5, <1>6

\* A handler that is done.
LEMMA ChangeDoneKeeps == ASSUME RouteInv, NEW a \in Admins, ChangeDone(a) PROVE RouteInv'
<1>1. /\ adm' = [adm EXCEPT ![a] = IdleAdm] /\ adm[a].pc = "done"
      /\ UNCHANGED <<setup, services, version, shared, local, res, lost, since, bus, missed>>
  BY DEF ChangeDone
<1>2. IdleAdm \in Adm /\ AdmWhole(IdleAdm)
  BY Blanks DEF AdmWhole
<1>3. version \in 0..MaxVersion
  BY DEF RouteInv, TypeOK
<1>4. \A j, h : ~Due(a, j, h, BeforePublish) /\ ~Due(a, j, h, BeforeCompare)
  BY <1>1, NotDue
<1> QED
  BY <1>1, <1>2, <1>3, <1>4, HandlerGoesOn

\* A handler under way.
LEMMA HandlerIs ==
    ASSUME RouteInv, NEW a \in Admins, adm[a].pc \notin {"idle", "done"}
    PROVE  /\ TypeOK /\ adm[a] \in Adm /\ AdmWhole(adm[a]) /\ version \in 0..MaxVersion
           /\ adm[a].inst \in setup.hubs /\ adm[a].inst \in Instances
           /\ adm[a].id \in Services /\ services[adm[a].id] \in Row \union {NoRow}
           /\ adm[a].pc \in Applying \union {"delete"} => adm[a].host \in Hosts \union {Wild}
           /\ adm[a].pc = "compare" => adm[a].prev # None
           /\ adm[a].prev \in Hosts \union {Wild, None} /\ adm[a].row \in Row \union {NoRow}
<1>1. TypeOK /\ AdmWhole(adm[a]) /\ adm[a] \in Adm /\ version \in 0..MaxVersion
  BY DEF RouteInv, Whole, TypeOK
<1>2. /\ adm[a].inst \in setup.hubs /\ adm[a].id \in Services
      /\ adm[a].pc \in Applying \union {"delete"} => adm[a].host \in Hosts \union {Wild}
      /\ adm[a].pc = "compare" => adm[a].prev # None
  BY <1>1 DEF AdmWhole
<1>3. services[adm[a].id] \in Row \union {NoRow}
  BY <1>1, <1>2 DEF TypeOK
<1>4. setup.hubs \subseteq Instances
  BY <1>1, SetupIs
<1>5. adm[a].prev \in Hosts \union {Wild, None} /\ adm[a].row \in Row \union {NoRow}
  BY <1>1 DEF Adm
<1> QED
  BY <1>1, <1>2, <1>3, <1>4, <1>5

\* ApplyServiceChange reads the host to invalidate, then the row.
LEMMA ApplyReadsKeep ==
    ASSUME RouteInv, NEW a \in Admins, ApplyRoute(a) \/ ApplyRead(a) PROVE RouteInv'
<1>0. adm[a].pc \in {"apRoute", "apRead"}
  BY DEF ApplyRoute, ApplyRead
<1>1. /\ TypeOK /\ adm[a] \in Adm /\ adm[a].inst \in setup.hubs /\ adm[a].id \in Services
      /\ services[adm[a].id] \in Row \union {NoRow} /\ version \in 0..MaxVersion
      /\ adm[a].pc \in Applying => adm[a].host \in Hosts \union {Wild}
  BY <1>0, HandlerIs
<1>2. CASE ApplyRoute(a)
  <2> DEFINE x == services[adm[a].id].host
             d == [adm[a] EXCEPT !.pc = "apRead", !.host = x]
  <2>1. /\ adm[a].pc = "apRoute" /\ services[adm[a].id] # NoRow /\ adm' = [adm EXCEPT ![a] = d]
        /\ UNCHANGED <<setup, services, version, shared, local, bus, res, missed, lost, since>>
    BY <1>2 DEF ApplyRoute
  <2>2. x \in Hosts \union {Wild}
    BY <1>1, <2>1 DEF Row
  <2>3. d \in Adm
    BY <1>1, <2>2 DEF Adm
  <2>4. /\ d.pc = "apRead" /\ d.host = x /\ d.inst = adm[a].inst /\ d.id = adm[a].id
        /\ d.prev = adm[a].prev
    BY <1>1 DEF Adm
  <2>5. AdmWhole(d)
    BY <1>1, <2>2, <2>4 DEF AdmWhole
  <2>6. adm'[a] = d
    BY <1>1, <2>1 DEF TypeOK
  <2> HIDE DEF d
  <2>7. ASSUME NEW i \in setup.hubs, NEW h \in Hosts, NEW before, "apRead" \in before,
               "apRoute" \notin before, Due(a, i, h, before)
        PROVE  Due(a, i, h, before)'
    <3>1. CASE Concerns(x, h)
      BY <2>4, <2>6, <2>7, <3>1 DEF Due, First, Concerns
    <3>2. CASE Second(a, h) /\ ~Concerns(x, h)
      <4>1. adm[a].prev # x /\ Concerns(adm[a].prev, h)
        BY <3>2 DEF Second
      <4>2. Now(a)' = x
        BY <2>1, <2>4, <2>6 DEF Now
      <4>3. Second(a, h)'
        BY <2>4, <2>6, <4>1, <4>2 DEF Second, Applying, Concerns
      <4> QED
        BY <4>3 DEF Due
    <3>3. CASE Beyond(a, i)
      BY <2>1, <2>4, <2>6, <3>3 DEF Due, Beyond, Applying, CacheOf, UseRedis
    <3>4. Concerns(x, h) \/ Second(a, h) \/ Beyond(a, i)
      BY <2>1, <2>7 DEF Due, First
    <3> QED
      BY <3>1, <3>2, <3>3, <3>4
  <2>8. /\ "apRead" \in BeforePublish /\ "apRead" \in BeforeCompare
        /\ "apRoute" \notin BeforePublish /\ "apRoute" \notin BeforeCompare
    BY DEF BeforePublish, BeforeCompare
  <2> QED
    BY <1>1, <2>1, <2>3, <2>5, <2>7, <2>8, HandlerGoesOn
<1>3. CASE ApplyRead(a)
  <2> DEFINE d == [adm[a] EXCEPT !.pc = "apSave", !.row = services[adm[a].id]]
  <2>1. /\ adm[a].pc = "apRead" /\ adm' = [adm EXCEPT ![a] = d]
        /\ UNCHANGED <<setup, services, version, shared, local, bus, res, missed, lost, since>>
    BY <1>3 DEF ApplyRead
  <2>2. d \in Adm
    BY <1>1 DEF Adm
  <2>3. /\ d.pc = "apSave" /\ d.host = adm[a].host /\ d.inst = adm[a].inst /\ d.id = adm[a].id
        /\ d.prev = adm[a].prev
    BY <1>1 DEF Adm
  <2>4. AdmWhole(d)
    BY <1>1, <2>1, <2>3 DEF AdmWhole, Applying
  <2>5. adm'[a] = d
    BY <1>1, <2>1 DEF TypeOK
  <2> HIDE DEF d
  <2>6. \A i \in setup.hubs, h \in Hosts :
          /\ Due(a, i, h, BeforePublish) => Due(a, i, h, BeforePublish)'
          /\ Due(a, i, h, BeforeCompare) => Due(a, i, h, BeforeCompare)'
    BY <2>1, <2>3, <2>5 DEF Due, First, Second, Beyond, Now, BeforePublish, BeforeCompare, Applying,
                            CacheOf, UseRedis, Concerns
  <2> QED
    BY <1>1, <2>1, <2>2, <2>4, <2>6, HandlerGoesOn
<1> QED
  BY <1>2, <1>3

\* handleUpdateService compares the host the service had.
LEMMA ComparePreviousKeeps ==
    ASSUME RouteInv, NEW a \in Admins, ComparePrevious(a) PROVE RouteInv'
<1>0. adm[a].pc = "compare"
  BY DEF ComparePrevious
<1>1. /\ TypeOK /\ adm[a] \in Adm /\ adm[a].inst \in setup.hubs /\ adm[a].id \in Services
      /\ version \in 0..MaxVersion /\ adm[a].prev # None
      /\ adm[a].host \in Hosts \union {Wild} /\ adm[a].prev \in Hosts \union {Wild, None}
      /\ adm[a].inst \in Instances
  BY <1>0, HandlerIs DEF Applying
<1> DEFINE d == IF Now(a) # adm[a].prev
                THEN [adm[a] EXCEPT !.pc = "invLocal", !.host = adm[a].prev, !.prev = None]
                ELSE [IdleAdm EXCEPT !.pc = "done", !.inst = adm[a].inst]
<1>2. /\ adm' = [adm EXCEPT ![a] = d]
      /\ UNCHANGED <<setup, services, version, shared, local, bus, res, missed, lost, since>>
  BY DEF ComparePrevious, Now
<1>3. d \in Adm
  BY <1>1 DEF Adm, IdleAdm, Row
<1>4. Now(a) # adm[a].prev => /\ d.pc = "invLocal" /\ d.host = adm[a].prev /\ d.inst = adm[a].inst
                              /\ d.id = adm[a].id
  BY <1>1 DEF Adm
<1>5. Now(a) = adm[a].prev => d.pc = "done"
  BY DEF IdleAdm
<1>6. AdmWhole(d)
  BY <1>1, <1>4, <1>5 DEF AdmWhole
<1>7. adm'[a] = d
  BY <1>1, <1>2 DEF TypeOK
<1> HIDE DEF d
<1>8. ASSUME NEW i \in setup.hubs, NEW h \in Hosts, NEW before, "invLocal" \in before,
             "compare" \notin before, Due(a, i, h, before)
      PROVE  Due(a, i, h, before)'
  <2>1. Second(a, h)
    BY <1>0, <1>8 DEF Due, First, Beyond
  <2>2. Now(a) # adm[a].prev /\ Concerns(adm[a].prev, h)
    BY <1>0, <2>1 DEF Second
  <2> QED
    BY <1>4, <1>7, <1>8, <2>2 DEF Due, First, Concerns
<1>9. /\ "invLocal" \in BeforePublish /\ "invLocal" \in BeforeCompare
      /\ "compare" \notin BeforePublish /\ "compare" \notin BeforeCompare
  BY DEF BeforePublish, BeforeCompare
<1> QED
  BY <1>1, <1>2, <1>3, <1>6, <1>8, <1>9, HandlerGoesOn

\* A handler gives up.
LEMMA ChangeFailsKeeps ==
    ASSUME RouteInv, NEW a \in Admins, ChangeFails(a) PROVE RouteInv'
<1>0. /\ adm' = [adm EXCEPT ![a] = IdleAdm]
      /\ UNCHANGED <<setup, services, version, shared, local, bus, res, lost, since>>
      /\ missed' = missed \union (IF adm[a].pc \in {"write", "delete"} THEN {}
                                  ELSE setup.hubs \union {CacheOf(i) : i \in setup.hubs})
  BY DEF ChangeFails
<1>1. IdleAdm \in Adm /\ AdmWhole(IdleAdm)
  BY Blanks DEF AdmWhole
<1>2. /\ TypeOK /\ version \in 0..MaxVersion /\ bus \in [Instances -> Seq(Hosts \union {Wild})]
      /\ missed \in SUBSET Caches
  BY DEF RouteInv, TypeOK
<1>3. \A i \in setup.hubs, h \in Hosts : Announced(i, h) => Announced(i, h)'
  BY <1>0 DEF Announced
<1>4. CASE adm[a].pc \in {"write", "delete"}
  <2>1. \A i, h : ~Due(a, i, h, BeforePublish) /\ ~Due(a, i, h, BeforeCompare)
    BY <1>4, NotDue
  <2> QED
    BY <1>0, <1>1, <1>2, <1>4, <2>1, HandlerGoesOn
<1>5. CASE adm[a].pc \notin {"write", "delete"}
  <2>1. missed' = missed \union (setup.hubs \union {CacheOf(i) : i \in setup.hubs})
    BY <1>0, <1>5
  <2>2. missed' \in SUBSET Caches
    BY <1>2, <2>1, SetupIs DEF Caches
  <2> QED
    BY <1>0, <1>1, <1>2, <1>3, <2>1, <2>2, HandlerMoves
<1> QED
  BY <1>4, <1>5

\* What comes after an announcement.
LEMMA PublishedIs ==
    ASSUME RouteInv, NEW a \in Admins, adm[a].pc = "publish", Published(a), setup' = setup,
           services' = services
    PROVE  \E d \in Adm :
             /\ adm' = [adm EXCEPT ![a] = d] /\ AdmWhole(d)
             /\ \A i : \A h \in Hosts :
                  Second(a, h) => Due(a, i, h, BeforePublish)' /\ Due(a, i, h, BeforeCompare)'
<1>1. /\ TypeOK /\ adm[a] \in Adm /\ adm[a].inst \in setup.hubs /\ adm[a].id \in Services
      /\ adm[a].host \in Hosts \union {Wild} /\ adm[a].inst \in Instances
  BY HandlerIs DEF Applying
<1> DEFINE d == IF adm[a].prev # None THEN [adm[a] EXCEPT !.pc = "compare"]
                ELSE [IdleAdm EXCEPT !.pc = "done", !.inst = adm[a].inst]
<1>2. adm' = [adm EXCEPT ![a] = d]
  BY DEF Published
<1>3. d \in Adm
  BY <1>1 DEF Adm, IdleAdm
<1>4. /\ adm[a].prev # None => /\ d.pc = "compare" /\ d.host = adm[a].host /\ d.inst = adm[a].inst
                               /\ d.id = adm[a].id /\ d.prev = adm[a].prev
      /\ adm[a].prev = None => d.pc = "done"
  BY <1>1 DEF Adm, IdleAdm
<1>5. AdmWhole(d)
  BY <1>1, <1>4 DEF AdmWhole
<1>6. adm'[a] = d
  BY <1>1, <1>2 DEF TypeOK
<1> HIDE DEF d
<1>7. ASSUME NEW i, NEW h \in Hosts, Second(a, h)
      PROVE  Due(a, i, h, BeforePublish)' /\ Due(a, i, h, BeforeCompare)'
  <2>1. CASE adm[a].prev # None
    <3>1. Second(a, h)'
      BY <1>4, <1>6, <1>7, <2>1 DEF Second, Now, Applying, Concerns
    <3> QED
      BY <3>1 DEF Due
  <2>2. CASE adm[a].prev = None
    BY <1>7, <2>2, <1>1 DEF Second, Concerns
  <2> QED
    BY <2>1, <2>2
<1> QED
  BY <1>2, <1>3, <1>5, <1>7

\* A host put on the bus of an instance is announced there.
LEMMA AppendAnnounces ==
    ASSUME NEW i, bus[i] \in Seq(Hosts \union {Wild}), NEW x \in Hosts \union {Wild},
           bus'[i] = bus[i] \/ bus'[i] = Append(bus[i], x)
    PROVE  /\ bus'[i] \in Seq(Hosts \union {Wild})
           /\ \A h : Announced(i, h) => Announced(i, h)'
           /\ bus'[i] = Append(bus[i], x) => \A h : Concerns(x, h) => Announced(i, h)'
<1>1. CASE bus'[i] = Append(bus[i], x)
  <2> DEFINE t == Append(bus[i], x)
             n == Len(bus[i])
  <2>1. t \in Seq(Hosts \union {Wild}) /\ Len(t) = n + 1 /\ t[n + 1] = x /\ \A k \in 1..n : t[k] = bus[i][k]
    BY AppendProperties
  <2>2. n \in Nat /\ DOMAIN bus[i] = 1..n
    BY LenProperties
  <2>3. DOMAIN t = 1..n + 1
    BY <2>1, LenProperties
  <2> HIDE DEF t, n
  <2>4. n + 1 \in 1..n + 1 /\ \A k \in 1..n : k \in 1..n + 1
    BY <2>2
  <2>5. bus'[i] = t
    BY <1>1 DEF t
  <2>6. \A h : Announced(i, h) => Announced(i, h)'
    BY <2>1, <2>2, <2>3, <2>4, <2>5 DEF Announced, Concerns
  <2>7. \A h : Concerns(x, h) => Announced(i, h)'
    BY <2>1, <2>3, <2>4, <2>5 DEF Announced, Concerns
  <2> QED
    BY <2>1, <2>5, <2>6, <2>7
<1>2. CASE bus'[i] = bus[i] /\ bus'[i] # Append(bus[i], x)
  BY <1>2 DEF Announced, Concerns
<1> QED
  BY <1>1, <1>2

\* PublishRouteChanged, on either bus.
LEMMA PublishKeeps ==
    ASSUME RouteInv, NEW a \in Admins, PublishMemory(a) \/ PublishRedis(a) PROVE RouteInv'
<1> DEFINE x == adm[a].host
           j == adm[a].inst
<1>0. /\ adm[a].pc = "publish" /\ Published(a)
      /\ UNCHANGED <<setup, services, version, shared, local, res, lost, since>>
  BY DEF PublishMemory, PublishRedis
<1>1. /\ TypeOK /\ j \in setup.hubs /\ j \in Instances /\ version \in 0..MaxVersion
      /\ x \in Hosts \union {Wild}
  BY <1>0, HandlerIs DEF Applying
<1>2. /\ bus \in [Instances -> Seq(Hosts \union {Wild})] /\ missed \in SUBSET Caches
      /\ setup.hubs \subseteq Instances
  BY <1>1, SetupIs DEF TypeOK
<1>3. /\ DOMAIN bus' = Instances /\ bus' = [i \in Instances |-> bus'[i]]
      /\ \E got \in SUBSET Instances :
           /\ \A i \in Instances : bus'[i] = IF i \in got THEN Append(bus[i], x) ELSE bus[i]
           /\ missed' = missed \union (setup.hubs \ got)
           /\ ~UseRedis => got \subseteq {j}
  <2>1. CASE PublishMemory(a)
    <3> DEFINE got == {i \in {j} : Len(bus[i]) < BusCapacity}
    <3>1. /\ bus' = [bus EXCEPT ![j] = IF Len(@) < BusCapacity THEN Append(@, x) ELSE @]
          /\ missed' = missed \union (setup.hubs \ got)
      BY <2>1 DEF PublishMemory
    <3>2. \A i \in Instances : bus'[i] = IF i \in got THEN Append(bus[i], x) ELSE bus[i]
      BY <1>1, <1>2, <3>1
    <3>3. DOMAIN bus' = Instances /\ bus' = [i \in Instances |-> bus'[i]]
      BY <1>2, <3>1
    <3>4. got \in SUBSET Instances /\ got \subseteq {j}
      BY <1>1
    <3> HIDE DEF got
    <3> QED
      BY <3>1, <3>2, <3>3, <3>4
  <2>2. CASE PublishRedis(a)
    <3>1. PICK got \in SUBSET {i \in setup.hubs : Len(bus[i]) < BusCapacity} :
            /\ bus' = [i \in Instances |-> IF i \in got THEN Append(bus[i], adm[a].host) ELSE bus[i]]
            /\ missed' = missed \union (setup.hubs \ got)
      BY <2>2 DEF PublishRedis
    <3>2. UseRedis
      BY <2>2 DEF PublishRedis
    <3>3. got \in SUBSET Instances
      BY <1>2
    <3> QED
      BY <3>1, <3>2, <3>3
  <2> QED
    BY <2>1, <2>2
<1>4. PICK got \in SUBSET Instances :
           /\ \A i \in Instances : bus'[i] = IF i \in got THEN Append(bus[i], x) ELSE bus[i]
           /\ missed' = missed \union (setup.hubs \ got)
           /\ ~UseRedis => got \subseteq {j}
  BY <1>3
<1>5. \A i \in Instances :
        /\ bus'[i] \in Seq(Hosts \union {Wild})
        /\ \A h : Announced(i, h) => Announced(i, h)'
        /\ i \in got => \A h : Concerns(x, h) => Announced(i, h)'
  <2> SUFFICES ASSUME NEW i \in Instances
               PROVE  /\ bus'[i] \in Seq(Hosts \union {Wild})
                      /\ \A h : Announced(i, h) => Announced(i, h)'
                      /\ i \in got => \A h : Concerns(x, h) => Announced(i, h)'
    OBVIOUS
  <2>1. bus[i] \in Seq(Hosts \union {Wild})
    BY <1>2
  <2>2. bus'[i] = bus[i] \/ bus'[i] = Append(bus[i], x)
    BY <1>4
  <2>3. i \in got => bus'[i] = Append(bus[i], x)
    BY <1>4
  <2> HIDE DEF x
  <2> QED
    BY <1>1, <2>1, <2>2, <2>3, AppendAnnounces
<1>6. bus' \in [Instances -> Seq(Hosts \union {Wild})]
  BY <1>3, <1>5
<1>7. missed' \in SUBSET Caches /\ missed \subseteq missed'
  BY <1>2, <1>4 DEF Caches
<1>8. \A i \in setup.hubs : CacheOf(i) \in missed' => i \in missed'
  <2>1. \A i \in setup.hubs : CacheOf(i) \in missed => i \in missed
    BY DEF RouteInv, ChangesComing
  <2> SUFFICES ASSUME NEW i \in setup.hubs, CacheOf(i) \in missed', CacheOf(i) \notin missed
               PROVE  i \in missed'
    BY <1>7, <2>1
  <2>2. CacheOf(i) \in setup.hubs \ got
    BY <1>4
  <2> QED
    BY <1>2, <1>4, <2>2 DEF CacheOf
<1>9. \A i \in setup.hubs : Beyond(a, i) => i \in missed' /\ CacheOf(i) \in missed'
  <2> SUFFICES ASSUME NEW i \in setup.hubs, Beyond(a, i) PROVE i \in missed' /\ CacheOf(i) \in missed'
    OBVIOUS
  <2>1. CacheOf(j) # CacheOf(i)
    BY DEF Beyond
  <2>2. ~UseRedis /\ i # j /\ CacheOf(i) = i
    BY <2>1 DEF CacheOf
  <2> QED
    BY <1>4, <2>2
<1>10. PICK d \in Adm :
         /\ adm' = [adm EXCEPT ![a] = d] /\ AdmWhole(d)
         /\ \A i : \A h \in Hosts :
              Second(a, h) => Due(a, i, h, BeforePublish)' /\ Due(a, i, h, BeforeCompare)'
  BY <1>0, PublishedIs
<1>11. \A i \in setup.hubs, h \in Hosts : CacheOf(i) \notin missed' /\ Due(a, i, h, BeforePublish)
         => Due(a, i, h, BeforePublish)'
  <2>1. \A h : ~First(a, h, BeforePublish)
    BY <1>0 DEF First, BeforePublish
  <2> SUFFICES ASSUME NEW i \in setup.hubs, NEW h \in Hosts, CacheOf(i) \notin missed', Due(a, i, h, BeforePublish)
               PROVE  Due(a, i, h, BeforePublish)'
    OBVIOUS
  <2>2. Second(a, h)
    BY <1>9, <2>1 DEF Due
  <2> QED
    BY <1>10, <2>2
<1>12. \A i \in setup.hubs, h \in Hosts : i \notin missed' /\ Due(a, i, h, BeforeCompare)
         => Due(a, i, h, BeforeCompare)' \/ Announced(i, h)'
  <2> SUFFICES ASSUME NEW i \in setup.hubs, NEW h \in Hosts, i \notin missed', Due(a, i, h, BeforeCompare)
               PROVE  Due(a, i, h, BeforeCompare)' \/ Announced(i, h)'
    OBVIOUS
  <2>1. i \in got /\ i \in Instances
    BY <1>2, <1>4
  <2>2. Second(a, h) \/ Concerns(x, h)
    BY <1>0, <1>9 DEF Due, First
  <2> QED
    BY <1>5, <1>10, <2>1, <2>2
<1> QED
  BY <1>0, <1>1, <1>5, <1>2, <1>6, <1>7, <1>8, <1>10, <1>11, <1>12, HandlerMoves

-----------------------------------------------------------------------------
(* Writes of rows.                                                         *)

\* Replacing a row may change routes at its old and its new host.
Touches(s, row, h) == Concerns(services[s].host, h) \/ Concerns(row.host, h)

\* The routes of every other host stay.
LEMMA Untouched ==
    ASSUME TypeOK, NEW s \in Services, NEW row, NEW h, ~Touches(s, row, h),
           services' = [services EXCEPT ![s] = row]
    PROVE  RoutesOf(services, h)' = RoutesOf(services, h)
<1>1. /\ \A q \in Services : q # s => services'[q] = services[q]
      /\ services'[s] = row
  BY DEF TypeOK
<1>2. /\ services[s].host # h /\ services[s].host # Wild
      /\ row.host # h /\ row.host # Wild
  BY DEF Touches, Concerns
<1>3. ASSUME NEW x \in {h, Wild} PROVE At(services', x) = At(services, x)
  <2>1. {q \in Services : services'[q].host = x /\ services'[q].enabled}
          = {q \in Services : services[q].host = x /\ services[q].enabled}
    BY <1>1, <1>2
  <2>2. \A q \in Services : services[q].host = x => services'[q] = services[q]
    BY <1>1, <1>2
  <2> QED
    BY <2>1, <2>2 DEF At
<1> QED
  BY <1>3 DEF RoutesOf, At

\* What a handler is going to invalidate does not change by a write of
\* another one but at the hosts that write touches.
LEMMA StillDue ==
    ASSUME TypeOK, NEW s \in Services, NEW row, NEW b \in Admins,
           services' = [services EXCEPT ![s] = row], UNCHANGED setup,
           adm[b].pc \notin {"idle", "done"} => adm[b].id \in Services,
           adm'[b].pc = adm[b].pc \/ (adm[b].pc = "apSave" /\ adm'[b].pc = "invLocal"),
           adm'[b].inst = adm[b].inst, adm'[b].id = adm[b].id, adm'[b].prev = adm[b].prev,
           adm'[b].host = adm[b].host,
           NEW i, NEW h, row = services[s] \/ ~Touches(s, row, h),
           NEW before, before \in {BeforePublish, BeforeCompare}, Due(b, i, h, before)
    PROVE  Due(b, i, h, before)'
<1>1. /\ \A q \in Services : q # s => services'[q] = services[q]
      /\ services'[s] = row
  BY DEF TypeOK
<1>0. adm[b].pc \notin {"idle", "done"}
  BY DEF Due, First, Second, Beyond, BeforePublish, BeforeCompare, Applying
<1>2. CASE First(b, h, before)
  <2>1. CASE adm[b].pc = "apRoute"
    <3>0. "apRoute" \notin before
      BY DEF BeforePublish, BeforeCompare
    <3>1. Concerns(services[adm[b].id].host, h)
      BY <1>2, <2>1, <3>0 DEF First
    <3>2. services'[adm[b].id] = services[adm[b].id]
      BY <1>0, <1>1, <3>1 DEF Touches
    <3>3. adm'[b].pc = "apRoute"
      BY <2>1
    <3>4. First(b, h, before)'
      BY <3>1, <3>2, <3>3 DEF First, Concerns
    <3> QED
      BY <3>4 DEF Due
  <2>2. CASE adm[b].pc # "apRoute"
    <3>1. adm[b].pc \in before /\ Concerns(adm[b].host, h)
      BY <1>2, <2>2 DEF First
    <3>2. adm'[b].pc \in before
      BY <3>1 DEF BeforePublish, BeforeCompare
    <3>3. First(b, h, before)'
      BY <3>1, <3>2 DEF First, Concerns
    <3> QED
      BY <3>3 DEF Due
  <2> QED
    BY <2>1, <2>2
<1>3. CASE Second(b, h)
  <2>1. CASE adm[b].pc = "apRoute"
    <3>1. Second(b, h)'
      BY <1>3, <2>1 DEF Second, Concerns
    <3> QED
      BY <3>1 DEF Due
  <2>2. CASE adm[b].pc # "apRoute"
    <3>1. /\ adm[b].pc \in Applying /\ adm[b].prev # adm[b].host /\ adm[b].prev # Now(b)
          /\ Concerns(adm[b].prev, h)
      BY <1>3, <2>2 DEF Second
    <3>2. adm'[b].pc \in Applying
      BY <3>1 DEF Applying
    <3>3. Now(b)' # adm[b].prev
      <4>1. CASE adm[b].id = s /\ row # services[s]
        <5>1. row.host # adm[b].prev
          BY <3>1, <4>1 DEF Touches
        <5> QED
          BY <1>1, <3>1, <4>1, <5>1 DEF Now
      <4>2. CASE services'[adm[b].id] = services[adm[b].id]
        BY <3>1, <4>2 DEF Now
      <4> QED
        BY <1>0, <1>1, <4>1, <4>2
    <3>4. Second(b, h)'
      BY <3>1, <3>2, <3>3 DEF Second, Concerns
    <3> QED
      BY <3>4 DEF Due
  <2> QED
    BY <2>1, <2>2
<1>4. CASE Beyond(b, i)
  <2>1. Beyond(b, i)'
    BY <1>4 DEF Beyond, Applying, CacheOf, UseRedis
  <2> QED
    BY <2>1 DEF Due
<1> QED
  BY <1>2, <1>3, <1>4 DEF Due

\* How far ages are from each other is kept by a write.
LEMMA AgesWritten ==
    ASSUME TypeOK, AgesInStep, UNCHANGED <<shared, local, res>>,
           since' = [h \in Hosts |-> IF RoutesOf(services, h)' = RoutesOf(services, h) THEN since[h] ELSE 0],
           \A r \in Resolvers : ResWhole(res[r])
    PROVE  AgesInStep'
<1>1. \A h \in Hosts : \/ since'[h] = since[h] /\ RoutesOf(services, h)' = RoutesOf(services, h)
                       \/ since'[h] = 0
  OBVIOUS
<1>2. ASSUME NEW c \in Caches, NEW h \in Hosts PROVE SharedAge(shared[c][h], h)'
  <2> DEFINE e == shared[c][h]
  <2>1. SharedAge(e, h)
    BY DEF AgesInStep
  <2>2. e.ttl <= SharedTTL /\ e.ttl \in Int
    BY <2>1 DEF SharedAge, TypeOK, Entry, NoEntry
  <2>3. e' = e
    OBVIOUS
  <2> HIDE DEF e
  <2>4. CASE since'[h] = since[h] /\ RoutesOf(services, h)' = RoutesOf(services, h)
    BY <2>1, <2>3, <2>4 DEF SharedAge, Overdue, Valid, Current, e
  <2>5. CASE since'[h] = 0
    <3>1. since'[h] + e.ttl <= SharedTTL
      BY <2>2, <2>5
    <3> QED
      BY <2>2, <2>3, <3>1 DEF SharedAge, e
  <2> QED
    BY <1>1, <2>4, <2>5
<1>3. ASSUME NEW i \in Instances, NEW x \in Held(i) PROVE LocalAge(x)'
  <2>1. LocalAge(x)
    BY DEF AgesInStep
  <2>2. x \in Element
    BY Positions DEF TypeOK, Held
  <2>3. x.host \in Hosts /\ x.entry.ttl \in Int
    BY <2>2 DEF Element, Entry
  <2> DEFINE e == x.entry
             h == x.host
  <2>4. CASE since'[h] = since[h] /\ RoutesOf(services, h)' = RoutesOf(services, h)
    BY <2>1, <2>4 DEF LocalAge, Overdue, Valid, Current
  <2>5. CASE since'[h] = 0
    <3>0. e.ttl <= LocalTTL
      BY <2>1 DEF LocalAge
    <3> HIDE DEF e, h
    <3>1. e.ttl \in Int
      BY <2>3 DEF e
    <3>2. since'[h] + e.ttl <= SharedTTL + LocalTTL
      BY <2>5, <3>0, <3>1
    <3> QED
      BY <3>0, <3>2 DEF LocalAge, e, h
  <2> QED
    BY <1>1, <2>3, <2>4, <2>5
<1>4. ASSUME NEW r \in Resolvers PROVE ResAge(r)'
  <2> SUFFICES ASSUME Outdated(r)', ~res[r].entry.slow
               PROVE  since'[res[r].host] <= IF res[r].pc = "setShared" THEN 0 ELSE SharedTTL
    BY DEF ResAge
  <2> DEFINE h == res[r].host
  <2>1. h \in Hosts /\ res[r].pc \in {"setShared", "add"}
    BY DEF Outdated, ResWhole
  <2>2. CASE since'[h] = since[h] /\ RoutesOf(services, h)' = RoutesOf(services, h)
    <3>1. Outdated(r)
      BY <2>2 DEF Outdated, Current
    <3> QED
      BY <2>2, <3>1 DEF AgesInStep, ResAge
  <2>3. CASE since'[h] = 0
    BY <2>3
  <2> QED
    BY <1>1, <2>1, <2>2, <2>3
<1> QED
  BY <1>2, <1>3, <1>4 DEF AgesInStep, Held, Elements

\* A step of handler a that writes a row and is going to invalidate the hosts
\* it knows of.
LEMMA ServiceWritten ==
    ASSUME RouteInv, NEW a \in Admins, NEW s \in Services, NEW row \in Row \union {NoRow}, NEW known,
           WriteService(s, row, known),
           NEW d \in Adm, AdmWhole(d), adm' = [adm EXCEPT ![a] = d],
           UNCHANGED <<setup, shared, local, bus, res, missed>>, version' \in 0..MaxVersion,
           \A i \in setup.hubs, h \in Hosts, x \in known :
               Concerns(x, h) => Due(a, i, h, BeforePublish)',
           \A i \in setup.hubs, h \in Hosts : row = services[s] \/ ~Touches(s, row, h) =>
               /\ Due(a, i, h, BeforePublish) => Due(a, i, h, BeforePublish)'
               /\ Due(a, i, h, BeforeCompare) => Due(a, i, h, BeforeCompare)'
    PROVE  RouteInv'
<1>0. TypeOK /\ Whole /\ AgesInStep /\ ChangesComing
  BY DEF RouteInv
<1>1. /\ adm \in [Admins -> Adm] /\ adm' \in [Admins -> Adm] /\ adm'[a] = d
      /\ \A b \in Admins : b # a => adm'[b] = adm[b]
  BY <1>0 DEF TypeOK
<1>2. services' = [services EXCEPT ![s] = row]
  BY DEF WriteService
<1>3. lost' = lost \union
         (IF row = services[s] THEN {} ELSE {services[s].host, row.host} \ (known \union {None}))
  BY DEF WriteService
<1>4. since' = [h \in Hosts |-> IF RoutesOf(services, h)' = RoutesOf(services, h) THEN since[h] ELSE 0]
  BY DEF WriteService, RoutesOf, At
<1>5. services \in [Services -> Row \union {NoRow}] /\ services[s] \in Row \union {NoRow}
  BY <1>0 DEF TypeOK
<1>6. \A q \in Row \union {NoRow} : q.host \in Hosts \union {Wild, None}
  BY DEF Row, NoRow
<1>7. TypeOK'
  <2>1. services' \in [Services -> Row \union {NoRow}]
    BY <1>2, <1>5
  <2>2. lost' \in SUBSET (Hosts \union {Wild})
    BY <1>0, <1>3, <1>5, <1>6 DEF TypeOK
  <2>3. since' \in [Hosts -> 0..MaxSince]
    <3>1. since \in [Hosts -> 0..MaxSince] /\ 0 \in 0..MaxSince
      BY <1>0 DEF TypeOK, MaxSince
    <3> QED
      BY <1>4, <3>1
  <2> QED
    BY <1>0, <1>1, <2>1, <2>2, <2>3 DEF TypeOK
<1>8. Whole'
  BY <1>0, <1>1 DEF Whole, AdmWhole, ResWhole, Once
<1>9. AgesInStep'
  BY <1>0, <1>4, AgesWritten DEF Whole
<1>10. row = services[s] => services' = services
  BY <1>2, <1>5
<1>11. \A i : CacheOf(i)' = CacheOf(i)
  BY DEF CacheOf, UseRedis
<1>12. ASSUME NEW h \in Hosts, Tracked(h)' PROVE Tracked(h)
  BY <1>3, <1>12 DEF Tracked
<1>13. ASSUME NEW i \in setup.hubs, NEW h \in Hosts, Tracked(h)', row # services[s], Touches(s, row, h)
       PROVE  ToShared(i, h)' /\ ToLocal(i, h)'
  <2>1. PICK x \in {services[s].host, row.host} : Concerns(x, h)
    BY <1>13 DEF Touches
  <2>2. x \in {h, Wild} /\ x # None
    BY <2>1, NamesAssumption DEF Concerns
  <2>3. x \notin lost'
    BY <1>13, <2>2 DEF Tracked
  <2>4. x \in known
    BY <1>3, <1>13, <2>2, <2>3
  <2>5. Due(a, i, h, BeforePublish)'
    BY <2>1, <2>4
  <2>6. Due(a, i, h, BeforeCompare)'
    BY <2>5 DEF Due, First, BeforeCompare
  <2> QED
    BY <2>5, <2>6 DEF ToShared, ToLocal
<1>14. ASSUME NEW i \in setup.hubs, NEW h \in Hosts, row = services[s] \/ ~Touches(s, row, h)
       PROVE  /\ RoutesOf(services, h)' = RoutesOf(services, h)
              /\ ToShared(i, h) => ToShared(i, h)'
              /\ ToLocal(i, h) => ToLocal(i, h)'
  <2>1. RoutesOf(services, h)' = RoutesOf(services, h)
    BY <1>0, <1>2, <1>10, <1>14, Untouched, RoutesStay
  <2>2. ASSUME NEW b \in Admins, b # a, NEW before, before \in {BeforePublish, BeforeCompare}, Due(b, i, h, before)
        PROVE  Due(b, i, h, before)'
    <3>1. adm'[b] = adm[b]
      BY <1>1, <2>2
    <3>2. adm[b].pc \notin {"idle", "done"} => adm[b].id \in Services
      BY <1>0 DEF Whole, AdmWhole
    <3> QED
      BY <1>0, <1>2, <1>14, <2>2, <3>1, <3>2, StillDue
  <2>3. \A b \in Admins : /\ Due(b, i, h, BeforePublish) => Due(b, i, h, BeforePublish)'
                          /\ Due(b, i, h, BeforeCompare) => Due(b, i, h, BeforeCompare)'
    BY <1>14, <2>2
  <2> QED
    BY <2>1, <2>3 DEF ToShared, ToLocal
<1>15. ASSUME NEW i \in setup.hubs, NEW h \in Hosts, Tracked(h)'
       PROVE  /\ CacheOf(i) \notin missed => SharedComing(i, h)'
              /\ i \notin missed => LocalComing(i, h)'
  <2>1. CASE row # services[s] /\ Touches(s, row, h)
    BY <1>13, <1>15, <2>1 DEF SharedComing, LocalComing
  <2>2. CASE row = services[s] \/ ~Touches(s, row, h)
    <3>1. /\ RoutesOf(services, h)' = RoutesOf(services, h)
          /\ ToShared(i, h) => ToShared(i, h)'
          /\ ToLocal(i, h) => ToLocal(i, h)'
      BY <1>14, <2>2
    <3>2. /\ CacheOf(i) \notin missed => SharedComing(i, h)
          /\ i \notin missed => LocalComing(i, h)
      BY <1>0, <1>12, <1>15 DEF ChangesComing
    <3>3. SharedComing(i, h) => SharedComing(i, h)'
      BY <1>11, <3>1 DEF SharedComing, Unseen, Valid, Current, Outdated
    <3>4. LocalComing(i, h) => LocalComing(i, h)'
      BY <3>1 DEF LocalComing, Unseen, Valid, Current, Held, Elements, Announced, Concerns
    <3> QED
      BY <3>2, <3>3, <3>4
  <2> QED
    BY <2>1, <2>2
<1>16. ChangesComing'
  BY <1>0, <1>11, <1>15 DEF ChangesComing
<1> QED
  BY <1>7, <1>8, <1>9, <1>16 DEF RouteInv

\* A handler about to call ApplyServiceChange on the row it wrote is going to
\* invalidate the host of that row and the one it remembers.
LEMMA AboutToApply ==
    ASSUME NEW a \in Admins, adm'[a].pc = "apRoute", NEW row, services'[adm'[a].id] = row, NEW h,
           Concerns(row.host, h) \/ Concerns(adm'[a].prev, h)
    PROVE  \A i : Due(a, i, h, BeforePublish)'
BY DEF Due, First, Second, Concerns

\* handleUpdateService saves the row.
LEMMA SaveServiceKeeps ==
    ASSUME RouteInv, NEW a \in Admins, SaveService(a) PROVE RouteInv'
<1> DEFINE s == adm[a].id
           row == adm[a].row
           known == {adm[a].prev, row.host}
           d == [adm[a] EXCEPT !.pc = "apRoute", !.row = NoRow]
<1>0. /\ adm[a].pc = "write" /\ WriteService(s, row, known) /\ adm' = [adm EXCEPT ![a] = d]
      /\ UNCHANGED <<setup, version, shared, local, bus, res, missed>>
  BY DEF SaveService
<1>1. /\ TypeOK /\ adm[a] \in Adm /\ adm[a].inst \in setup.hubs /\ s \in Services
      /\ row \in Row \union {NoRow} /\ version \in 0..MaxVersion
  BY <1>0, HandlerIs
<1>2. d \in Adm /\ d.pc = "apRoute" /\ d.inst = adm[a].inst /\ d.id = s /\ d.prev = adm[a].prev
  BY <1>1 DEF Adm
<1>3. AdmWhole(d)
  BY <1>1, <1>2 DEF AdmWhole, Applying
<1>4. adm'[a] = d /\ services'[s] = row
  BY <1>0, <1>1 DEF TypeOK, WriteService
<1> HIDE DEF d
<1>5. \A i, h : \A x \in known : Concerns(x, h) => Due(a, i, h, BeforePublish)'
  BY <1>2, <1>4, AboutToApply
<1>6. \A i, h : ~Due(a, i, h, BeforePublish) /\ ~Due(a, i, h, BeforeCompare)
  BY <1>0, NotDue
<1> HIDE DEF known, row, s
<1> QED
  BY <1>0, <1>1, <1>2, <1>3, <1>5, <1>6, ServiceWritten

\* handleCreateService inserts a row.
LEMMA CreateServiceKeeps ==
    ASSUME RouteInv, NEW a \in Admins, NEW i \in setup.hubs, NEW s \in Services, NEW to \in setup.rows,
           CreateService(a, i, s, to)
    PROVE  RouteInv'
<1> DEFINE row == [to EXCEPT !.ver = version + 1]
           known == {to.host}
           d == [IdleAdm EXCEPT !.pc = "apRoute", !.inst = i, !.id = s]
<1>0. /\ adm[a].pc = "idle" /\ WriteService(s, row, known) /\ adm' = [adm EXCEPT ![a] = d]
      /\ version < setup.writes /\ version' = version + 1
      /\ UNCHANGED <<setup, shared, local, bus, res, missed>>
  BY DEF CreateService
<1>1. TypeOK /\ version \in 0..MaxVersion /\ services \in [Services -> Row \union {NoRow}] /\ adm \in [Admins -> Adm]
  BY DEF RouteInv, TypeOK
<1>2. i \in Instances /\ setup.writes \in 0..MaxVersion /\ to \in NewRow
  BY <1>1, SetupIs
<1>3. version' \in 0..MaxVersion
  <2> DEFINE w == setup.writes
  <2>1. w \in 0..MaxVersion /\ version < w
    BY <1>0, <1>2
  <2> HIDE DEF w
  <2>2. \A v \in 0..MaxVersion : v < w => v + 1 \in 0..MaxVersion
    BY <2>1
  <2> QED
    BY <1>0, <1>1, <2>1, <2>2
<1>4. row \in Row /\ row.host = to.host
  BY <1>0, <1>2, <1>3 DEF NewRow, Row
<1>5. d \in Adm /\ d.pc = "apRoute" /\ d.inst = i /\ d.id = s
  BY <1>2 DEF Adm, IdleAdm
<1>6. AdmWhole(d)
  BY <1>5 DEF AdmWhole, Applying
<1>7. adm'[a] = d /\ services'[s] = row
  BY <1>0, <1>1 DEF WriteService
<1> HIDE DEF d, row
<1>8. \A j, h : \A x \in known : Concerns(x, h) => Due(a, j, h, BeforePublish)'
  BY <1>4, <1>5, <1>7, AboutToApply
<1>9. \A j, h : ~Due(a, j, h, BeforePublish) /\ ~Due(a, j, h, BeforeCompare)
  BY <1>0, NotDue
<1> HIDE DEF known
<1> QED
  BY <1>0, <1>3, <1>4, <1>5, <1>6, <1>8, <1>9, ServiceWritten

\* handleDeleteService deletes.
LEMMA DeleteServiceKeeps ==
    ASSUME RouteInv, NEW a \in Admins, DeleteService(a) PROVE RouteInv'
<1> DEFINE s == adm[a].id
           x == adm[a].host
           known == {x}
           d == [adm[a] EXCEPT !.pc = "invLocal"]
<1>0. /\ adm[a].pc = "delete" /\ WriteService(s, NoRow, known) /\ adm' = [adm EXCEPT ![a] = d]
      /\ UNCHANGED <<setup, version, shared, local, bus, res, missed>>
  BY DEF DeleteService, Goto
<1>1. /\ TypeOK /\ adm[a] \in Adm /\ adm[a].inst \in setup.hubs /\ s \in Services
      /\ x \in Hosts \union {Wild} /\ version \in 0..MaxVersion
  BY <1>0, HandlerIs
<1>2. d \in Adm /\ d.pc = "invLocal" /\ d.inst = adm[a].inst /\ d.id = s /\ d.host = x
  BY <1>1 DEF Adm
<1>3. AdmWhole(d)
  BY <1>1, <1>2 DEF AdmWhole, Applying
<1>4. adm'[a] = d
  BY <1>0, <1>1 DEF TypeOK
<1> HIDE DEF d
<1>5. \A i, h : Concerns(x, h) => Due(a, i, h, BeforePublish)'
  BY <1>2, <1>4 DEF Due, First, Concerns, BeforePublish
<1>6. \A i, h : ~Due(a, i, h, BeforePublish) /\ ~Due(a, i, h, BeforeCompare)
  BY <1>0, NotDue
<1>7. NoRow \in Row \union {NoRow}
  OBVIOUS
<1>8. \A i, h : \A y \in known : Concerns(y, h) => Due(a, i, h, BeforePublish)'
  BY <1>5
<1> HIDE DEF known, s, x
<1> QED
  BY <1>0, <1>1, <1>2, <1>3, <1>6, <1>7, <1>8, ServiceWritten

\* ApplyServiceChange saves the row it read.
LEMMA ApplySaveKeeps ==
    ASSUME RouteInv, NEW a \in Admins, ApplySave(a) PROVE RouteInv'
<1>a. PICK s, x, row, known, d : /\ s = adm[a].id /\ x = adm[a].host /\ row = adm[a].row /\ known = {x}
                                 /\ d = [adm[a] EXCEPT !.pc = "invLocal", !.row = NoRow]
  OBVIOUS
<1>0. /\ adm[a].pc = "apSave" /\ WriteService(s, row, known) /\ adm' = [adm EXCEPT ![a] = d]
      /\ UNCHANGED <<setup, version, shared, local, bus, res, missed>>
  BY <1>a DEF ApplySave
<1>1. /\ TypeOK /\ adm[a] \in Adm /\ adm[a].inst \in setup.hubs /\ s \in Services
      /\ x \in Hosts \union {Wild} /\ version \in 0..MaxVersion /\ row \in Row \union {NoRow}
  BY <1>0, <1>a, HandlerIs DEF Applying
<1>2. /\ d \in Adm /\ d.pc = "invLocal" /\ d.inst = adm[a].inst /\ d.id = s /\ d.host = x
      /\ d.prev = adm[a].prev
  BY <1>1, <1>a DEF Adm
<1>3. AdmWhole(d)
  BY <1>1, <1>2 DEF AdmWhole, Applying
<1>4. adm'[a] = d /\ services' = [services EXCEPT ![s] = row]
  BY <1>0, <1>1 DEF TypeOK, WriteService
<1>5. \A i, h : Concerns(x, h) => Due(a, i, h, BeforePublish)'
  BY <1>2, <1>4 DEF Due, First, Concerns, BeforePublish
<1>6. ASSUME NEW i \in setup.hubs, NEW h \in Hosts, row = services[s] \/ ~Touches(s, row, h),
             NEW before, before \in {BeforePublish, BeforeCompare}, Due(a, i, h, before)
      PROVE  Due(a, i, h, before)'
  <2> HIDE BoundsAssumption, NamesAssumption
  <2>1. /\ adm'[a].inst = adm[a].inst /\ adm'[a].id = adm[a].id /\ adm'[a].prev = adm[a].prev
        /\ adm'[a].host = adm[a].host
        /\ adm[a].pc \notin {"idle", "done"} => adm[a].id \in Services
        /\ adm'[a].pc = adm[a].pc \/ (adm[a].pc = "apSave" /\ adm'[a].pc = "invLocal")
    BY <1>0, <1>1, <1>2, <1>4, <1>a
  <2>2. TypeOK /\ s \in Services /\ services' = [services EXCEPT ![s] = row] /\ setup' = setup
    BY <1>0, <1>1, <1>4
  <2> QED
    BY <1>6, <2>1, <2>2, StillDue
<1>7. \A i, h : \A y \in known : Concerns(y, h) => Due(a, i, h, BeforePublish)'
  BY <1>5, <1>a
<1> QED
  BY <1>0, <1>1, <1>2, <1>3, <1>6, <1>7, ServiceWritten

-----------------------------------------------------------------------------
(* Invalidations.                                                          *)

\* Ages are kept where nothing enters a cache or a request but what is in
\* step.
LEMMA AgesKept ==
    ASSUME TypeOK, AgesInStep, UNCHANGED <<services, since>>,
           \A c \in Caches, h \in Hosts : \/ shared'[c][h] \in {shared[c][h], NoEntry}
                                          \/ SharedAge(shared'[c][h], h),
           \A i \in Instances : \A x \in Held(i)' : x \in Held(i) \/ LocalAge(x),
           \A r \in Resolvers : ResAge(r)'
    PROVE  AgesInStep'
<1>0. \A h : RoutesOf(services, h)' = RoutesOf(services, h)
  BY RoutesStay
<1>1. ASSUME NEW c \in Caches, NEW h \in Hosts PROVE SharedAge(shared[c][h], h)'
  <2>1. PICK e : e = shared'[c][h]
    OBVIOUS
  <2>2. SharedAge(e, h) => SharedAge(shared[c][h], h)'
    BY <1>0, <2>1 DEF SharedAge, Overdue, Valid, Current
  <2>3. SharedAge(shared[c][h], h)
    BY DEF AgesInStep
  <2>4. SharedAge(NoEntry, h)
    <3>1. NoEntry.ttl = -2
      BY Blanks
    <3>2. ~Valid(NoEntry)
      BY DEF Valid
    <3>3. -2 <= SharedTTL
      OBVIOUS
    <3> QED
      BY <3>1, <3>2, <3>3 DEF SharedAge, Overdue
  <2> QED
    BY <2>1, <2>2, <2>3, <2>4
<1>2. ASSUME NEW i \in Instances, NEW x \in Held(i)' PROVE LocalAge(x)'
  <2>1. LocalAge(x)
    BY <1>2 DEF AgesInStep
  <2> QED
    BY <1>0, <2>1 DEF LocalAge, Overdue, Valid, Current
<1> QED
  BY <1>1, <1>2 DEF AgesInStep

\* What an invalidation leaves of the requests.
LEMMA RacedIs ==
    ASSUME TypeOK, Whole, AgesInStep, NEW is, NEW x, Race(is, x), UNCHANGED <<setup, services, since>>
    PROVE  /\ res' \in [Resolvers -> Res]
           /\ \A r \in Resolvers :
                /\ ResWhole(res[r])' /\ ResAge(r)'
                /\ Outdated(r)' => Outdated(r)
                /\ res'[r].host = res[r].host /\ res'[r].inst = res[r].inst
                /\ Outdated(r)' /\ ~res'[r].entry.raced =>
                     ~res[r].entry.raced /\ ~(res[r].inst \in is /\ Concerns(x, res[r].host))
<1>0. \A h : RoutesOf(services, h)' = RoutesOf(services, h)
  BY RoutesStay
<1>1. ASSUME NEW r \in Resolvers
      PROVE  /\ res'[r] \in Res
             /\ ResWhole(res[r])' /\ ResAge(r)'
             /\ Outdated(r)' => Outdated(r)
             /\ res'[r].host = res[r].host /\ res'[r].inst = res[r].inst
             /\ Outdated(r)' /\ ~res'[r].entry.raced =>
                  ~res[r].entry.raced /\ ~(res[r].inst \in is /\ Concerns(x, res[r].host))
  <2>0. res[r] \in Res /\ ResWhole(res[r]) /\ ResAge(r)
    BY DEF TypeOK, Whole, AgesInStep
  <2>1. CASE Outdated(r) /\ res[r].inst \in is /\ Concerns(x, res[r].host)
    <3>1. res'[r] = [res[r] EXCEPT !.entry.raced = TRUE]
      BY <2>1 DEF Race
    <3>2. res[r].entry \in Entry
      BY <2>0, <2>1 DEF ResWhole, Outdated
    <3> DEFINE e == res[r].entry
               g == [e EXCEPT !.raced = TRUE]
    <3>3. g \in Entry /\ g.routes = e.routes /\ g.slow = e.slow /\ g.raced = TRUE
      BY <3>2 DEF Entry
    <3>4. res'[r] = [res[r] EXCEPT !.entry = g]
      BY <3>1
    <3> HIDE DEF g
    <3>5. /\ res'[r] \in Res /\ res'[r].pc = res[r].pc /\ res'[r].host = res[r].host
          /\ res'[r].inst = res[r].inst /\ res'[r].entry = g
      BY <2>0, <3>3, <3>4 DEF Res
    <3>6. Outdated(r)'
      BY <1>0, <2>1, <3>3, <3>5 DEF Outdated, Current
    <3>7. ResWhole(res[r])'
      BY <2>0, <3>3, <3>5 DEF ResWhole
    <3>8. ResAge(r)'
      BY <2>0, <2>1, <3>3, <3>5 DEF ResAge
    <3> QED
      BY <2>1, <3>3, <3>5, <3>6, <3>7, <3>8
  <2>2. CASE ~(Outdated(r) /\ res[r].inst \in is /\ Concerns(x, res[r].host))
    <3>1. res'[r] = res[r]
      BY <2>2 DEF Race
    <3>2. Outdated(r)' <=> Outdated(r)
      BY <1>0, <3>1 DEF Outdated, Current
    <3> QED
      BY <2>0, <2>2, <3>1, <3>2 DEF ResWhole, ResAge
  <2> QED
    BY <2>1, <2>2
<1>2. res' = [r \in Resolvers |-> res'[r]]
  BY DEF Race
<1> QED
  BY <1>1, <1>2

\* The LRU of this process is cleared of the host.
LEMMA InvalidateLocalKeeps ==
    ASSUME RouteInv, NEW a \in Admins, InvalidateLocal(a) PROVE RouteInv'
<1>a. PICK x, j, d : x = adm[a].host /\ j = adm[a].inst /\ d = [adm[a] EXCEPT !.pc = "invShared"]
  OBVIOUS
<1>0. /\ adm[a].pc = "invLocal" /\ local' = [local EXCEPT ![j] = DropLocal(@, x)]
      /\ Race({j}, x) /\ adm' = [adm EXCEPT ![a] = d]
      /\ UNCHANGED <<setup, services, version, shared, bus, missed, lost, since>>
  BY <1>a DEF InvalidateLocal, Goto
<1>1. /\ TypeOK /\ adm[a] \in Adm /\ j \in setup.hubs /\ j \in Instances /\ adm[a].id \in Services
      /\ x \in Hosts \union {Wild}
  BY <1>0, <1>a, HandlerIs DEF Applying
<1>2. Whole /\ AgesInStep /\ ChangesComing
  BY DEF RouteInv
<1>3. /\ d \in Adm /\ d.pc = "invShared" /\ d.inst = j /\ d.id = adm[a].id /\ d.host = x
      /\ d.prev = adm[a].prev
  BY <1>1, <1>a DEF Adm
<1>4. AdmWhole(d)
  BY <1>1, <1>3 DEF AdmWhole, Applying
<1>5. /\ adm' \in [Admins -> Adm] /\ adm'[a] = d /\ \A b \in Admins : b # a => adm'[b] = adm[b]
  BY <1>0, <1>1, <1>3 DEF TypeOK
<1>6. /\ local[j] \in Seq(Element) /\ Once(local[j])
      /\ local'[j] = DropLocal(local[j], x) /\ \A i \in Instances : i # j => local'[i] = local[i]
  BY <1>0, <1>1, <1>2 DEF TypeOK, Whole
<1>7. /\ DropLocal(local[j], x) \in Seq(Element) /\ Once(DropLocal(local[j], x))
      /\ Elements(DropLocal(local[j], x)) \subseteq Elements(local[j])
  BY <1>1, <1>6, DropIs
<1>8. local' \in [Instances -> Seq(Element)] /\ \A i \in Instances : Once(local'[i])
  <2>1. local \in [Instances -> Seq(Element)] /\ \A i \in Instances : Once(local[i])
    BY <1>1, <1>2 DEF TypeOK, Whole
  <2>2. local' \in [Instances -> Seq(Element)]
    BY <1>0, <1>7, <2>1
  <2> QED
    BY <1>6, <1>7, <2>1, <2>2
<1>9. \A i \in Instances : Held(i)' \subseteq Held(i)
  <2>1. \A i \in Instances : Held(i)' = Elements(local'[i])
    BY DEF Held, Elements
  <2> QED
    BY <1>6, <1>7, <2>1 DEF Held
<1>10. /\ res' \in [Resolvers -> Res]
       /\ \A r \in Resolvers :
            /\ ResWhole(res[r])' /\ ResAge(r)'
            /\ Outdated(r)' => Outdated(r)
            /\ res'[r].host = res[r].host /\ res'[r].inst = res[r].inst
            /\ Outdated(r)' /\ ~res'[r].entry.raced => ~res[r].entry.raced
  BY <1>0, <1>1, <1>2, RacedIs
<1>11. TypeOK'
  BY <1>0, <1>1, <1>5, <1>8, <1>10 DEF TypeOK
<1>12. Whole'
  <2>1. \A b \in Admins : AdmWhole(adm[b])'
    BY <1>0, <1>2, <1>4, <1>5 DEF Whole, AdmWhole
  <2> QED
    BY <1>8, <1>10, <2>1 DEF Whole, Once
<1>13. AgesInStep'
  BY <1>0, <1>1, <1>2, <1>9, <1>10, AgesKept
<1>14. \A b \in Admins : \A i, h :
          /\ Due(b, i, h, BeforePublish) => Due(b, i, h, BeforePublish)'
          /\ Due(b, i, h, BeforeCompare) => Due(b, i, h, BeforeCompare)'
  BY <1>0, <1>3, <1>5, <1>a DEF Due, First, Second, Beyond, Now, BeforePublish, BeforeCompare, Applying,
                            CacheOf, UseRedis, Concerns
<1>15. \A i, h : (ToShared(i, h) => ToShared(i, h)') /\ (ToLocal(i, h) => ToLocal(i, h)')
  BY <1>14 DEF ToShared, ToLocal
<1>16. \A h : RoutesOf(services, h)' = RoutesOf(services, h)
  BY <1>0, RoutesStay
<1>17. /\ \A h : Tracked(h)' <=> Tracked(h)
       /\ \A i : CacheOf(i)' = CacheOf(i)
       /\ \A i, h : Announced(i, h)' <=> Announced(i, h)
  BY <1>0 DEF Tracked, CacheOf, UseRedis, Announced
<1>18. ASSUME NEW i \in setup.hubs, NEW h \in Hosts PROVE SharedComing(i, h) => SharedComing(i, h)'
  BY <1>0, <1>10, <1>15, <1>16, <1>17 DEF SharedComing, Unseen, Valid, Current
<1>19. ASSUME NEW i \in setup.hubs, NEW h \in Hosts PROVE LocalComing(i, h) => LocalComing(i, h)'
  <2>1. i \in Instances
    BY <1>1, SetupIs
  <2>2. \A e : Unseen(e, h)' => Unseen(e, h)
    BY <1>16 DEF Unseen, Valid, Current
  <2> QED
    BY <1>9, <1>15, <1>17, <2>1, <2>2 DEF LocalComing
<1>20. ChangesComing'
  BY <1>0, <1>2, <1>17, <1>18, <1>19 DEF ChangesComing
<1> QED
  BY <1>11, <1>12, <1>13, <1>20 DEF RouteInv

\* The shared cache, or the map of this process, is cleared of the host.
LEMMA InvalidateSharedKeeps ==
    ASSUME RouteInv, NEW a \in Admins, InvalidateShared(a) PROVE RouteInv'
<1>a. PICK x, j, d, is, m : /\ x = adm[a].host /\ j = adm[a].inst /\ d = [adm[a] EXCEPT !.pc = "publish"]
                            /\ is = {i \in Instances : CacheOf(i) = CacheOf(j)} /\ m = CacheOf(j)
  OBVIOUS
<1>0. /\ adm[a].pc = "invShared" /\ Race(is, x) /\ adm' = [adm EXCEPT ![a] = d]
      /\ shared' = [shared EXCEPT ![m] = [h \in Hosts |-> IF Concerns(x, h) THEN NoEntry ELSE @[h]]]
      /\ lost' = {h \in lost : ~Concerns(x, h)}
      /\ UNCHANGED <<setup, services, version, local, bus, missed, since>>
  BY <1>a DEF InvalidateShared, Goto
<1>1. /\ TypeOK /\ adm[a] \in Adm /\ j \in setup.hubs /\ j \in Instances /\ adm[a].id \in Services
      /\ x \in Hosts \union {Wild}
  BY <1>0, <1>a, HandlerIs DEF Applying
<1>2. Whole /\ AgesInStep /\ ChangesComing
  BY DEF RouteInv
<1>3. /\ d \in Adm /\ d.pc = "publish" /\ d.inst = j /\ d.id = adm[a].id /\ d.host = x
      /\ d.prev = adm[a].prev
  BY <1>1, <1>a DEF Adm
<1>4. AdmWhole(d)
  BY <1>1, <1>3 DEF AdmWhole, Applying
<1>5. /\ adm' \in [Admins -> Adm] /\ adm'[a] = d /\ \A b \in Admins : b # a => adm'[b] = adm[b]
  BY <1>0, <1>1, <1>3 DEF TypeOK
<1>6. /\ m \in Caches /\ shared \in [Caches -> [Hosts -> Entry \union {NoEntry}]]
  BY <1>1, <1>a, SetupIs DEF TypeOK
<1>7. /\ shared' \in [Caches -> [Hosts -> Entry \union {NoEntry}]]
      /\ \A h \in Hosts : shared'[m][h] = IF Concerns(x, h) THEN NoEntry ELSE shared[m][h]
      /\ \A c \in Caches : c # m => shared'[c] = shared[c]
  <2> DEFINE g == [h \in Hosts |-> IF Concerns(x, h) THEN NoEntry ELSE shared[m][h]]
  <2>1. shared' = [shared EXCEPT ![m] = g]
    BY <1>0
  <2>2. g \in [Hosts -> Entry \union {NoEntry}]
    BY <1>6
  <2>3. \A h \in Hosts : g[h] = IF Concerns(x, h) THEN NoEntry ELSE shared[m][h]
    OBVIOUS
  <2> HIDE DEF g
  <2> QED
    BY <1>6, <2>1, <2>2, <2>3
<1>8. \A c \in Caches, h \in Hosts : shared'[c][h] \in {shared[c][h], NoEntry}
  BY <1>7
<1>10. /\ res' \in [Resolvers -> Res]
       /\ \A r \in Resolvers :
            /\ ResWhole(res[r])' /\ ResAge(r)'
            /\ Outdated(r)' => Outdated(r)
            /\ res'[r].host = res[r].host /\ res'[r].inst = res[r].inst
            /\ Outdated(r)' /\ ~res'[r].entry.raced =>
                 ~res[r].entry.raced /\ ~(res[r].inst \in is /\ Concerns(x, res[r].host))
  BY <1>0, <1>1, <1>2, RacedIs
<1>11. TypeOK'
  <2>1. lost' \in SUBSET (Hosts \union {Wild})
    BY <1>0, <1>1 DEF TypeOK
  <2> QED
    BY <1>0, <1>1, <1>5, <1>7, <1>10, <2>1 DEF TypeOK
<1>12. Whole'
  <2>1. \A b \in Admins : AdmWhole(adm[b])'
    BY <1>0, <1>2, <1>4, <1>5 DEF Whole, AdmWhole
  <2> QED
    BY <1>0, <1>2, <1>10, <2>1 DEF Whole, Once
<1>b. \A i : Held(i)' = Held(i)
  BY <1>0 DEF Held, Elements
<1>13. AgesInStep'
  BY <1>0, <1>1, <1>2, <1>8, <1>10, <1>b, AgesKept
<1>14. \A b \in Admins : \A i, h : b # a \/ ~Concerns(x, h) =>
          /\ Due(b, i, h, BeforePublish) => Due(b, i, h, BeforePublish)'
          /\ Due(b, i, h, BeforeCompare) => Due(b, i, h, BeforeCompare)'
  BY <1>0, <1>3, <1>5, <1>a DEF Due, First, Second, Beyond, Now, BeforePublish, BeforeCompare, Applying,
                            CacheOf, UseRedis, Concerns
<1>15. \A i, h : ~Concerns(x, h) => (ToShared(i, h) => ToShared(i, h)') /\ (ToLocal(i, h) => ToLocal(i, h)')
  BY <1>14 DEF ToShared, ToLocal
<1>16. \A h : RoutesOf(services, h)' = RoutesOf(services, h)
  BY <1>0, RoutesStay
<1>17. /\ \A i : CacheOf(i)' = CacheOf(i)
       /\ \A i, h : Announced(i, h)' <=> Announced(i, h)
  BY <1>0 DEF CacheOf, UseRedis, Announced
<1>18. \A i, h : Concerns(x, h) => ToLocal(i, h)'
  BY <1>3, <1>5 DEF ToLocal, Due, First, BeforeCompare, Concerns
<1>19. \A i, h : CacheOf(i) # m => ToShared(i, h)'
  BY <1>3, <1>5, <1>17, <1>a DEF ToShared, Due, Beyond, Applying
<1>20. \A h \in Hosts : Tracked(h)' /\ ~Concerns(x, h) => Tracked(h)
  BY <1>0 DEF Tracked, Concerns
<1>21. \A e, h : Unseen(e, h)' => Unseen(e, h)
  BY <1>16 DEF Unseen, Valid, Current
<1>22. ASSUME NEW i \in setup.hubs, NEW h \in Hosts, Tracked(h)'
       PROVE  /\ CacheOf(i) \notin missed => SharedComing(i, h)'
              /\ i \notin missed => LocalComing(i, h)'
  <2>0. i \in Instances
    BY <1>1, SetupIs
  <2>1. CASE ~Concerns(x, h)
    <3>1. /\ CacheOf(i) \notin missed => SharedComing(i, h)
          /\ i \notin missed => LocalComing(i, h)
      BY <1>2, <1>20, <1>22, <2>1 DEF ChangesComing
    <3>2. shared'[CacheOf(i)][h] = shared[CacheOf(i)][h]
      BY <1>1, <1>7, <2>0, <2>1, SetupIs
    <3>3. SharedComing(i, h) => SharedComing(i, h)'
      BY <1>10, <1>15, <1>16, <1>17, <2>1, <3>2 DEF SharedComing, Unseen, Valid, Current
    <3>4. LocalComing(i, h) => LocalComing(i, h)'
      BY <1>15, <1>17, <1>21, <1>b, <2>1 DEF LocalComing
    <3> QED
      BY <3>1, <3>3, <3>4
  <2>2. CASE Concerns(x, h)
    <3>1. LocalComing(i, h)'
      BY <1>18, <2>2 DEF LocalComing
    <3>2. CASE CacheOf(i) # m
      BY <1>19, <3>1, <3>2 DEF SharedComing
    <3>3. CASE CacheOf(i) = m
      <4>1. shared'[CacheOf(i)'][h] = NoEntry
        BY <1>7, <1>17, <2>2, <3>3
      <4>2. ~Unseen(shared[CacheOf(i)][h], h)'
        BY <4>1 DEF Unseen, Valid
      <4>3. i \in is
        BY <1>a, <2>0, <3>3
      <4>4. SharedComing(i, h)'
        BY <1>10, <2>2, <4>2, <4>3 DEF SharedComing
      <4> QED
        BY <3>1, <4>4
    <3> QED
      BY <3>2, <3>3
  <2> QED
    BY <2>1, <2>2
<1>23. ChangesComing'
  BY <1>0, <1>2, <1>17, <1>22 DEF ChangesComing
<1> QED
  BY <1>11, <1>12, <1>13, <1>23 DEF RouteInv

-----------------------------------------------------------------------------
(* Requests.                                                               *)

\* A step that changes no row, no handler and no age keeps the invariant if
\* what it puts into caches and requests is in step and has an invalidation
\* to come.
LEMMA CachesMove ==
    ASSUME RouteInv, UNCHANGED <<setup, services, version, adm, missed, lost, since>>,
           shared' \in [Caches -> [Hosts -> Entry \union {NoEntry}]],
           local' \in [Instances -> Seq(Element)], \A i \in Instances : Once(local'[i]),
           bus' \in [Instances -> Seq(Hosts \union {Wild})],
           res' \in [Resolvers -> Res], \A r \in Resolvers : ResWhole(res'[r]) /\ ResAge(r)',
           \A c \in Caches, h \in Hosts : \/ shared'[c][h] \in {shared[c][h], NoEntry}
                                          \/ SharedAge(shared'[c][h], h),
           \A i \in Instances : \A x \in Held(i)' : x \in Held(i) \/ LocalAge(x),
           \A i \in setup.hubs, h \in Hosts : Tracked(h) /\ CacheOf(i) \notin missed =>
               /\ Unseen(shared'[CacheOf(i)][h], h) => ToShared(i, h)
               /\ \A r \in Resolvers : Outdated(r)' /\ ~res'[r].entry.raced
                                       /\ res'[r].inst = i /\ res'[r].host = h => ToShared(i, h),
           \A i \in setup.hubs, h \in Hosts : Tracked(h) /\ i \notin missed =>
               \A x \in Held(i)' : x.host = h /\ Unseen(x.entry, h) => ToLocal(i, h) \/ Announced(i, h)'
    PROVE  RouteInv'
<1>0. TypeOK /\ Whole /\ AgesInStep /\ ChangesComing
  BY DEF RouteInv
<1>1. TypeOK'
  BY <1>0 DEF TypeOK
<1>2. Whole'
  BY <1>0 DEF Whole, AdmWhole, ResWhole, Once
<1>3. AgesInStep'
  BY <1>0, AgesKept
<1>4. /\ \A b, i, h : /\ Due(b, i, h, BeforePublish)' <=> Due(b, i, h, BeforePublish)
                      /\ Due(b, i, h, BeforeCompare)' <=> Due(b, i, h, BeforeCompare)
  BY DEF Due, First, Second, Beyond, Now, BeforePublish, BeforeCompare, CacheOf, UseRedis
<1>5. \A i, h : (ToShared(i, h)' <=> ToShared(i, h)) /\ (ToLocal(i, h)' <=> ToLocal(i, h))
  BY <1>4 DEF ToShared, ToLocal
<1>6. \A h : RoutesOf(services, h)' = RoutesOf(services, h)
  BY RoutesStay
<1>7. (\A h : Tracked(h)' <=> Tracked(h)) /\ (\A i : CacheOf(i)' = CacheOf(i))
  BY DEF Tracked, CacheOf, UseRedis
<1>8. \A e, h : Unseen(e, h)' <=> Unseen(e, h)
  BY <1>6 DEF Unseen, Valid, Current
<1>9. ASSUME NEW i \in setup.hubs, NEW h \in Hosts, Tracked(h), CacheOf(i) \notin missed
      PROVE  SharedComing(i, h)'
  <2>1. PICK e : e = shared'[CacheOf(i)][h]
    OBVIOUS
  <2>2. Unseen(shared[CacheOf(i)][h], h)' <=> Unseen(e, h)
    BY <1>6, <1>7, <2>1 DEF Unseen, Valid, Current
  <2>3. Unseen(e, h) => ToShared(i, h)
    BY <1>9, <2>1
  <2> QED
    BY <1>5, <1>9, <2>2, <2>3 DEF SharedComing
<1>10. ASSUME NEW i \in setup.hubs, NEW h \in Hosts, Tracked(h), i \notin missed
       PROVE  LocalComing(i, h)'
  BY <1>5, <1>8, <1>10 DEF LocalComing
<1>11. ChangesComing'
  BY <1>0, <1>7, <1>9, <1>10 DEF ChangesComing
<1> QED
  BY <1>1, <1>2, <1>3, <1>11 DEF RouteInv

\* Processes that share a cache are out of the same handlers' reach.
LEMMA SameCache ==
    ASSUME NEW i, NEW k, CacheOf(i) = CacheOf(k), NEW h, ToShared(k, h) PROVE ToShared(i, h)
BY DEF ToShared, Due, Beyond

\* What is due for the cache is due for the LRU.
LEMMA SharedThenLocal == ASSUME NEW i, NEW h, ToShared(i, h) PROVE ToLocal(i, h)
BY DEF ToShared, ToLocal, Due, First, BeforeCompare

\* A step of request r.
LEMMA RequestMoves ==
    ASSUME RouteInv, UNCHANGED <<setup, services, version, bus, adm, missed, lost, since>>,
           NEW r \in Resolvers, NEW q \in Res, ResWhole(q), res' = [res EXCEPT ![r] = q],
           shared' \in [Caches -> [Hosts -> Entry \union {NoEntry}]],
           local' \in [Instances -> Seq(Element)], \A i \in Instances : Once(local'[i]),
           ResAge(r)',
           Outdated(r)' /\ ~q.entry.raced /\ Tracked(q.host) /\ CacheOf(q.inst) \notin missed
               => ToShared(q.inst, q.host),
           \A c \in Caches, h \in Hosts :
               \/ shared'[c][h] \in {shared[c][h], NoEntry}
               \/ /\ SharedAge(shared'[c][h], h)
                  /\ \A i \in setup.hubs : c = CacheOf(i) /\ Tracked(h) /\ c \notin missed
                                           /\ Unseen(shared'[c][h], h) => ToShared(i, h),
           \A i \in Instances : \A x \in Held(i)' :
               \/ x \in Held(i)
               \/ /\ LocalAge(x)
                  /\ i \in setup.hubs /\ Tracked(x.host) /\ i \notin missed /\ Unseen(x.entry, x.host)
                       => ToLocal(i, x.host)
    PROVE  RouteInv'
<1>0. TypeOK /\ Whole /\ AgesInStep /\ ChangesComing
  BY DEF RouteInv
<1>1. /\ res' \in [Resolvers -> Res] /\ res'[r] = q
      /\ \A p \in Resolvers : p # r => res'[p] = res[p]
  BY <1>0 DEF TypeOK
<1>2. bus' \in [Instances -> Seq(Hosts \union {Wild})]
  BY <1>0 DEF TypeOK
<1>3. \A h : RoutesOf(services, h)' = RoutesOf(services, h)
  BY RoutesStay
<1>4. \A p \in Resolvers : p # r => (Outdated(p)' <=> Outdated(p)) /\ (ResAge(p)' <=> ResAge(p))
  BY <1>1, <1>3 DEF Outdated, Current, ResAge
<1>5. \A p \in Resolvers : ResWhole(res'[p]) /\ ResAge(p)'
  BY <1>0, <1>1, <1>4 DEF Whole, AgesInStep
<1>6. ASSUME NEW i \in setup.hubs, NEW h \in Hosts, Tracked(h), CacheOf(i) \notin missed
      PROVE  /\ Unseen(shared'[CacheOf(i)][h], h) => ToShared(i, h)
             /\ \A p \in Resolvers : Outdated(p)' /\ ~res'[p].entry.raced
                                     /\ res'[p].inst = i /\ res'[p].host = h => ToShared(i, h)
  <2>1. SharedComing(i, h)
    BY <1>0, <1>6 DEF ChangesComing
  <2>2. PICK c : c = CacheOf(i)
    OBVIOUS
  <2>3. c \in Caches
    BY <1>0, <2>2, SetupIs
  <2>4. PICK e : e = shared'[c][h]
    OBVIOUS
  <2>5. ~Unseen(NoEntry, h)
    BY DEF Unseen, Valid
  <2>6. Unseen(shared[c][h], h) => ToShared(i, h)
    BY <2>1, <2>2 DEF SharedComing
  <2>7. Unseen(e, h) => ToShared(i, h)
    BY <1>6, <2>2, <2>3, <2>4, <2>5, <2>6
  <2>8. ASSUME NEW p \in Resolvers, Outdated(p)', ~res'[p].entry.raced, res'[p].inst = i, res'[p].host = h
        PROVE  ToShared(i, h)
    <3>1. CASE p = r
      BY <1>1, <1>6, <2>8, <3>1
    <3>2. CASE p # r
      BY <1>1, <1>4, <2>1, <2>8, <3>2 DEF SharedComing
    <3> QED
      BY <3>1, <3>2
  <2> QED
    BY <2>2, <2>4, <2>7, <2>8
<1>7. ASSUME NEW i \in setup.hubs, NEW h \in Hosts, Tracked(h), i \notin missed, NEW x \in Held(i)',
             x.host = h, Unseen(x.entry, h)
      PROVE  ToLocal(i, h) \/ Announced(i, h)'
  <2>1. LocalComing(i, h) /\ i \in Instances
    BY <1>0, <1>7, SetupIs DEF ChangesComing
  <2>2. Announced(i, h)' <=> Announced(i, h)
    BY DEF Announced
  <2> QED
    BY <1>7, <2>1, <2>2 DEF LocalComing
<1> QED
  BY <1>1, <1>2, <1>5, <1>6, <1>7, CachesMove

\* A request under way.
LEMMA RequestIs ==
    ASSUME RouteInv, NEW r \in Resolvers, res[r].pc # "idle"
    PROVE  /\ TypeOK /\ Whole /\ AgesInStep /\ ChangesComing /\ res[r] \in Res /\ ResWhole(res[r]) /\ ResAge(r)
           /\ res[r].inst \in setup.hubs /\ res[r].inst \in Instances /\ res[r].host \in Hosts
           /\ CacheOf(res[r].inst) \in Caches
           /\ res[r].pc \in {"setShared", "add"} => res[r].entry \in Entry
           /\ since[res[r].host] \in 0..MaxSince
           /\ shared[CacheOf(res[r].inst)][res[r].host] \in Entry \union {NoEntry}
           /\ Outdated(r) /\ ~res[r].entry.raced /\ Tracked(res[r].host) /\ CacheOf(res[r].inst) \notin missed
                => ToShared(res[r].inst, res[r].host)
<1>1. TypeOK /\ Whole /\ AgesInStep /\ ChangesComing
  BY DEF RouteInv
<1>2. res[r] \in Res /\ ResWhole(res[r]) /\ ResAge(r)
  BY <1>1 DEF TypeOK, Whole, AgesInStep
<1>3. /\ res[r].inst \in setup.hubs /\ res[r].host \in Hosts
      /\ res[r].pc \in {"setShared", "add"} => res[r].entry \in Entry
  BY <1>2 DEF ResWhole
<1>4. res[r].inst \in Instances /\ CacheOf(res[r].inst) \in Caches
  BY <1>1, <1>3, SetupIs
<1>5. Outdated(r) /\ ~res[r].entry.raced /\ Tracked(res[r].host) /\ CacheOf(res[r].inst) \notin missed
        => ToShared(res[r].inst, res[r].host)
  BY <1>1, <1>3 DEF ChangesComing, SharedComing
<1>6. /\ since[res[r].host] \in 0..MaxSince
      /\ shared[CacheOf(res[r].inst)][res[r].host] \in Entry \union {NoEntry}
  BY <1>1, <1>3, <1>4 DEF TypeOK
<1> QED
  BY <1>1, <1>2, <1>3, <1>4, <1>5, <1>6

\* What does not move in a step of a request.
LEMMA CachesAsTheyWere ==
    ASSUME RouteInv
    PROVE  /\ UNCHANGED shared =>
                /\ shared' \in [Caches -> [Hosts -> Entry \union {NoEntry}]]
                /\ \A c \in Caches, h \in Hosts : shared'[c][h] \in {shared[c][h], NoEntry}
           /\ UNCHANGED local =>
                /\ local' \in [Instances -> Seq(Element)] /\ \A i \in Instances : Once(local'[i])
                /\ \A i \in Instances : \A x \in Held(i)' : x \in Held(i)
BY DEF RouteInv, TypeOK, Whole, Held, Elements

\* The request ends, or goes on without routes.
LEMMA RequestEmpty ==
    ASSUME RouteInv, NEW r \in Resolvers, res'[r].pc \notin {"setShared", "add"}
    PROVE  ResAge(r)' /\ ~Outdated(r)'
BY DEF ResAge, Outdated

\* A request that fails ends with nothing.
LEMMA ResolveFailsKeeps ==
    ASSUME RouteInv, NEW r \in Resolvers, ResolveFails(r) PROVE RouteInv'
<1>1. /\ res' = [res EXCEPT ![r] = IdleRes]
      /\ UNCHANGED <<setup, services, version, shared, local, bus, adm, missed, lost, since>>
  BY DEF ResolveFails, ReturnRes
<1>2. IdleRes \in Res /\ ResWhole(IdleRes)
  BY Blanks DEF ResWhole
<1>3. res'[r].pc = "idle"
  BY <1>1, Blanks DEF RouteInv, TypeOK
<1> QED
  BY <1>1, <1>2, <1>3, RequestEmpty, CachesAsTheyWere, RequestMoves

\* An expired element is dropped from the map.
LEMMA ResolveDropKeeps ==
    ASSUME RouteInv, NEW r \in Resolvers, ResolveDrop(r) PROVE RouteInv'
<1>a. PICK c, h, q : /\ c = CacheOf(res[r].inst) /\ h = res[r].host /\ q = [res[r] EXCEPT !.pc = "db"]
  OBVIOUS
<1>1. /\ res[r].pc = "drop" /\ res' = [res EXCEPT ![r] = q] /\ shared' = [shared EXCEPT ![c][h] = NoEntry]
      /\ UNCHANGED <<setup, services, version, local, bus, adm, missed, lost, since>>
  BY <1>a DEF ResolveDrop
<1>2. /\ TypeOK /\ res[r] \in Res /\ ResWhole(res[r]) /\ h \in Hosts /\ c \in Caches
  BY <1>1, <1>a, RequestIs
<1>3. q \in Res /\ q.pc = "db" /\ q.inst = res[r].inst /\ q.host = h
  BY <1>2, <1>a DEF Res
<1>4. ResWhole(q)
  BY <1>1, <1>2, <1>3, <1>a DEF ResWhole
<1>5. res'[r].pc = "db"
  BY <1>1, <1>2, <1>3 DEF TypeOK
<1>6. shared \in [Caches -> [Hosts -> Entry \union {NoEntry}]]
  BY <1>2 DEF TypeOK
<1>7. shared' \in [Caches -> [Hosts -> Entry \union {NoEntry}]]
  BY <1>1, <1>2, <1>6
<1>8. \A k \in Caches, g \in Hosts : shared'[k][g] \in {shared[k][g], NoEntry}
  BY <1>1, <1>2, <1>6
<1> QED
  BY <1>1, <1>3, <1>4, <1>5, <1>7, <1>8, RequestEmpty, CachesAsTheyWere, RequestMoves

\* The routes of the database are those of the host.
LEMMA ResolveStoreKeeps ==
    ASSUME RouteInv, NEW r \in Resolvers, ResolveStore(r) PROVE RouteInv'
<1>a. PICK h, e, q : /\ h = res[r].host
                     /\ e = [routes |-> RoutesOf(services, h), ttl |-> SharedTTL, raced |-> FALSE, slow |-> FALSE]
                     /\ q = [res[r] EXCEPT !.pc = "setShared", !.entry = e]
  OBVIOUS
<1>1. /\ res[r].pc = "db" /\ res' = [res EXCEPT ![r] = q]
      /\ UNCHANGED <<setup, services, version, shared, local, bus, adm, missed, lost, since>>
  BY <1>a DEF ResolveStore
<1>2. /\ TypeOK /\ res[r] \in Res /\ ResWhole(res[r]) /\ h \in Hosts
  BY <1>1, <1>a, RequestIs
<1>3. e \in Entry
  <2>1. RoutesOf(services, h) \in Routes
    <3>1. \A x : At(services, x) \subseteq Services \X (0..MaxVersion)
      <4> SUFFICES ASSUME NEW x, NEW s \in Services, services[s].host = x, services[s].enabled
                   PROVE  services[s].ver \in 0..MaxVersion
        BY DEF At
      <4> QED
        BY <1>2 DEF TypeOK, Row, NoRow
    <3> QED
      BY <3>1 DEF RoutesOf, Routes
  <2>2. SharedTTL \in -1..(SharedTTL + LocalTTL)
    OBVIOUS
  <2> QED
    BY <1>a, <2>1, <2>2 DEF Entry
<1>4. q \in Res /\ q.pc = "setShared" /\ q.inst = res[r].inst /\ q.host = h /\ q.entry = e
  BY <1>2, <1>3, <1>a DEF Res
<1>5. ResWhole(q)
  BY <1>1, <1>2, <1>3, <1>4, <1>a DEF ResWhole
<1>6. res'[r] = q
  BY <1>1, <1>2 DEF TypeOK
<1>7. ~Outdated(r)' /\ ResAge(r)'
  <2>1. RoutesOf(services, h)' = RoutesOf(services, h)
    BY <1>1, RoutesStay
  <2>2. e.routes = RoutesOf(services, h)
    BY <1>a
  <2> QED
    BY <1>4, <1>6, <2>1, <2>2 DEF Outdated, Current, ResAge
<1> QED
  BY <1>1, <1>4, <1>5, <1>7, CachesAsTheyWere, RequestMoves

\* The cache answers, or does not.
LEMMA ResolveSharedKeeps ==
    ASSUME RouteInv, NEW r \in Resolvers, ResolveShared(r) PROVE RouteInv'
<1>a. PICK h, i, e : h = res[r].host /\ i = res[r].inst /\ e = shared[CacheOf(i)][h]
  OBVIOUS
<1>1. /\ res[r].pc = "shared"
      /\ UNCHANGED <<setup, services, version, shared, local, bus, adm, missed, lost, since>>
      /\ \/ e # NoEntry /\ e.ttl >= 0 /\ res' = [res EXCEPT ![r] = [@ EXCEPT !.pc = "add", !.entry = Kept(e)]]
         \/ \E pc \in {"drop", "db"} : res' = [res EXCEPT ![r] = [@ EXCEPT !.pc = pc]]
  BY <1>a DEF ResolveShared
<1>2. /\ TypeOK /\ AgesInStep /\ ChangesComing /\ res[r] \in Res /\ ResWhole(res[r]) /\ h \in Hosts
      /\ i \in setup.hubs /\ i \in Instances /\ CacheOf(i) \in Caches /\ since[h] \in 0..MaxSince
      /\ e \in Entry \union {NoEntry}
  BY <1>1, <1>a, RequestIs
<1>3. CASE \E pc \in {"drop", "db"} : res' = [res EXCEPT ![r] = [@ EXCEPT !.pc = pc]]
  <2>1. PICK pc \in {"drop", "db"} : res' = [res EXCEPT ![r] = [@ EXCEPT !.pc = pc]]
    BY <1>3
  <2>2. PICK q : q = [res[r] EXCEPT !.pc = pc]
    OBVIOUS
  <2>3. q \in Res /\ q.pc = pc /\ q.inst = i /\ q.host = h
    BY <1>2, <1>a, <2>2 DEF Res
  <2>4. ResWhole(q)
    BY <1>2, <2>3 DEF ResWhole
  <2>5. res' = [res EXCEPT ![r] = q] /\ res'[r] = q
    BY <1>2, <2>1, <2>2 DEF TypeOK
  <2> QED
    BY <1>1, <2>3, <2>4, <2>5, RequestEmpty, CachesAsTheyWere, RequestMoves
<1>4. CASE e # NoEntry /\ e.ttl >= 0 /\ res' = [res EXCEPT ![r] = [@ EXCEPT !.pc = "add", !.entry = Kept(e)]]
  <2>1. PICK g, q : g = Kept(e) /\ q = [res[r] EXCEPT !.pc = "add", !.entry = g]
    OBVIOUS
  <2>2. e \in Entry
    BY <1>2, <1>4
  <2>3. g \in Entry /\ g.routes = e.routes /\ g.raced = e.raced /\ g.slow = e.slow
    <3>1. SharedTTL \in -1..(SharedTTL + LocalTTL)
      OBVIOUS
    <3> QED
      BY <2>1, <2>2, <3>1 DEF Kept, Entry
  <2>4. q \in Res /\ q.pc = "add" /\ q.inst = i /\ q.host = h /\ q.entry = g
    BY <1>2, <1>a, <2>1, <2>3 DEF Res
  <2>5. ResWhole(q)
    BY <1>2, <2>3, <2>4 DEF ResWhole
  <2>6. res' = [res EXCEPT ![r] = q] /\ res'[r] = q
    BY <1>2, <1>4, <2>1 DEF TypeOK
  <2>7. RoutesOf(services, h)' = RoutesOf(services, h)
    BY <1>1, RoutesStay
  <2>8. Outdated(r)' <=> ~Current(e, h)
    BY <2>3, <2>4, <2>6, <2>7 DEF Outdated, Current
  <2>9. Valid(e)
    BY <1>4 DEF Valid
  <2>10. ResAge(r)'
    <3>1. SharedAge(e, h)
      BY <1>2, <1>a DEF AgesInStep
    <3>2. PICK n, t : n = since[h] /\ t = e.ttl
      OBVIOUS
    <3>3. ~Current(e, h) /\ ~e.slow => n + t <= SharedTTL
      BY <2>9, <3>1, <3>2 DEF SharedAge, Overdue
    <3>4. n \in Int /\ t \in Int /\ t >= 0
      BY <1>2, <1>4, <2>2, <3>2 DEF Entry, MaxSince
    <3>5. ~Current(e, h) /\ ~e.slow => n <= SharedTTL
      BY <3>3, <3>4
    <3> QED
      BY <1>1, <2>3, <2>4, <2>6, <2>8, <3>2, <3>5 DEF ResAge
  <2>11. Outdated(r)' /\ ~q.entry.raced /\ Tracked(q.host) /\ CacheOf(q.inst) \notin missed
           => ToShared(q.inst, q.host)
    BY <1>2, <1>a, <2>3, <2>4, <2>8, <2>9 DEF ChangesComing, SharedComing, Unseen
  <2> QED
    BY <1>1, <2>4, <2>5, <2>6, <2>10, <2>11, CachesAsTheyWere, RequestMoves
<1> QED
  BY <1>1, <1>3, <1>4

\* SetRoutesForHost stores what the request holds.
LEMMA SetSharedKeeps ==
    ASSUME RouteInv, NEW r \in Resolvers, SetShared(r) PROVE RouteInv'
<1>a. PICK h, i, c, e, g, q : /\ h = res[r].host /\ i = res[r].inst /\ c = CacheOf(i) /\ e = res[r].entry
                              /\ g = Kept(e) /\ q = [res[r] EXCEPT !.pc = "add"]
  OBVIOUS
<1>1. /\ res[r].pc = "setShared" /\ res' = [res EXCEPT ![r] = q]
      /\ UNCHANGED <<setup, services, version, local, bus, adm, missed, lost, since>>
      /\ shared' = [shared EXCEPT ![c][h] = g] \/ UNCHANGED shared
  BY <1>a DEF SetShared
<1>2. /\ TypeOK /\ res[r] \in Res /\ ResWhole(res[r]) /\ ResAge(r) /\ h \in Hosts
      /\ i \in setup.hubs /\ i \in Instances /\ c \in Caches /\ since[h] \in 0..MaxSince /\ e \in Entry
      /\ Outdated(r) /\ ~e.raced /\ Tracked(h) /\ c \notin missed => ToShared(i, h)
  BY <1>1, <1>a, RequestIs
<1>3. g \in Entry /\ g.routes = e.routes /\ g.raced = e.raced /\ g.slow = e.slow /\ g.ttl = SharedTTL
  <2>1. SharedTTL \in -1..(SharedTTL + LocalTTL)
    OBVIOUS
  <2> QED
    BY <1>2, <1>a, <2>1 DEF Kept, Entry
<1>4. q \in Res /\ q.pc = "add" /\ q.inst = i /\ q.host = h /\ q.entry = e
  BY <1>2, <1>a DEF Res
<1>5. ResWhole(q)
  BY <1>2, <1>4 DEF ResWhole
<1>6. res'[r] = q
  BY <1>1, <1>2 DEF TypeOK
<1>7. RoutesOf(services, h)' = RoutesOf(services, h)
  BY <1>1, RoutesStay
<1>8. (Outdated(r)' <=> Outdated(r)) /\ (Outdated(r) <=> ~Current(e, h))
  BY <1>1, <1>4, <1>6, <1>7, <1>a DEF Outdated, Current
<1>9. PICK n : n = since[h]
  OBVIOUS
<1>10. n \in Nat /\ (~Current(e, h) /\ ~e.slow => n <= 0)
  <2>1. n \in Nat
    BY <1>2, <1>9 DEF MaxSince
  <2> QED
    BY <1>1, <1>2, <1>8, <1>9, <1>a, <2>1 DEF ResAge
<1>11. ResAge(r)'
  <2>1. ~Current(e, h) /\ ~e.slow => n <= SharedTTL
    BY <1>10
  <2> QED
    BY <1>1, <1>4, <1>6, <1>8, <1>9, <2>1 DEF ResAge
<1>12. SharedAge(g, h)
  <2>1. ~Current(e, h) /\ ~e.slow => n + SharedTTL <= SharedTTL
    BY <1>10
  <2>2. Overdue(g, h) => ~Current(e, h) /\ ~e.slow
    BY <1>3 DEF Overdue, Current
  <2>3. SharedTTL <= SharedTTL
    OBVIOUS
  <2> QED
    BY <1>3, <1>9, <2>1, <2>2, <2>3 DEF SharedAge
<1>13. Unseen(g, h) => Outdated(r) /\ ~e.raced
  BY <1>3, <1>8 DEF Unseen, Current
<1>14. \A k : c = CacheOf(k) /\ Tracked(h) /\ c \notin missed /\ Unseen(g, h) => ToShared(k, h)
  BY <1>2, <1>13, <1>a, SameCache
<1>15. Outdated(r)' /\ ~q.entry.raced /\ Tracked(q.host) /\ CacheOf(q.inst) \notin missed
         => ToShared(q.inst, q.host)
  BY <1>2, <1>4, <1>8, <1>a
<1>16. CASE UNCHANGED shared
  BY <1>1, <1>4, <1>5, <1>11, <1>15, <1>16, CachesAsTheyWere, RequestMoves
<1>17. CASE shared' = [shared EXCEPT ![c][h] = g]
  <2>1. shared \in [Caches -> [Hosts -> Entry \union {NoEntry}]]
    BY <1>2 DEF TypeOK
  <2>2. shared' \in [Caches -> [Hosts -> Entry \union {NoEntry}]]
    BY <1>2, <1>3, <1>17, <2>1
  <2>3. shared'[c][h] = g /\ \A k \in Caches, x \in Hosts : k # c \/ x # h => shared'[k][x] = shared[k][x]
    BY <1>2, <1>17, <2>1
  <2>4. \A k \in Caches, x \in Hosts :
          \/ shared'[k][x] \in {shared[k][x], NoEntry}
          \/ /\ SharedAge(shared'[k][x], x)
             /\ \A j \in setup.hubs : k = CacheOf(j) /\ Tracked(x) /\ k \notin missed
                                      /\ Unseen(shared'[k][x], x) => ToShared(j, x)
    <3> SUFFICES ASSUME NEW k \in Caches, NEW x \in Hosts
                 PROVE  \/ shared'[k][x] \in {shared[k][x], NoEntry}
                        \/ /\ SharedAge(shared'[k][x], x)
                           /\ \A j \in setup.hubs : k = CacheOf(j) /\ Tracked(x) /\ k \notin missed
                                                    /\ Unseen(shared'[k][x], x) => ToShared(j, x)
      OBVIOUS
    <3>1. PICK y : y = shared'[k][x]
      OBVIOUS
    <3>2. CASE k = c /\ x = h
      BY <1>12, <1>14, <2>3, <3>2
    <3>3. CASE k # c \/ x # h
      BY <2>3, <3>3
    <3> QED
      BY <3>2, <3>3
  <2> QED
    BY <1>1, <1>4, <1>5, <1>11, <1>15, <2>2, <2>4, CachesAsTheyWere, RequestMoves
<1> QED
  BY <1>1, <1>16, <1>17

\* The request compiles its routes into the LRU.
LEMMA AddLocalKeeps ==
    ASSUME RouteInv, NEW r \in Resolvers, AddLocal(r) PROVE RouteInv'
<1>a. PICK h, i, e, g : h = res[r].host /\ i = res[r].inst /\ e = res[r].entry /\ g = LocalLife(e)
  OBVIOUS
<1>1. /\ res[r].pc = "add" /\ res' = [res EXCEPT ![r] = IdleRes]
      /\ local' = [local EXCEPT ![i] = Add(@, h, g)]
      /\ UNCHANGED <<setup, services, version, shared, bus, adm, missed, lost, since>>
  BY <1>a DEF AddLocal, ReturnRes
<1>2. /\ TypeOK /\ Whole /\ ChangesComing /\ ResAge(r) /\ h \in Hosts
      /\ i \in setup.hubs /\ i \in Instances /\ since[h] \in 0..MaxSince /\ e \in Entry
      /\ Outdated(r) /\ ~e.raced /\ Tracked(h) /\ CacheOf(i) \notin missed => ToShared(i, h)
  BY <1>1, <1>a, RequestIs
<1>3. g \in Entry /\ g.routes = e.routes /\ g.raced = e.raced /\ g.slow = e.slow /\ g.ttl = LocalTTL
  <2>1. LocalTTL \in -1..(SharedTTL + LocalTTL)
    OBVIOUS
  <2> QED
    BY <1>2, <1>a, <2>1 DEF LocalLife, Entry
<1>4. IdleRes \in Res /\ ResWhole(IdleRes)
  BY Blanks DEF ResWhole
<1>5. res'[r].pc = "idle"
  BY <1>1, <1>2, Blanks DEF TypeOK
<1>6. Outdated(r) <=> ~Current(e, h)
  BY <1>1, <1>a DEF Outdated
<1>7. PICK x0 : x0 = [host |-> h, entry |-> g]
  OBVIOUS
<1>8. x0.host = h /\ x0.entry = g
  BY <1>7
<1>9. LocalAge(x0)
  <2>1. PICK n : n = since[h]
    OBVIOUS
  <2>2. n \in Nat /\ (~Current(e, h) /\ ~e.slow => n <= SharedTTL)
    <3>1. n \in Nat
      BY <1>2, <2>1 DEF MaxSince
    <3> QED
      BY <1>1, <1>2, <1>6, <1>a, <2>1, <3>1 DEF ResAge
  <2>3. ~Current(e, h) /\ ~e.slow => n + LocalTTL <= SharedTTL + LocalTTL
    BY <2>2
  <2>4. Overdue(g, h) => ~Current(e, h) /\ ~e.slow
    BY <1>3 DEF Overdue, Current
  <2>5. LocalTTL <= LocalTTL
    OBVIOUS
  <2> QED
    BY <1>3, <1>8, <2>1, <2>3, <2>4, <2>5 DEF LocalAge
<1>10. Tracked(h) /\ i \notin missed /\ Unseen(g, h) => ToLocal(i, h)
  <2>1. Unseen(g, h) => Outdated(r) /\ ~e.raced
    BY <1>3, <1>6 DEF Unseen, Current
  <2>2. i \notin missed => CacheOf(i) \notin missed
    BY <1>2 DEF ChangesComing
  <2> QED
    BY <1>2, <2>1, <2>2, SharedThenLocal
<1>11. local \in [Instances -> Seq(Element)] /\ \A k \in Instances : Once(local[k])
  BY <1>2 DEF TypeOK, Whole
<1>12. PICK l : l = Add(local[i], h, g)
  OBVIOUS
<1>13. /\ l \in Seq(Element) /\ Once(l)
       /\ \A x \in Elements(l) : x = x0 \/ x \in Elements(local[i])
  BY <1>2, <1>3, <1>7, <1>11, <1>12, AddIs
<1>14. /\ local' \in [Instances -> Seq(Element)] /\ local'[i] = l
       /\ \A k \in Instances : k # i => local'[k] = local[k]
  BY <1>1, <1>2, <1>11, <1>12, <1>13
<1>15. \A k \in Instances : Once(local'[k])
  BY <1>11, <1>13, <1>14
<1>16. \A k \in Instances : \A x \in Held(k)' : x \in Held(k) \/ (k = i /\ x = x0)
  <2>1. \A k \in Instances : Held(k)' = Elements(local'[k])
    BY DEF Held, Elements
  <2> QED
    BY <1>13, <1>14, <2>1 DEF Held
<1>17. \A k \in Instances : \A x \in Held(k)' :
         \/ x \in Held(k)
         \/ /\ LocalAge(x)
            /\ k \in setup.hubs /\ Tracked(x.host) /\ k \notin missed /\ Unseen(x.entry, x.host)
                 => ToLocal(k, x.host)
  BY <1>8, <1>9, <1>10, <1>16
<1> QED
  BY <1>1, <1>4, <1>5, <1>14, <1>15, <1>17, RequestEmpty, CachesAsTheyWere, RequestMoves

\* The LRU answers, or lets an expired element go.
LEMMA ResolveLocalKeeps ==
    ASSUME RouteInv, NEW r \in Resolvers, NEW i \in setup.hubs, NEW h \in setup.asked, ResolveLocal(r, i, h)
    PROVE  RouteInv'
<1>1. UNCHANGED <<setup, services, version, shared, bus, adm, missed, lost, since>> /\ res[r].pc = "idle"
  BY DEF ResolveLocal
<1>2. TypeOK /\ Whole
  BY DEF RouteInv
<1>3. i \in Instances /\ h \in Hosts
  BY <1>2, SetupIs
<1>4. /\ local \in [Instances -> Seq(Element)] /\ \A k \in Instances : Once(local[k])
      /\ res \in [Resolvers -> Res]
  BY <1>2 DEF TypeOK, Whole
<1>5. ASSUME NEW l, l \in Seq(Element), Once(l), Elements(l) \subseteq Elements(local[i]),
             local' = [local EXCEPT ![i] = l],
             NEW q \in Res, ResWhole(q), q.pc \notin {"setShared", "add"}, res' = [res EXCEPT ![r] = q]
      PROVE  RouteInv'
  <2>1. /\ local' \in [Instances -> Seq(Element)] /\ local'[i] = l
        /\ \A k \in Instances : k # i => local'[k] = local[k]
    BY <1>3, <1>4, <1>5
  <2>2. \A k \in Instances : Once(local'[k])
    BY <1>4, <1>5, <2>1
  <2>3. \A k \in Instances : \A x \in Held(k)' : x \in Held(k)
    <3>1. \A k \in Instances : Held(k)' = Elements(local'[k])
      BY DEF Held, Elements
    <3> QED
      BY <1>5, <2>1, <3>1 DEF Held
  <2>4. res'[r] = q
    BY <1>4, <1>5
  <2> QED
    BY <1>1, <1>5, <2>1, <2>2, <2>3, <2>4, RequestEmpty, CachesAsTheyWere, RequestMoves
<1>6. CASE /\ Has(local[i], h) /\ local' = [local EXCEPT ![i] = Add(@, h, Find(@, h))]
           /\ UNCHANGED res
  <2>1. PICK lru, e, l : lru = local[i] /\ e = Find(lru, h) /\ l = Add(lru, h, e)
    OBVIOUS
  <2>2. lru \in Seq(Element) /\ Once(lru)
    BY <1>3, <1>4, <2>1
  <2>3. PICK x0 \in Elements(lru) : x0.host = h /\ x0.entry = e
    BY <1>6, <2>1, <2>2, FindIs
  <2>4. x0 \in Element
    BY <2>2, Positions
  <2>5. e \in Entry /\ x0 = [host |-> h, entry |-> e]
    BY <2>3, <2>4 DEF Element
  <2>6. l \in Seq(Element) /\ Once(l) /\ Elements(l) \subseteq Elements(lru)
    BY <1>3, <2>1, <2>2, <2>3, <2>5, AddIs
  <2>7. local' = [local EXCEPT ![i] = l]
    BY <1>6, <2>1
  <2>8. PICK q : q = res[r]
    OBVIOUS
  <2>9. q \in Res /\ ResWhole(q) /\ q.pc \notin {"setShared", "add"} /\ res' = [res EXCEPT ![r] = q]
    BY <1>1, <1>2, <1>4, <1>6, <2>8 DEF Whole
  <2> QED
    BY <1>5, <2>1, <2>6, <2>7, <2>9
<1>7. CASE /\ local' = [local EXCEPT ![i] = Remove(@, h)]
           /\ res' = [res EXCEPT ![r] = [IdleRes EXCEPT !.pc = "shared", !.inst = i, !.host = h]]
  <2>1. PICK l, q : l = Remove(local[i], h) /\ q = [IdleRes EXCEPT !.pc = "shared", !.inst = i, !.host = h]
    OBVIOUS
  <2>2. l \in Seq(Element) /\ Once(l) /\ Elements(l) \subseteq Elements(local[i])
    BY <1>3, <1>4, <2>1, RemoveIs
  <2>3. q \in Res /\ q.pc = "shared" /\ q.inst = i /\ q.host = h
    BY <1>3, <2>1 DEF IdleRes, Res
  <2>4. ResWhole(q)
    BY <1>3, <2>3 DEF ResWhole
  <2>5. local' = [local EXCEPT ![i] = l] /\ res' = [res EXCEPT ![r] = q]
    BY <1>7, <2>1
  <2> QED
    BY <1>5, <2>2, <2>3, <2>4, <2>5
<1> QED
  BY <1>6, <1>7 DEF ResolveLocal

-----------------------------------------------------------------------------
(* The bus, and time.                                                      *)

\* What is announced after the head of the bus is announced in its tail.
LEMMA TailAnnounces ==
    ASSUME NEW i, bus[i] \in Seq(Hosts \union {Wild}), bus[i] # <<>>, bus'[i] = Tail(bus[i]), NEW h,
           Announced(i, h), ~Concerns(Head(bus[i]), h)
    PROVE  Announced(i, h)'
<1> DEFINE b == bus[i]
           n == Len(b)
           t == Tail(b)
           m == Len(t)
<1>1. n \in Nat /\ DOMAIN b = 1..n /\ Head(b) = b[1]
  BY LenProperties, HeadTailProperties
<1>2. t \in Seq(Hosts \union {Wild}) /\ m = n - 1 /\ \A k \in 1..m : t[k] = b[k + 1]
  BY HeadTailProperties
<1>3. DOMAIN t = 1..m
  BY <1>2, LenProperties
<1>4. PICK k \in 1..n : Concerns(b[k], h)
  BY <1>1 DEF Announced
<1> HIDE DEF b, n, t, m
<1>5. k # 1
  BY <1>1, <1>4 DEF b
<1>6. k - 1 \in 1..m /\ (k - 1) + 1 = k
  BY <1>1, <1>2, <1>5
<1>7. t[k - 1] = b[k]
  BY <1>2, <1>6
<1>8. \E j \in DOMAIN t : Concerns(t[j], h)
  BY <1>3, <1>4, <1>6, <1>7
<1> QED
  BY <1>8 DEF Announced, Concerns, t, b

\* An LRU that only loses elements, when every host it still has is announced
\* as it was.
LEMMA LocalShrinks ==
    ASSUME RouteInv, NEW i \in Instances, NEW l \in Seq(Element), Once(l),
           local' = [local EXCEPT ![i] = l], Elements(l) \subseteq Held(i),
           UNCHANGED <<setup, services, version, shared, res, adm, missed, lost, since>>,
           bus' \in [Instances -> Seq(Hosts \union {Wild})],
           \A k \in Instances, h \in Hosts : k # i /\ Announced(k, h) => Announced(k, h)',
           \A x \in Elements(l) : Announced(i, x.host) => Announced(i, x.host)'
    PROVE  RouteInv'
<1>0. TypeOK /\ Whole /\ AgesInStep /\ ChangesComing
  BY DEF RouteInv
<1>1. /\ local \in [Instances -> Seq(Element)] /\ \A k \in Instances : Once(local[k])
      /\ res' \in [Resolvers -> Res]
  BY <1>0 DEF TypeOK, Whole
<1>2. /\ local' \in [Instances -> Seq(Element)] /\ local'[i] = l
      /\ \A k \in Instances : k # i => local'[k] = local[k]
  BY <1>1
<1>3. \A k \in Instances : Once(local'[k])
  BY <1>1, <1>2
<1>4. \A k \in Instances : Held(k)' = Elements(local'[k])
  BY DEF Held, Elements
<1>5. \A k \in Instances : \A x \in Held(k)' : x \in Held(k)
  BY <1>2, <1>4 DEF Held
<1>6. \A h : RoutesOf(services, h)' = RoutesOf(services, h)
  BY RoutesStay
<1>7. \A r \in Resolvers : ResWhole(res'[r]) /\ ResAge(r)' /\ (Outdated(r)' <=> Outdated(r))
  BY <1>0, <1>6 DEF Whole, AgesInStep, ResAge, Outdated, Current
<1>8. \A k \in setup.hubs, h \in Hosts : Tracked(h) /\ CacheOf(k) \notin missed =>
               /\ Unseen(shared'[CacheOf(k)][h], h) => ToShared(k, h)
               /\ \A r \in Resolvers : Outdated(r)' /\ ~res'[r].entry.raced
                                       /\ res'[r].inst = k /\ res'[r].host = h => ToShared(k, h)
  BY <1>0, <1>7 DEF ChangesComing, SharedComing
<1>9. ASSUME NEW k \in setup.hubs, NEW h \in Hosts, Tracked(h), k \notin missed, NEW x \in Held(k)',
             x.host = h, Unseen(x.entry, h)
      PROVE  ToLocal(k, h) \/ Announced(k, h)'
  <2>1. k \in Instances /\ LocalComing(k, h)
    BY <1>0, <1>9, SetupIs DEF ChangesComing
  <2>2. ToLocal(k, h) \/ Announced(k, h)
    BY <1>5, <1>9, <2>1 DEF LocalComing
  <2>3. k = i => x \in Elements(l)
    BY <1>2, <1>4, <1>9, <2>1
  <2> QED
    BY <1>9, <2>1, <2>2, <2>3
<1> QED
  BY <1>1, <1>2, <1>3, <1>5, <1>7, <1>8, <1>9, CachesAsTheyWere, CachesMove

\* The goroutine of Start handles an announced host.
LEMMA HandleEventKeeps ==
    ASSUME RouteInv, NEW i \in setup.hubs, HandleEvent(i) PROVE RouteInv'
<1>0. TypeOK /\ Whole /\ i \in Instances
  BY SetupIs DEF RouteInv
<1>a. PICK x, l : x = Head(bus[i]) /\ l = DropLocal(local[i], x)
  OBVIOUS
<1>1. /\ bus[i] # <<>> /\ local' = [local EXCEPT ![i] = l] /\ bus' = [bus EXCEPT ![i] = Tail(@)]
      /\ UNCHANGED <<setup, services, version, shared, res, adm, missed, lost, since>>
  BY <1>a DEF HandleEvent
<1>2. /\ bus \in [Instances -> Seq(Hosts \union {Wild})] /\ bus[i] \in Seq(Hosts \union {Wild})
      /\ local[i] \in Seq(Element) /\ Once(local[i])
  BY <1>0 DEF TypeOK, Whole
<1>3. x \in Hosts \union {Wild} /\ Tail(bus[i]) \in Seq(Hosts \union {Wild})
  BY <1>1, <1>2, <1>a, HeadTailProperties
<1>4. /\ l \in Seq(Element) /\ Once(l)
      /\ Elements(l) = {y \in Held(i) : ~Concerns(x, y.host)}
  BY <1>2, <1>3, <1>a, DropIs DEF Held
<1>5. /\ bus' \in [Instances -> Seq(Hosts \union {Wild})] /\ bus'[i] = Tail(bus[i])
      /\ \A k \in Instances : k # i => bus'[k] = bus[k]
  BY <1>0, <1>1, <1>2, <1>3
<1>6. \A k \in Instances, h \in Hosts : k # i /\ Announced(k, h) => Announced(k, h)'
  BY <1>5 DEF Announced, Concerns
<1>7. \A y \in Elements(l) : Announced(i, y.host) => Announced(i, y.host)'
  <2> SUFFICES ASSUME NEW y \in Elements(l), Announced(i, y.host) PROVE Announced(i, y.host)'
    OBVIOUS
  <2>1. PICK h : h = y.host
    OBVIOUS
  <2>2. ~Concerns(Head(bus[i]), h)
    BY <1>4, <1>a, <2>1
  <2>3. Announced(i, h)'
    BY <1>1, <1>2, <1>5, <2>1, <2>2, TailAnnounces
  <2> QED
    BY <2>1, <2>3
<1> QED
  BY <1>0, <1>1, <1>4, <1>5, <1>6, <1>7, LocalShrinks

\* SyncAllServicesFromDB purges the LRU.
LEMMA PurgeLocalKeeps ==
    ASSUME RouteInv, NEW i \in setup.hubs, PurgeLocal(i) PROVE RouteInv'
<1>0. TypeOK /\ i \in Instances
  BY SetupIs DEF RouteInv
<1>1. /\ local' = [local EXCEPT ![i] = <<>>]
      /\ UNCHANGED <<setup, services, version, shared, bus, res, adm, missed, lost, since>>
  BY DEF PurgeLocal
<1>2. <<>> \in Seq(Element) /\ Once(<<>>) /\ Elements(<<>>) = {}
  <2>1. <<>> \in Seq(Element) /\ DOMAIN <<>> = {}
    OBVIOUS
  <2> QED
    BY <2>1 DEF Once, Elements
<1>3. bus' \in [Instances -> Seq(Hosts \union {Wild})] /\ \A k, h : Announced(k, h) => Announced(k, h)'
  BY <1>0, <1>1 DEF TypeOK, Announced
<1> QED
  BY <1>0, <1>1, <1>2, <1>3, LocalShrinks

\* An entry a tick later: no longer valid, or the same with a tick less to go.
LEMMA AgedIs ==
    ASSUME NEW e \in Entry
    PROVE  /\ Aged(e) \in Entry /\ Aged(e).ttl <= e.ttl
           /\ Valid(Aged(e)) => /\ Valid(e) /\ Aged(e).ttl = e.ttl - 1 /\ Aged(e).routes = e.routes
                                /\ Aged(e).raced = e.raced /\ Aged(e).slow = e.slow
<1>0. e.ttl \in -1..(SharedTTL + LocalTTL) /\ e # NoEntry
  BY Blanks DEF Entry
<1>1. CASE e.ttl <= 0
  <2>1. Aged(e) = [routes |-> {}, ttl |-> -1, raced |-> FALSE, slow |-> FALSE]
    BY <1>1 DEF Aged
  <2>2. {} \in Routes /\ -1 \in -1..(SharedTTL + LocalTTL)
    BY DEF Routes
  <2>3. Aged(e) \in Entry /\ Aged(e).ttl = -1
    BY <2>1, <2>2 DEF Entry
  <2>4. -1 <= e.ttl /\ ~(-1 >= 0)
    BY <1>0
  <2> QED
    BY <2>3, <2>4 DEF Valid
<1>2. CASE ~(e.ttl <= 0)
  <2>1. PICK t, g : t = e.ttl /\ g = [e EXCEPT !.ttl = t - 1]
    OBVIOUS
  <2>2. Aged(e) = g
    BY <1>2, <2>1 DEF Aged
  <2>3. t - 1 \in -1..(SharedTTL + LocalTTL) /\ t - 1 <= t /\ t >= 0
    BY <1>0, <1>2, <2>1
  <2>4. /\ g \in Entry /\ g.ttl = t - 1 /\ g.routes = e.routes /\ g.raced = e.raced
        /\ g.slow = e.slow
    BY <2>1, <2>3 DEF Entry
  <2> QED
    BY <1>0, <2>1, <2>2, <2>3, <2>4 DEF Valid
<1> QED
  BY <1>1, <1>2

\* The same for the cache, where Redis removes the entry.
LEMMA AgeSharedIs ==
    ASSUME NEW e \in Entry \union {NoEntry}
    PROVE  /\ AgeShared(e) \in Entry \union {NoEntry}
           /\ AgeShared(e) = NoEntry \/ (e \in Entry /\ AgeShared(e) = Aged(e))
BY AgedIs DEF AgeShared

\* The elements of an LRU a tick later.
LEMMA AgedElements ==
    ASSUME NEW lru \in Seq(Element), Once(lru), NEW l,
           l = [k \in DOMAIN lru |-> [lru[k] EXCEPT !.entry = Aged(@)]]
    PROVE  /\ l \in Seq(Element) /\ Once(l)
           /\ \A x \in Elements(l) : \E y \in Elements(lru) :
                y \in Element /\ x.host = y.host /\ x.entry = Aged(y.entry)
<1>1. PICK n : n = Len(lru)
  OBVIOUS
<1>2. /\ n \in Nat /\ DOMAIN lru = 1..n
      /\ \A k \in 1..n : lru[k] \in Element /\ lru[k] \in Elements(lru)
  BY <1>1, Positions
<1>3. DOMAIN l = 1..n /\ l = [k \in 1..n |-> l[k]]
  BY <1>2
<1>4. ASSUME NEW k \in 1..n
      PROVE  l[k] \in Element /\ l[k].host = lru[k].host /\ l[k].entry = Aged(lru[k].entry)
  <2>1. PICK y, g : y = lru[k] /\ g = Aged(y.entry)
    OBVIOUS
  <2>2. y \in Element /\ l[k] = [y EXCEPT !.entry = g]
    BY <1>2, <2>1
  <2>3. y.entry \in Entry
    BY <2>2 DEF Element
  <2>4. g \in Entry
    BY <2>1, <2>3, AgedIs
  <2>5. l[k] \in Element /\ l[k].host = y.host /\ l[k].entry = g
    BY <2>2, <2>4 DEF Element
  <2> QED
    BY <2>1, <2>5
<1>a. \A k \in 1..n : l[k] \in Element /\ l[k].host = lru[k].host /\ l[k].entry = Aged(lru[k].entry)
  BY <1>4
<1>5. l \in Seq(Element)
  <2>1. l \in [1..n -> Element]
    BY <1>3, <1>a
  <2> QED
    BY <1>2, <2>1, SeqDef, Zenon
<1>6. Once(l)
  <2> SUFFICES ASSUME NEW j \in 1..n, NEW k \in 1..n, l[j].host = l[k].host PROVE j = k
    BY <1>3 DEF Once
  <2>1. lru[j].host = lru[k].host
    BY <1>a
  <2> QED
    BY <1>2, <2>1 DEF Once
<1>7. \A x \in Elements(l) : \E k \in 1..n : x = l[k]
  BY <1>3 DEF Elements
<1>8. ASSUME NEW x \in Elements(l)
      PROVE  \E y \in Elements(lru) : y \in Element /\ x.host = y.host /\ x.entry = Aged(y.entry)
  <2>1. PICK k \in 1..n : x = l[k]
    BY <1>7
  <2>2. PICK y : y = lru[k]
    OBVIOUS
  <2>3. y \in Elements(lru) /\ y \in Element /\ x.host = y.host /\ x.entry = Aged(y.entry)
    BY <1>2, <1>a, <2>1, <2>2
  <2> QED
    BY <2>3
<1> QED
  BY <1>5, <1>6, <1>8

\* Lifetimes run.
LEMMA TickKeeps == ASSUME RouteInv, Tick PROVE RouteInv'
<1>0. TypeOK /\ Whole /\ AgesInStep /\ ChangesComing
  BY DEF RouteInv
<1>1. /\ shared' = [c \in Caches |-> [h \in Hosts |-> AgeShared(shared[c][h])]]
      /\ local' = [i \in Instances |-> [k \in DOMAIN local[i] |-> [local[i][k] EXCEPT !.entry = Aged(@)]]]
      /\ res' = [r \in Resolvers |-> IF Outdated(r) THEN [res[r] EXCEPT !.entry.slow = TRUE]
                                     ELSE res[r]]
      /\ since' = [h \in Hosts |-> IF ~Lingers(h) THEN 0
                                   ELSE IF since[h] < MaxSince THEN since[h] + 1 ELSE MaxSince]
      /\ UNCHANGED <<setup, services, version, bus, adm, missed, lost>>
  BY DEF Tick
<1>2. \A h : RoutesOf(services, h)' = RoutesOf(services, h)
  BY <1>1, RoutesStay
<1>3. ASSUME NEW c \in Caches, NEW h \in Hosts
      PROVE  /\ shared'[c][h] \in Entry \union {NoEntry}
             /\ shared'[c][h] = NoEntry \/ (shared[c][h] \in Entry /\ shared'[c][h] = Aged(shared[c][h]))
  <2>1. PICK e : e = shared[c][h]
    OBVIOUS
  <2>2. e \in Entry \union {NoEntry}
    BY <1>0, <2>1 DEF TypeOK
  <2>3. shared'[c][h] = AgeShared(e)
    BY <1>1, <2>1
  <2> QED
    BY <2>1, <2>2, <2>3, AgeSharedIs
<1>4. shared' \in [Caches -> [Hosts -> Entry \union {NoEntry}]]
  <2>1. \A c \in Caches : shared'[c] = [h \in Hosts |-> AgeShared(shared[c][h])]
    BY <1>1
  <2>2. \A c \in Caches : shared'[c] \in [Hosts -> Entry \union {NoEntry}]
    <3> SUFFICES ASSUME NEW c \in Caches PROVE shared'[c] \in [Hosts -> Entry \union {NoEntry}]
      OBVIOUS
    <3>1. shared'[c] = [h \in Hosts |-> AgeShared(shared[c][h])]
      BY <2>1
    <3>2. \A h \in Hosts : AgeShared(shared[c][h]) = shared'[c][h]
      BY <3>1
    <3> QED
      BY <1>3, <3>1, <3>2
  <2>3. shared' = [c \in Caches |-> shared'[c]]
    BY <1>1
  <2> QED
    BY <2>2, <2>3
<1>5. \A i \in Instances :
        /\ local'[i] \in Seq(Element) /\ Once(local'[i])
        /\ \A x \in Elements(local'[i]) : \E y \in Held(i) :
             y \in Element /\ x.host = y.host /\ x.entry = Aged(y.entry)
  <2> SUFFICES ASSUME NEW i \in Instances
               PROVE  /\ local'[i] \in Seq(Element) /\ Once(local'[i])
                      /\ \A x \in Elements(local'[i]) : \E y \in Held(i) :
                           y \in Element /\ x.host = y.host /\ x.entry = Aged(y.entry)
    OBVIOUS
  <2>1. PICK lru, l : lru = local[i] /\ l = local'[i]
    OBVIOUS
  <2>2. lru \in Seq(Element) /\ Once(lru) /\ l = [k \in DOMAIN lru |-> [lru[k] EXCEPT !.entry = Aged(@)]]
    BY <1>0, <1>1, <2>1 DEF TypeOK, Whole
  <2>3. /\ l \in Seq(Element) /\ Once(l)
        /\ \A x \in Elements(l) : \E y \in Elements(lru) :
             y \in Element /\ x.host = y.host /\ x.entry = Aged(y.entry)
    BY <2>2, AgedElements
  <2> QED
    BY <2>1, <2>3 DEF Held
<1>6. local' \in [Instances -> Seq(Element)]
  <2>1. local' = [i \in Instances |-> local'[i]]
    BY <1>1
  <2> QED
    BY <1>5, <2>1
<1>7. \A i \in Instances : Held(i)' = Elements(local'[i])
  BY DEF Held, Elements
<1>8. ASSUME NEW r \in Resolvers
      PROVE  /\ res'[r] \in Res /\ ResWhole(res[r])' /\ (Outdated(r)' => Outdated(r) /\ res'[r].entry.slow)
             /\ res'[r].host = res[r].host /\ res'[r].inst = res[r].inst
             /\ Outdated(r)' => res'[r].entry.raced = res[r].entry.raced
  <2>0. res[r] \in Res /\ ResWhole(res[r])
    BY <1>0 DEF TypeOK, Whole
  <2>1. CASE ~Outdated(r)
    <3>1. res'[r] = res[r]
      BY <1>1, <2>1
    <3> QED
      BY <1>1, <1>2, <2>0, <2>1, <3>1 DEF ResWhole, Outdated, Current
  <2>2. CASE Outdated(r)
    <3>1. PICK e, g : e = res[r].entry /\ g = [e EXCEPT !.slow = TRUE]
      OBVIOUS
    <3>2. e \in Entry
      BY <2>0, <2>2, <3>1 DEF ResWhole, Outdated
    <3>3. g \in Entry /\ g.slow = TRUE /\ g.raced = e.raced
      BY <3>1, <3>2 DEF Entry
    <3>4. res'[r] = [res[r] EXCEPT !.entry = g]
      BY <1>1, <2>2, <3>1
    <3>5. /\ res'[r] \in Res /\ res'[r].pc = res[r].pc /\ res'[r].host = res[r].host
          /\ res'[r].inst = res[r].inst /\ res'[r].entry = g
      BY <2>0, <3>3, <3>4 DEF Res
    <3>6. ResWhole(res[r])'
      BY <1>1, <2>0, <3>3, <3>5 DEF ResWhole
    <3> QED
      BY <2>2, <3>1, <3>3, <3>5, <3>6
  <2> QED
    BY <2>1, <2>2
<1>9. \A h \in Hosts : since[h] \in Nat /\ since'[h] \in 0..MaxSince /\ since'[h] <= since[h] + 1
  <2> SUFFICES ASSUME NEW h \in Hosts
               PROVE  since[h] \in Nat /\ since'[h] \in 0..MaxSince /\ since'[h] <= since[h] + 1
    OBVIOUS
  <2>1. PICK n, m : n = since[h] /\ m = MaxSince
    OBVIOUS
  <2>2. n \in 0..m /\ m \in Nat
    BY <1>0, <2>1 DEF TypeOK, MaxSince
  <2>3. since'[h] \in {0, IF n < m THEN n + 1 ELSE m}
    BY <1>1, <2>1
  <2>4. \A v \in {0, IF n < m THEN n + 1 ELSE m} : v \in 0..m /\ v <= n + 1
    BY <2>2
  <2> QED
    BY <2>1, <2>2, <2>3, <2>4
<1>10. TypeOK'
  <2>1. res' \in [Resolvers -> Res]
    <3>1. res' = [r \in Resolvers |-> res'[r]]
      BY <1>1
    <3> QED
      BY <1>8, <3>1
  <2>2. since' \in [Hosts -> 0..MaxSince]
    <3>1. since' = [h \in Hosts |-> since'[h]]
      BY <1>1
    <3> QED
      BY <1>9, <3>1
  <2> QED
    BY <1>0, <1>1, <1>4, <1>6, <2>1, <2>2 DEF TypeOK
<1>11. Whole'
  BY <1>0, <1>1, <1>5, <1>8 DEF Whole, AdmWhole, Once
<1>12. ASSUME NEW c \in Caches, NEW h \in Hosts PROVE SharedAge(shared[c][h], h)'
  <2>1. PICK e, g, n, m : e = shared[c][h] /\ g = shared'[c][h] /\ n = since[h] /\ m = since'[h]
    OBVIOUS
  <2>2. g = NoEntry \/ (e \in Entry /\ g = Aged(e))
    BY <1>3, <2>1
  <2>3. CASE g = NoEntry
    <3>1. g.ttl = -2 /\ ~Valid(g)
      BY <2>3, Blanks DEF Valid
    <3>2. -2 <= SharedTTL
      OBVIOUS
    <3> QED
      BY <2>1, <3>1, <3>2 DEF SharedAge, Overdue, Valid
  <2>4. CASE e \in Entry /\ g = Aged(e)
    <3>1. /\ g \in Entry /\ g.ttl <= e.ttl
          /\ Valid(g) => Valid(e) /\ g.ttl = e.ttl - 1 /\ g.routes = e.routes /\ g.slow = e.slow
      BY <2>4, AgedIs
    <3>2. SharedAge(e, h)
      BY <1>0, <2>1 DEF AgesInStep
    <3>3. PICK t, u : t = e.ttl /\ u = g.ttl
      OBVIOUS
    <3>4. t \in Int /\ u \in Int /\ n \in Int /\ m \in Int /\ m <= n + 1
      BY <1>9, <2>1, <2>4, <3>1, <3>3 DEF Entry, MaxSince
    <3>5. t <= SharedTTL /\ u <= t
      BY <3>1, <3>2, <3>3 DEF SharedAge
    <3>6. u <= SharedTTL
      BY <3>4, <3>5
    <3>7. ASSUME Valid(g), ~g.slow, g.routes # RoutesOf(services, h) PROVE m + u <= SharedTTL
      <4>1. Overdue(e, h) /\ u = t - 1
        BY <3>1, <3>3, <3>7 DEF Overdue, Current
      <4>2. n + t <= SharedTTL
        BY <2>1, <3>2, <3>3, <4>1 DEF SharedAge
      <4> QED
        BY <3>4, <4>1, <4>2
    <3>8. Overdue(shared[c][h], h)' => Valid(g) /\ ~g.slow /\ g.routes # RoutesOf(services, h)
      BY <1>2, <2>1 DEF Overdue, Valid, Current
    <3> QED
      BY <2>1, <3>3, <3>6, <3>7, <3>8 DEF SharedAge
  <2> QED
    BY <2>2, <2>3, <2>4
<1>13. ASSUME NEW i \in Instances, NEW x \in Held(i)' PROVE LocalAge(x)'
  <2>1. PICK y \in Held(i) : y \in Element /\ x.host = y.host /\ x.entry = Aged(y.entry)
    BY <1>5, <1>7, <1>13
  <2>2. PICK h, e, g, n, m : h = y.host /\ e = y.entry /\ g = x.entry /\ n = since[h] /\ m = since'[h]
    OBVIOUS
  <2>3. e \in Entry /\ h \in Hosts /\ x.host = h
    BY <2>1, <2>2 DEF Element
  <2>4. /\ g \in Entry /\ g.ttl <= e.ttl
        /\ Valid(g) => Valid(e) /\ g.ttl = e.ttl - 1 /\ g.routes = e.routes /\ g.slow = e.slow
    BY <2>1, <2>2, <2>3, AgedIs
  <2>5. LocalAge(y)
    BY <1>0 DEF AgesInStep
  <2>6. PICK t, u : t = e.ttl /\ u = g.ttl
    OBVIOUS
  <2>7. t \in Int /\ u \in Int /\ n \in Int /\ m \in Int /\ m <= n + 1
    BY <1>9, <2>2, <2>3, <2>4, <2>6 DEF Entry, MaxSince
  <2>8. t <= LocalTTL /\ u <= t
    BY <2>2, <2>4, <2>5, <2>6 DEF LocalAge
  <2>9. u <= LocalTTL
    BY <2>7, <2>8
  <2>10. ASSUME Valid(g), ~g.slow, g.routes # RoutesOf(services, h) PROVE m + u <= SharedTTL + LocalTTL
    <3>1. Overdue(e, h) /\ u = t - 1
      BY <2>4, <2>6, <2>10 DEF Overdue, Current
    <3>2. n + t <= SharedTTL + LocalTTL
      BY <2>2, <2>5, <2>6, <3>1 DEF LocalAge
    <3> QED
      BY <2>7, <3>1, <3>2
  <2>11. Overdue(x.entry, x.host)' => Valid(g) /\ ~g.slow /\ g.routes # RoutesOf(services, h)
    BY <1>2, <2>2, <2>3 DEF Overdue, Valid, Current
  <2> QED
    BY <2>2, <2>3, <2>6, <2>9, <2>10, <2>11 DEF LocalAge
<1>14. \A r \in Resolvers : ResAge(r)'
  BY <1>8 DEF ResAge
<1>15. AgesInStep'
  BY <1>12, <1>13, <1>14 DEF AgesInStep
<1>16. \A b, i, h : /\ Due(b, i, h, BeforePublish)' <=> Due(b, i, h, BeforePublish)
                    /\ Due(b, i, h, BeforeCompare)' <=> Due(b, i, h, BeforeCompare)
  BY <1>1 DEF Due, First, Second, Beyond, Now, BeforePublish, BeforeCompare, CacheOf, UseRedis
<1>17. \A i, h : (ToShared(i, h)' <=> ToShared(i, h)) /\ (ToLocal(i, h)' <=> ToLocal(i, h))
  BY <1>16 DEF ToShared, ToLocal
<1>18. /\ \A h : Tracked(h)' <=> Tracked(h)
       /\ \A i : CacheOf(i)' = CacheOf(i)
       /\ \A i, h : Announced(i, h)' <=> Announced(i, h)
  BY <1>1 DEF Tracked, CacheOf, UseRedis, Announced
<1>19. \A e \in Entry : \A h : Unseen(Aged(e), h) => Unseen(e, h)
  BY AgedIs DEF Unseen, Current
<1>20. \A e, h : Unseen(e, h)' <=> Unseen(e, h)
  BY <1>2 DEF Unseen, Valid, Current
<1>21. ASSUME NEW i \in setup.hubs, NEW h \in Hosts, SharedComing(i, h) PROVE SharedComing(i, h)'
  <2>0. PICK c, e, g : c = CacheOf(i) /\ e = shared[c][h] /\ g = shared'[c][h]
    OBVIOUS
  <2>1. c \in Caches
    BY <1>0, <2>0, SetupIs
  <2>2. g = NoEntry \/ (e \in Entry /\ g = Aged(e))
    BY <1>3, <2>0, <2>1
  <2>3. ~Unseen(NoEntry, h)
    BY DEF Unseen, Valid
  <2>4. Unseen(g, h) => Unseen(e, h)
    BY <1>19, <2>2, <2>3
  <2>5. Unseen(shared[CacheOf(i)][h], h)' => Unseen(g, h)
    BY <1>2, <1>18, <2>0 DEF Unseen, Valid, Current
  <2>6. Unseen(e, h) => ToShared(i, h)
    BY <1>21, <2>0 DEF SharedComing
  <2> QED
    BY <1>8, <1>17, <1>21, <2>4, <2>5, <2>6 DEF SharedComing
<1>22. ASSUME NEW i \in setup.hubs, NEW h \in Hosts, LocalComing(i, h) PROVE LocalComing(i, h)'
  <2>1. i \in Instances
    BY <1>0, SetupIs
  <2>2. ASSUME NEW x \in Held(i)', x.host = h, Unseen(x.entry, h) PROVE ToLocal(i, h) \/ Announced(i, h)
    <3>1. PICK y \in Held(i) : y \in Element /\ x.host = y.host /\ x.entry = Aged(y.entry)
      BY <1>5, <1>7, <2>1, <2>2
    <3>2. y.entry \in Entry
      BY <3>1 DEF Element
    <3>3. y.host = h /\ Unseen(y.entry, h)
      BY <1>19, <2>2, <3>1, <3>2
    <3> QED
      BY <1>22, <3>3 DEF LocalComing
  <2> QED
    BY <1>17, <1>18, <1>20, <2>2 DEF LocalComing
<1>23. ChangesComing'
  BY <1>0, <1>1, <1>18, <1>21, <1>22 DEF ChangesComing
<1> QED
  BY <1>10, <1>11, <1>15, <1>23 DEF RouteInv

-----------------------------------------------------------------------------
(* The theorems.                                                           *)

\* Empty caches, no handler and no request.
LEMMA RouteInitially == Init => RouteInv
<1> SUFFICES ASSUME Init PROVE RouteInv
  OBVIOUS
<1>1. setup \in Setups /\ setup.rows \subseteq NewRow
  BY SetupsAssumption DEF Init
<1>2. \A r \in NewRow : r \in Row
  BY DEF NewRow, Row
<1>3. services \in [Services -> Row \union {NoRow}]
  BY <1>1, <1>2 DEF Init
<1>4. /\ shared = [c \in Caches |-> [h \in Hosts |-> NoEntry]] /\ local = [i \in Instances |-> <<>>]
      /\ bus = [i \in Instances |-> <<>>] /\ res = [r \in Resolvers |-> IdleRes]
      /\ adm = [a \in Admins |-> IdleAdm] /\ missed = {} /\ lost = {} /\ since = [h \in Hosts |-> 0]
      /\ version = 0
  BY DEF Init
<1>5. <<>> \in Seq(Element) /\ <<>> \in Seq(Hosts \union {Wild}) /\ DOMAIN <<>> = {}
  OBVIOUS
<1>6. TypeOK
  <2>1. 0 \in 0..MaxVersion /\ 0 \in 0..MaxSince
    BY DEF MaxSince
  <2>2. adm \in [Admins -> Adm] /\ res \in [Resolvers -> Res]
    BY <1>4, Blanks
  <2>3. shared \in [Caches -> [Hosts -> Entry \union {NoEntry}]]
    BY <1>4
  <2>4. local \in [Instances -> Seq(Element)] /\ bus \in [Instances -> Seq(Hosts \union {Wild})]
    BY <1>4, <1>5
  <2> QED
    BY <1>1, <1>3, <1>4, <2>1, <2>2, <2>3, <2>4 DEF TypeOK
<1>7. \A i \in Instances : Once(local[i]) /\ Held(i) = {}
  BY <1>4, <1>5 DEF Once, Held, Elements
<1>8. (\A r \in Resolvers : res[r].pc = "idle") /\ \A a \in Admins : adm[a].pc = "idle"
  BY <1>4, Blanks
<1>9. Whole
  BY <1>7, <1>8 DEF Whole, AdmWhole, ResWhole
<1>10. \A r \in Resolvers : ~Outdated(r)
  BY <1>8 DEF Outdated
<1>11. \A c \in Caches, h \in Hosts : shared[c][h] = NoEntry
  BY <1>4
<1>12. ~Valid(NoEntry) /\ NoEntry.ttl <= SharedTTL
  <2>1. NoEntry.ttl = -2
    BY Blanks
  <2> QED
    BY <2>1 DEF Valid
<1>13. AgesInStep
  <2>1. \A c \in Caches, h \in Hosts : SharedAge(shared[c][h], h)
    BY <1>11, <1>12 DEF SharedAge, Overdue
  <2> QED
    BY <1>7, <1>10, <2>1 DEF AgesInStep, ResAge
<1>14. ChangesComing
  <2> SUFFICES ASSUME NEW i \in setup.hubs PROVE /\ CacheOf(i) \in missed => i \in missed
                                                 /\ \A h \in Hosts : SharedComing(i, h) /\ LocalComing(i, h)
    BY DEF ChangesComing
  <2>1. i \in Instances /\ CacheOf(i) \in Caches
    BY <1>6, SetupIs
  <2> QED
    BY <1>4, <1>7, <1>10, <1>11, <1>12, <2>1 DEF SharedComing, LocalComing, Unseen
<1> QED
  BY <1>6, <1>9, <1>13, <1>14 DEF RouteInv

\* Every step keeps the invariant.
LEMMA RouteNext == RouteInv /\ [Next]_vars => RouteInv'
<1> SUFFICES ASSUME RouteInv, [Next]_vars PROVE RouteInv'
  OBVIOUS
<1>1. CASE Tick
  BY <1>1, TickKeeps
<1>2. ASSUME NEW i \in setup.hubs, HandleEvent(i) \/ PurgeLocal(i) PROVE RouteInv'
  BY <1>2, HandleEventKeeps, PurgeLocalKeeps
<1>3. ASSUME NEW i \in setup.hubs, NEW r \in Resolvers, NEW h \in setup.asked, ResolveLocal(r, i, h)
      PROVE  RouteInv'
  BY <1>3, ResolveLocalKeeps
<1>4. ASSUME NEW i \in setup.hubs, NEW a \in setup.handlers, NEW s \in Services,
             \/ LoadForDelete(a, i, s) \/ Redeploy(a, i, s)
             \/ \E to \in setup.rows : LoadService(a, i, s, to)
      PROVE  RouteInv'
  <2>1. a \in Admins
    BY SetupIs DEF RouteInv
  <2> QED
    BY <1>4, <2>1, LoadsKeep
<1>5. ASSUME NEW i \in setup.hubs, NEW a \in setup.handlers, NEW s \in Services, NEW to \in setup.rows,
             CreateService(a, i, s, to)
      PROVE  RouteInv'
  <2>1. a \in Admins
    BY SetupIs DEF RouteInv
  <2> QED
    BY <1>5, <2>1, CreateServiceKeeps
<1>6. ASSUME NEW r \in Resolvers, ResolveStep(r) \/ ResolveFails(r) PROVE RouteInv'
  BY <1>6, ResolveSharedKeeps, ResolveDropKeeps, ResolveStoreKeeps, SetSharedKeeps, AddLocalKeeps,
     ResolveFailsKeeps DEF ResolveStep
<1>7. ASSUME NEW a \in Admins, ChangeStep(a) \/ ChangeFails(a) PROVE RouteInv'
  BY <1>7, SaveServiceKeeps, DeleteServiceKeeps, ApplyReadsKeep, ApplySaveKeeps, InvalidateLocalKeeps,
     InvalidateSharedKeeps, PublishKeeps, ComparePreviousKeeps, ChangeDoneKeeps, ChangeFailsKeeps
     DEF ChangeStep
<1>8. CASE UNCHANGED vars
  <2>1. UNCHANGED <<setup, services, version, shared, local, bus, res, adm, missed, lost, since>>
    BY <1>8 DEF vars
  <2>2. TypeOK /\ Whole /\ AgesInStep /\ ChangesComing
    BY DEF RouteInv
  <2>3. /\ bus' \in [Instances -> Seq(Hosts \union {Wild})] /\ res' \in [Resolvers -> Res]
        /\ \A r \in Resolvers : ResWhole(res'[r])
    BY <2>1, <2>2 DEF TypeOK, Whole
  <2>4. \A h : RoutesOf(services, h)' = RoutesOf(services, h)
    BY <2>1, RoutesStay
  <2>5. \A r \in Resolvers : ResAge(r)' /\ (Outdated(r)' <=> Outdated(r))
    BY <2>1, <2>2, <2>4 DEF AgesInStep, ResAge, Outdated, Current
  <2>6. \A i \in setup.hubs, h \in Hosts : Tracked(h) /\ CacheOf(i) \notin missed =>
               /\ Unseen(shared'[CacheOf(i)][h], h) => ToShared(i, h)
               /\ \A r \in Resolvers : Outdated(r)' /\ ~res'[r].entry.raced
                                       /\ res'[r].inst = i /\ res'[r].host = h => ToShared(i, h)
    BY <2>1, <2>2, <2>5 DEF ChangesComing, SharedComing
  <2>7. \A i \in setup.hubs, h \in Hosts : Tracked(h) /\ i \notin missed =>
           \A x \in Held(i)' : x.host = h /\ Unseen(x.entry, h) => ToLocal(i, h) \/ Announced(i, h)'
    BY <2>1, <2>2 DEF ChangesComing, LocalComing, Held, Elements, Announced
  <2> QED
    BY <2>1, <2>3, <2>5, <2>6, <2>7, CachesAsTheyWere, CachesMove
<1> QED
  BY <1>1, <1>2, <1>3, <1>4, <1>5, <1>6, <1>7, <1>8 DEF Next

\* Whatever is outdated in a cache, in an LRU or with a request has an
\* invalidation to come, or less time to live than it has been outdated.
THEOREM RouteInvariant == Spec => []RouteInv
BY RouteInitially, RouteNext, PTL DEF Spec

\* The invariant when no handler is under way.
LEMMA NothingComing == RouteInv => SuccessVisible
<1> SUFFICES ASSUME RouteInv, \A a \in Admins : adm[a].pc \in {"idle", "done"},
                    NEW i \in setup.hubs, NEW h \in Hosts, Tracked(h)
             PROVE  /\ CacheOf(i) \notin missed =>
                         LET e == shared[CacheOf(i)][h] IN Valid(e) => e.raced \/ Current(e, h)
                    /\ i \notin missed /\ Has(local[i], h) =>
                         LET e == Find(local[i], h) IN
                         Valid(e) => e.raced \/ Current(e, h) \/ Announced(i, h)
  BY DEF SuccessVisible
<1>1. TypeOK /\ ChangesComing
  BY DEF RouteInv
<1>2. i \in Instances /\ local[i] \in Seq(Element)
  BY <1>1, SetupIs DEF TypeOK
<1>3. \A a \in Admins : ~Due(a, i, h, BeforePublish) /\ ~Due(a, i, h, BeforeCompare)
  BY NotDue
<1>4. ~ToShared(i, h) /\ ~ToLocal(i, h)
  BY <1>3 DEF ToShared, ToLocal
<1>5. CacheOf(i) \notin missed => ~Unseen(shared[CacheOf(i)][h], h)
  BY <1>1, <1>4 DEF ChangesComing, SharedComing
<1>6. ASSUME i \notin missed, Has(local[i], h) PROVE ~Unseen(Find(local[i], h), h) \/ Announced(i, h)
  <2>1. PICK x \in Held(i) : x.host = h /\ x.entry = Find(local[i], h)
    BY <1>2, <1>6, FindIs DEF Held
  <2>2. LocalComing(i, h)
    BY <1>1, <1>6 DEF ChangesComing
  <2> QED
    BY <1>4, <2>1, <2>2 DEF LocalComing
<1> QED
  BY <1>5, <1>6 DEF Unseen

\* When every change handler has reported success, no process that heard of
\* every change holds outdated routes but those a request or the bus is late
\* with, whatever the number of hubs, services, handlers and requests
\* (handleUpdateService, handleDeleteService, InvalidateHost).
THEOREM ChangesVisible == Spec => []SuccessVisible
BY RouteInvariant, NothingComing, PTL

\* The ages of the LRU.
LEMMA AgesBound == RouteInv => StaleBounded
<1> SUFFICES ASSUME RouteInv, NEW i \in Instances, NEW h \in Hosts, Has(local[i], h),
                    Valid(Find(local[i], h)), ~Find(local[i], h).slow, ~Current(Find(local[i], h), h)
             PROVE  since[h] <= SharedTTL + LocalTTL
  BY DEF StaleBounded
<1>1. TypeOK /\ AgesInStep
  BY DEF RouteInv
<1>2. local[i] \in Seq(Element) /\ since[h] \in 0..MaxSince
  BY <1>1 DEF TypeOK
<1>3. PICK x \in Held(i) : x.host = h /\ x.entry = Find(local[i], h)
  BY <1>2, FindIs DEF Held
<1>4. x \in Element /\ LocalAge(x)
  BY <1>1, <1>2, Positions DEF Held, AgesInStep
<1>5. PICK n, t : n = since[h] /\ t = x.entry.ttl
  OBVIOUS
<1>6. t >= 0 /\ n + t <= SharedTTL + LocalTTL
  BY <1>3, <1>4, <1>5 DEF LocalAge, Overdue, Valid
<1>7. t \in Int /\ n \in Int
  BY <1>2, <1>4, <1>5 DEF Element, Entry, MaxSince
<1>8. n <= SharedTTL + LocalTTL
  BY <1>6, <1>7
<1> QED
  BY <1>5, <1>8

\* No process serves routes that were outdated more than the two cache
\* lifetimes ago, whatever the lifetimes and whatever was lost or failed
\* (localCache.Get, GetRoutesForHost, SetRoutesForHost).
THEOREM StalenessBounded == Spec => []StaleBounded
BY RouteInvariant, AgesBound, PTL
=============================================================================
