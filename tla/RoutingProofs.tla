---------------------------- MODULE RoutingProofs ---------------------------
(***************************************************************************)
(* The routing table for any number of routes.  The three indexes of an    *)
(* instance are brought together by two facts: the turns of the loop in    *)
(* NewWithConfirmMulti, by induction on the instances it has looked at,    *)
(* and what Load has checked of the default backend and the routes that    *)
(* it has accepted so far.                                                 *)
(***************************************************************************)
EXTENDS Dispatch, QueueLemmas, TLAPS

-----------------------------------------------------------------------------
(* The loop of NewWithConfirmMulti                                         *)

\* What f holds after turn k of the loop, from what it holds after the turn before.
Turn(bs, f, k) ==
  IF k = 0 THEN <<>>
  ELSE IF HasUnloader(bs[k]) THEN Append(f[k - 1], bs[k].url)
  ELSE f[k - 1]

\* The loop may run for any number of turns.
LEMMA TurnsExist ==
  ASSUME NEW bs, NEW n \in Nat
  PROVE  \E f : f = [k \in 0..n |-> Turn(bs, f, k)]
  <1> DEFINE H == {m \in 0..n : ~\E f : f = [k \in 0..m |-> Turn(bs, f, k)]}
  <1>1. SUFFICES H = {}
    OBVIOUS
  <1>2. SUFFICES ASSUME H # {} PROVE FALSE
    OBVIOUS
  <1>3. IsFiniteSet(H) /\ H \in SUBSET Int
    <2>1. IsFiniteSet(0..n)
      BY FS_Interval
    <2> QED BY <2>1, FS_Subset
  <1>4. PICK m \in H : \A h \in H : m <= h
    <2> HIDE DEF H
    <2> QED BY <1>2, <1>3, FiniteMinMax
  <1>5. m \in 0..n /\ ~\E f : f = [k \in 0..m |-> Turn(bs, f, k)]
    BY <1>4
  <1>6. CASE m = 0
    <2> DEFINE f == [k \in 0..0 |-> <<>>]
    <2>1. f = [k \in 0..0 |-> Turn(bs, f, k)]
      <3>1. ASSUME NEW k \in 0..0 PROVE Turn(bs, f, k) = <<>>
        BY DEF Turn
      <3> QED BY <3>1
    <2> HIDE DEF f
    <2> QED BY <1>5, <1>6, <2>1
  <1>7. CASE m # 0
    <2>1. m - 1 \in 0..n /\ ~(m <= m - 1) /\ m \in 1..n
      BY <1>5, <1>7
    <2>2. PICK g : g = [k \in 0..(m - 1) |-> Turn(bs, g, k)]
      BY <1>4, <2>1
    <2> DEFINE f == [k \in 0..m |-> IF k < m THEN g[k] ELSE Turn(bs, g, k)]
    <2>3. f = [k \in 0..m |-> Turn(bs, f, k)]
      <3>1. ASSUME NEW k \in 0..m PROVE f[k] = Turn(bs, f, k)
        <4>1. k # 0 => k - 1 \in 0..(m - 1) /\ f[k - 1] = g[k - 1]
          BY <2>1
        <4>2. Turn(bs, f, k) = Turn(bs, g, k)
          <5> HIDE DEF f
          <5> QED BY <4>1 DEF Turn
        <4>3. k < m => g[k] = Turn(bs, g, k)
          <5>1. k < m => k \in 0..(m - 1)
            BY <2>1
          <5> QED BY <2>2, <5>1
        <4> QED BY <4>2, <4>3
      <3> QED BY <3>1
    <2> HIDE DEF f
    <2> QED BY <1>5, <2>3
  <1> QED BY <1>6, <1>7

\* Filtered is what the loop computes.
LEMMA FilteredTurns ==
  ASSUME NEW S, NEW bs \in Seq(S), NEW k \in 0..Len(bs)
  PROVE  Filtered(bs)[k] = Turn(bs, Filtered(bs), k)
  <1> DEFINE P(f) == f = [j \in 0..Len(bs) |-> Turn(bs, f, j)]
  <1>1. Filtered(bs) = CHOOSE f : P(f)
    BY DEF Filtered, Turn
  <1>2. \E f : P(f)
    <2>1. Len(bs) \in Nat
      OBVIOUS
    <2> QED BY <2>1, TurnsExist, Zenon
  <1>3. P(Filtered(bs))
    BY <1>1, <1>2
  <1> QED BY <1>3

\* After turn k the Unloader of each of the first k instances that has one stands at the index
\* the instance was given, and every Unloader is some instance's.
FilteredTo(bs, k) ==
  LET F == Filtered(bs) IN
  /\ F[k] \in Seq({bs[j].url : j \in DOMAIN bs})
  /\ \A j \in 1..k : HasUnloader(bs[j]) =>
       /\ Len(F[j]) \in 1..Len(F[k])
       /\ F[k][Len(F[j])] = bs[j].url
  /\ \A p \in 1..Len(F[k]) : \E j \in 1..k : HasUnloader(bs[j]) /\ Len(F[j]) = p

LEMMA FilteredTurn ==
  ASSUME NEW S, NEW bs \in Seq(S), NEW k \in 1..Len(bs), FilteredTo(bs, k - 1)
  PROVE  FilteredTo(bs, k)
  <1> DEFINE F == Filtered(bs)
             U == {bs[j].url : j \in DOMAIN bs}
  <1>0. /\ k - 1 \in 0..Len(bs) /\ k \in 0..Len(bs) /\ k # 0 /\ k \in DOMAIN bs
        /\ 1..k = (1..(k - 1)) \cup {k}
    OBVIOUS
  <1>1. /\ F[k - 1] \in Seq(U)
        /\ \A j \in 1..(k - 1) : HasUnloader(bs[j]) =>
             /\ Len(F[j]) \in 1..Len(F[k - 1])
             /\ F[k - 1][Len(F[j])] = bs[j].url
        /\ \A p \in 1..Len(F[k - 1]) :
             \E j \in 1..(k - 1) : HasUnloader(bs[j]) /\ Len(F[j]) = p
    BY DEF FilteredTo
  <1>2. F[k] = IF HasUnloader(bs[k]) THEN Append(F[k - 1], bs[k].url) ELSE F[k - 1]
    BY <1>0, FilteredTurns DEF Turn
  <1>3. bs[k].url \in U
    BY <1>0
  <1>4. /\ F[k] \in Seq(U)
        /\ \A j \in 1..k : HasUnloader(bs[j]) =>
             /\ Len(F[j]) \in 1..Len(F[k])
             /\ F[k][Len(F[j])] = bs[j].url
        /\ \A p \in 1..Len(F[k]) : \E j \in 1..k : HasUnloader(bs[j]) /\ Len(F[j]) = p
    <2>1. CASE ~HasUnloader(bs[k])
      <3>1. F[k] = F[k - 1]
        BY <1>2, <2>1
      <3> HIDE DEF F, U
      <3> QED BY <1>0, <1>1, <2>1, <3>1
    <2>2. CASE HasUnloader(bs[k])
      <3> DEFINE u == bs[k].url
      <3>1. F[k] = Append(F[k - 1], u) /\ u \in U
        BY <1>2, <1>3, <2>2
      <3> HIDE DEF F, U, u
      <3>2. /\ F[k] \in Seq(U) /\ Len(F[k - 1]) \in Nat /\ Len(F[k]) = Len(F[k - 1]) + 1
            /\ F[k][Len(F[k])] = u
            /\ \A p \in 1..Len(F[k - 1]) : F[k][p] = F[k - 1][p]
        BY <1>1, <3>1
      <3>3. ASSUME NEW j \in 1..k, HasUnloader(bs[j])
            PROVE  Len(F[j]) \in 1..Len(F[k]) /\ F[k][Len(F[j])] = bs[j].url
        <4>1. CASE j = k
          BY <3>2, <4>1 DEF u
        <4>2. CASE j # k
          <5>1. j \in 1..(k - 1)
            BY <4>2
          <5>2. Len(F[j]) \in 1..Len(F[k - 1]) /\ F[k - 1][Len(F[j])] = bs[j].url
            BY <1>1, <3>3, <5>1
          <5> QED BY <3>2, <5>2
        <4> QED BY <4>1, <4>2
      <3>4. ASSUME NEW p \in 1..Len(F[k])
            PROVE  \E j \in 1..k : HasUnloader(bs[j]) /\ Len(F[j]) = p
        <4>1. CASE p = Len(F[k])
          BY <1>0, <2>2, <4>1
        <4>2. CASE p # Len(F[k])
          <5>1. p \in 1..Len(F[k - 1])
            BY <3>2, <4>2
          <5> QED BY <1>0, <1>1, <5>1
        <4> QED BY <4>1, <4>2
      <3> QED BY <3>2, <3>3, <3>4
    <2> QED BY <2>1, <2>2
  <1> QED BY <1>4 DEF FilteredTo

\* The least turn after which FilteredTo fails is not the first and, by FilteredTurn, no
\* other.
LEMMA FilteredAll ==
  ASSUME NEW S, NEW bs \in Seq(S)
  PROVE  FilteredTo(bs, Len(bs))
  <1> DEFINE H == {k \in 0..Len(bs) : ~FilteredTo(bs, k)}
  <1>0. Len(bs) \in Nat
    OBVIOUS
  <1>1. SUFFICES ASSUME H # {} PROVE FALSE
    BY <1>0
  <1>2. IsFiniteSet(H) /\ H \in SUBSET Int
    <2>1. IsFiniteSet(0..Len(bs))
      BY <1>0, FS_Interval
    <2> QED BY <2>1, FS_Subset
  <1>3. PICK k \in H : \A h \in H : k <= h
    <2> HIDE DEF H
    <2> QED BY <1>1, <1>2, FiniteMinMax
  <1>4. k \in 0..Len(bs) /\ ~FilteredTo(bs, k)
    BY <1>3
  <1>5. CASE k = 0
    <2>1. Filtered(bs)[0] = <<>>
      BY <1>0, FilteredTurns DEF Turn
    <2>2. Len(Filtered(bs)[0]) = 0
      BY <2>1
    <2>3. Filtered(bs)[0] \in Seq({bs[j].url : j \in DOMAIN bs})
      BY <2>1
    <2>4. 1..0 = {}
      OBVIOUS
    <2> QED BY <1>4, <1>5, <2>2, <2>3, <2>4 DEF FilteredTo
  <1>6. CASE k # 0
    <2>1. k \in 1..Len(bs) /\ k - 1 \in 0..Len(bs) /\ ~(k <= k - 1)
      BY <1>0, <1>4, <1>6
    <2>2. FilteredTo(bs, k - 1)
      BY <1>3, <2>1
    <2> QED BY <1>4, <2>1, <2>2, FilteredTurn
  <1> QED BY <1>5, <1>6

\* The indexes origToFiltered gives, and the Unloaders they find.
LEMMA OrigToFilteredIndex ==
  ASSUME NEW S, NEW bs \in Seq(S)
  PROVE  LET post == OrigToFiltered(bs)
             kept == Filtered(bs)[Len(bs)]
         IN  /\ DOMAIN post = 1..Len(bs) /\ Len(post) = Len(bs)
             /\ \A k \in 1..Len(bs) : post[k] # 0 <=> HasUnloader(bs[k])
             /\ \A k \in 1..Len(bs) : post[k] # 0 =>
                  post[k] \in DOMAIN kept /\ kept[post[k]] = bs[k].url
             /\ \A p \in DOMAIN kept : p # 0 /\ \E k \in 1..Len(bs) : post[k] = p
  <1> DEFINE post == OrigToFiltered(bs)
             F == Filtered(bs)
             kept == F[Len(bs)]
             U == {bs[j].url : j \in DOMAIN bs}
  <1>0. Len(bs) \in Nat /\ DOMAIN bs = 1..Len(bs)
    OBVIOUS
  <1>1. /\ kept \in Seq(U)
        /\ \A j \in 1..Len(bs) : HasUnloader(bs[j]) =>
             Len(F[j]) \in 1..Len(kept) /\ kept[Len(F[j])] = bs[j].url
        /\ \A p \in 1..Len(kept) : \E j \in 1..Len(bs) : HasUnloader(bs[j]) /\ Len(F[j]) = p
    BY FilteredAll DEF FilteredTo
  <1>2. /\ DOMAIN post = 1..Len(bs)
        /\ \A k \in 1..Len(bs) : post[k] = IF HasUnloader(bs[k]) THEN Len(F[k]) ELSE 0
        /\ post = [k \in 1..Len(bs) |-> post[k]]
    BY <1>0 DEF OrigToFiltered
  <1> HIDE DEF post, F, U
  <1>3. DOMAIN kept = 1..Len(kept) /\ Len(kept) \in Nat
    BY <1>1
  <1>4. Len(post) = Len(bs)
    <2>1. ASSUME NEW k \in 1..Len(bs) PROVE post[k] \in Nat
      BY <1>1, <1>2, <1>3
    <2>2. post \in Seq(Nat)
      BY <1>0, <1>2, <2>1
    <2> QED BY <1>0, <1>2, <2>2
  <1>5. ASSUME NEW k \in 1..Len(bs)
        PROVE  /\ post[k] # 0 <=> HasUnloader(bs[k])
               /\ post[k] # 0 => post[k] \in DOMAIN kept /\ kept[post[k]] = bs[k].url
    <2>1. CASE HasUnloader(bs[k])
      <3>1. post[k] = Len(F[k]) /\ post[k] \in 1..Len(kept) /\ kept[post[k]] = bs[k].url
        BY <1>1, <1>2, <2>1
      <3>2. post[k] # 0
        BY <1>3, <3>1
      <3> QED BY <1>3, <2>1, <3>1, <3>2
    <2>2. CASE ~HasUnloader(bs[k])
      BY <1>2, <2>2
    <2> QED BY <2>1, <2>2
  <1>6. ASSUME NEW p \in DOMAIN kept PROVE p # 0 /\ \E k \in 1..Len(bs) : post[k] = p
    <2>1. p \in 1..Len(kept)
      BY <1>3
    <2>2. p # 0
      BY <1>3, <2>1
    <2> QED BY <1>1, <1>2, <2>1, <2>2
  <1>7. DOMAIN post = 1..Len(bs)
    BY <1>2
  <1> QED BY <1>4, <1>5, <1>6, <1>7 DEF post, F

-----------------------------------------------------------------------------
(* What Load has checked                                                   *)

\* The configurations of a backend.
Backends == Defaults \cup Groups

\* The instances accepted so far differ in their URLs, the routes in their models, and none has
\* an idle timeout without a unit to stop.
Accepted ==
  /\ default \in Defaults /\ routes \in Seq(Groups)
  /\ \A k \in DOMAIN Instances : IdleOK(Instances[k])
  /\ \A k, l \in DOMAIN Instances : k # l => Instances[k].url # Instances[l].url
  /\ \A i, j \in DOMAIN routes :
       i # j => Range(routes[i].models) \cap Range(routes[j].models) = {}

\* The backend that stands for instance k.
Stands(b, k) == b.url = Instances[k].url

\* The Router, by what its backends stand for.
TableExact ==
  /\ Stands(router.def, 1)
  /\ DOMAIN router.table = UNION {Range(routes[i].models) : i \in DOMAIN routes}
  /\ \A i \in DOMAIN routes : \A m \in Range(routes[i].models) :
       /\ router.table[m].lane = routes[i].lane
       /\ Stands(router.table[m].backend, i + 1)

\* A backend is tracked under the index of its own Unloader.
Tracked(b) ==
  /\ b.track # 0 => b.track \in DOMAIN ctrl.unloaders /\ ctrl.unloaders[b.track] = b.url
  /\ \A p \in DOMAIN ctrl.idle : ctrl.idle[p] # 0 /\ ctrl.unloaders[p] = b.url => b.track = p

\* Load's checks hold of what has been accepted until it is let go, and the Router and the
\* Controller that are built from it agree from then on.
RoutingInv ==
  /\ stage \in {"load", "routes", "failed", "built", "serving"}
  /\ stage = "load" => default \in Defaults /\ routes = <<>>
  /\ stage \in {"routes", "built"} => Accepted
  /\ stage = "built" => TableExact
  /\ stage \in {"built", "serving"} =>
       Tracked(router.def) /\ \A m \in DOMAIN router.table : Tracked(router.table[m].backend)

\* The default backend d comes first, and the routes rs in their order.
LEMMA InstancesAre ==
  ASSUME NEW d \in Defaults, NEW rs \in Seq(Groups)
  PROVE  LET all == <<d>> \o rs
         IN  /\ all \in Seq(Backends)
             /\ Len(all) = Len(rs) + 1 /\ DOMAIN all = 1..(Len(rs) + 1)
             /\ DOMAIN rs = 1..Len(rs) /\ Len(rs) \in Nat
             /\ all[1] = d
             /\ \A i \in DOMAIN rs : i + 1 \in DOMAIN all /\ all[i + 1] = rs[i]
             /\ \A k \in DOMAIN all : k # 1 => k - 1 \in DOMAIN rs /\ all[k] = rs[k - 1]
             /\ all # <<>>
  <1> DEFINE B == Backends
             all == <<d>> \o rs
  <1>1. <<d>> \in Seq(B) /\ rs \in Seq(B)
    BY DEF Backends
  <1> HIDE DEF B
  <1>2. Len(rs) \in Nat /\ DOMAIN rs = 1..Len(rs) /\ Len(<<d>>) = 1 /\ <<d>>[1] = d
    OBVIOUS
  <1>3. /\ all \in Seq(B) /\ Len(all) = 1 + Len(rs)
        /\ \A k \in 1..(1 + Len(rs)) : all[k] = IF k <= 1 THEN <<d>>[k] ELSE rs[k - 1]
    BY <1>1, <1>2, ConcatProperties
  <1> HIDE DEF all
  <1>4. Len(all) = Len(rs) + 1 /\ DOMAIN all = 1..(Len(rs) + 1)
    BY <1>2, <1>3
  <1>5. all[1] = d
    BY <1>2, <1>3
  <1>6. ASSUME NEW i \in DOMAIN rs PROVE i + 1 \in DOMAIN all /\ all[i + 1] = rs[i]
    <2>1. i + 1 \in 1..(1 + Len(rs)) /\ ~(i + 1 <= 1) /\ (i + 1) - 1 = i
      BY <1>2
    <2> QED BY <1>3, <1>4, <2>1
  <1>7. ASSUME NEW k \in DOMAIN all, k # 1 PROVE k - 1 \in DOMAIN rs /\ all[k] = rs[k - 1]
    <2>1. k - 1 \in DOMAIN rs /\ k \in 1..(1 + Len(rs)) /\ ~(k <= 1)
      BY <1>2, <1>4, <1>7
    <2> QED BY <1>3, <2>1
  <1>8. all # <<>>
    <2>1. Len(all) # 0
      BY <1>2, <1>4
    <2> QED BY <2>1
  <1> QED BY <1>2, <1>3, <1>4, <1>5, <1>6, <1>7, <1>8 DEF all, B

\* The checks of the default backend are those of a configuration without routes.
LEMMA DefaultAccepted ==
  ASSUME RoutingInv, LoadDefault
  PROVE  RoutingInv'
  <1>0. /\ default \in Defaults /\ routes = <<>>
        /\ UNCHANGED <<default, routes, ctrl, router>>
        /\ stage' = IF DefaultOK(default) /\ highest <= MaxRoutes THEN "routes" ELSE "failed"
    BY DEF RoutingInv, LoadDefault, cfgVars
  <1>1. CASE stage' = "failed"
    BY <1>1 DEF RoutingInv
  <1>2. CASE stage' = "routes"
    <2>1. IdleOK(default) /\ routes \in Seq(Groups) /\ DOMAIN routes = {} /\ Len(routes) = 0
      BY <1>0, <1>2 DEF DefaultOK
    <2>2. DOMAIN Instances = 1..1 /\ Instances[1] = default
      BY <1>0, <2>1, InstancesAre DEF Instances
    <2>3. Instances' = Instances
      BY <1>0 DEF Instances
    <2>4. Accepted'
      <3>1. \A k \in DOMAIN Instances : k = 1
        BY <2>2
      <3>2. \A k \in DOMAIN Instances : IdleOK(Instances[k])'
        BY <2>1, <2>2, <2>3, <3>1 DEF IdleOK
      <3> QED BY <1>0, <2>1, <2>3, <3>1, <3>2 DEF Accepted
    <2> QED BY <1>2, <2>4 DEF RoutingInv
  <1> QED BY <1>0, <1>1, <1>2

\* A group that passes its checks joins what has been accepted.
LEMMA RouteAccepted ==
  ASSUME RoutingInv, LoadRoute
  PROVE  RoutingInv'
  <1>0. /\ Accepted /\ stage = "routes"
        /\ UNCHANGED <<default, ctrl, router>>
    BY DEF RoutingInv, LoadRoute
  <1>1. PICK g : /\ g \in Groups \cup {Unset}
                 /\ IF g # Unset /\ RouteOK(g)
                    THEN routes' = Append(routes, g) /\ UNCHANGED stage
                    ELSE stage' = "failed" /\ UNCHANGED routes
    BY DEF LoadRoute
  <1>2. CASE stage' = "failed"
    BY <1>2 DEF RoutingInv
  <1>3. CASE g # Unset /\ RouteOK(g)
    <2>1. /\ g \in Groups /\ routes' = Append(routes, g) /\ stage' = "routes"
          /\ default' = default /\ default \in Defaults /\ routes \in Seq(Groups)
      BY <1>0, <1>1, <1>3 DEF Accepted
    <2> DEFINE n == Len(routes)
    <2>2. /\ routes' \in Seq(Groups) /\ n \in Nat /\ Len(routes') = n + 1
          /\ DOMAIN routes = 1..n /\ DOMAIN routes' = 1..(n + 1)
          /\ routes'[n + 1] = g /\ \A i \in 1..n : routes'[i] = routes[i]
      BY <2>1
    <2>3. /\ DOMAIN Instances = 1..(n + 1) /\ Instances[1] = default
          /\ \A k \in 1..(n + 1) : k # 1 => k - 1 \in 1..n /\ Instances[k] = routes[k - 1]
      BY <2>1, <2>2, InstancesAre DEF Instances
    <2>4. /\ DOMAIN Instances' = 1..(n + 2) /\ Instances'[1] = default
          /\ \A k \in 1..(n + 2) : k # 1 => k - 1 \in 1..(n + 1) /\ Instances'[k] = routes'[k - 1]
      <3> DEFINE rs == routes'
      <3>1. rs \in Seq(Groups) /\ Instances' = <<default>> \o rs /\ DOMAIN rs = 1..(n + 1)
            /\ Len(rs) = n + 1 /\ (n + 1) + 1 = n + 2
        BY <2>1, <2>2 DEF Instances
      <3> HIDE DEF rs, n
      <3>2. /\ DOMAIN Instances' = 1..(n + 2) /\ Instances'[1] = default
            /\ \A k \in 1..(n + 2) : k # 1 => k - 1 \in 1..(n + 1) /\ Instances'[k] = rs[k - 1]
        BY <2>1, <3>1, InstancesAre
      <3> QED BY <3>2 DEF rs
    <2> HIDE DEF n
    <2>5. Instances'[n + 2] = g /\ \A k \in 1..(n + 1) : Instances'[k] = Instances[k]
      <3>1. Instances'[n + 2] = g
        <4>1. n + 2 \in 1..(n + 2) /\ n + 2 # 1 /\ (n + 2) - 1 = n + 1
          BY <2>2
        <4> QED BY <2>2, <2>4, <4>1
      <3>2. ASSUME NEW k \in 1..(n + 1) PROVE Instances'[k] = Instances[k]
        <4>1. k \in 1..(n + 2) /\ (k # 1 => k - 1 \in 1..n)
          BY <2>2
        <4> QED BY <2>2, <2>3, <2>4, <4>1
      <3> QED BY <3>1, <3>2
    <2>6. /\ \A k \in 1..(n + 1) : IdleOK(Instances[k]) /\ Instances[k].url # g.url
          /\ \A k, l \in 1..(n + 1) : k # l => Instances[k].url # Instances[l].url
          /\ IdleOK(g)
          /\ \A i \in 1..n : Range(routes[i].models) \cap Range(g.models) = {}
          /\ \A i, j \in 1..n : i # j => Range(routes[i].models) \cap Range(routes[j].models) = {}
      BY <1>0, <1>3, <2>2, <2>3 DEF RouteOK, Unique, Accepted
    <2>7. \A k \in 1..(n + 2) : k \in 1..(n + 1) \/ k = n + 2
      BY <2>2
    <2>8. \A i \in 1..(n + 1) : i \in 1..n \/ i = n + 1
      BY <2>2
    <2> DEFINE all == Instances'
    <2>9. \A k \in 1..(n + 2) : IdleOK(all[k])
      BY <2>5, <2>6, <2>7
    <2>10. \A k, l \in 1..(n + 2) : k # l => all[k].url # all[l].url
      BY <2>5, <2>6, <2>7
    <2>11. \A i, j \in 1..(n + 1) :
             i # j => Range(routes'[i].models) \cap Range(routes'[j].models) = {}
      BY <2>2, <2>6, <2>8
    <2>12. Accepted'
      BY <2>1, <2>2, <2>4, <2>9, <2>10, <2>11 DEF Accepted, IdleOK
    <2> QED BY <2>1, <2>12 DEF RoutingInv
  <1> QED BY <1>1, <1>2, <1>3

-----------------------------------------------------------------------------
(* buildBroker                                                             *)

\* The Controller is given no instance at all, and then the only one has no Unloader, or all.
LEMMA ControlledAre ==
  ASSUME Accepted
  PROVE  \/ /\ Controlled = <<>> /\ routes = <<>>
            /\ DOMAIN OrigToFiltered(Controlled) = {}
            /\ DOMAIN Filtered(Controlled)[Len(Controlled)] = {}
         \/ Controlled = Instances
  <1>1. CASE routes = <<>> /\ ~HasUnloader(default)
    <2>1. Controlled = <<>> /\ Controlled \in Seq(Backends)
      BY <1>1 DEF Controlled
    <2>2. Len(Controlled) = 0 /\ DOMAIN Controlled = {}
      BY <2>1
    <2>3. Filtered(Controlled)[0] = <<>>
      <3>1. 0 \in 0..Len(Controlled)
        BY <2>2
      <3>2. Filtered(Controlled)[0] = Turn(Controlled, Filtered(Controlled), 0)
        BY <2>1, <3>1, FilteredTurns
      <3> QED BY <3>2 DEF Turn
    <2> QED BY <1>1, <2>1, <2>2, <2>3 DEF OrigToFiltered
  <1>2. CASE ~(routes = <<>> /\ ~HasUnloader(default))
    BY <1>2 DEF Controlled
  <1> QED BY <1>1, <1>2

\* Load's check of an idle timeout is the one ConfigureIdle needs.
LEMMA NoPanic ==
  ASSUME Accepted
  PROVE  ~ConfigureIdlePanics(OrigToFiltered(Controlled))
  <1>1. SUFFICES ASSUME Controlled = Instances
                 PROVE  ~ConfigureIdlePanics(OrigToFiltered(Instances))
    BY ControlledAre DEF ConfigureIdlePanics
  <1>2. Instances \in Seq(Backends) /\ DOMAIN Instances = 1..Len(Instances)
    BY InstancesAre DEF Accepted, Instances
  <1> DEFINE post == OrigToFiltered(Instances)
  <1>3. /\ DOMAIN post = 1..Len(Instances) /\ Len(post) = Len(Instances)
        /\ \A k \in 1..Len(Instances) : post[k] # 0 <=> HasUnloader(Instances[k])
    BY <1>2, OrigToFilteredIndex
  <1>4. \A k \in 1..Len(Instances) : Instances[k].idle # 0 => HasUnloader(Instances[k])
    BY <1>2 DEF Accepted, IdleOK, HasUnloader
  <1> HIDE DEF post
  <1>5. ~ConfigureIdlePanics(post)
    BY <1>3, <1>4 DEF ConfigureIdlePanics
  <1> QED BY <1>5 DEF post

\* The decorated backend of instance k reports to the index at which the Controller keeps the
\* instance's own Unloader, and its idle timeout is there too.
LEMMA BackendTracked ==
  ASSUME Accepted, NEW k \in DOMAIN Instances
  PROVE  LET post    == OrigToFiltered(Controlled)
             kept    == Filtered(Controlled)[Len(Controlled)]
             b       == Backend(k, post)
             orig(p) == CHOOSE l \in DOMAIN post : post[l] = p
         IN  /\ b.track # 0 => b.track \in DOMAIN kept /\ kept[b.track] = b.url
             /\ \A p \in DOMAIN kept :
                  Instances[orig(p)].idle # 0 /\ kept[p] = b.url => b.track = p
  <1> DEFINE post    == OrigToFiltered(Controlled)
             kept    == Filtered(Controlled)[Len(Controlled)]
             b       == Backend(k, post)
             orig(p) == CHOOSE l \in DOMAIN post : post[l] = p
             n       == Len(Instances)
  <1>0. /\ b.url = Instances[k].url
        /\ b.track = IF Instances[k].idle # 0 /\ k \in DOMAIN post THEN post[k] ELSE 0
    BY DEF Backend
  <1>1. CASE Controlled = <<>> /\ DOMAIN post = {} /\ DOMAIN kept = {}
    BY <1>0, <1>1
  <1>2. CASE Controlled = Instances
    <2>1. Instances \in Seq(Backends) /\ DOMAIN Instances = 1..n /\ k \in 1..n
      BY InstancesAre DEF Accepted, Instances
    <2>2. /\ DOMAIN post = 1..n
          /\ \A l \in 1..n : post[l] # 0 =>
               post[l] \in DOMAIN kept /\ kept[post[l]] = Instances[l].url
          /\ \A p \in DOMAIN kept : p # 0 /\ \E l \in 1..n : post[l] = p
      BY <1>2, <2>1, OrigToFilteredIndex
    <2>3. \A i, j \in 1..n : i # j => Instances[i].url # Instances[j].url
      BY <2>1 DEF Accepted
    <2> HIDE DEF post, kept, b, n
    <2>4. b.track # 0 => b.track \in DOMAIN kept /\ kept[b.track] = b.url
      BY <1>0, <2>1, <2>2
    <2>5. ASSUME NEW p \in DOMAIN kept, Instances[orig(p)].idle # 0, kept[p] = b.url
          PROVE  b.track = p
      <3>1. orig(p) \in 1..n /\ post[orig(p)] = p /\ p # 0
        BY <2>2
      <3> HIDE DEF orig
      <3>2. kept[p] = Instances[orig(p)].url
        BY <2>2, <3>1
      <3>3. orig(p) = k
        BY <1>0, <2>1, <2>3, <2>5, <3>1, <3>2
      <3> QED BY <1>0, <2>1, <2>2, <2>5, <3>1, <3>3
    <2> QED BY <2>4, <2>5 DEF post, kept, b
  <1> QED BY <1>1, <1>2, ControlledAre

\* No two routes have a model in common, so AddRoute never replaces one by another.
LEMMA TableIs ==
  ASSUME Accepted, NEW post
  PROVE  LET table == RouteTable(post)
         IN  /\ DOMAIN table = UNION {Range(routes[i].models) : i \in DOMAIN routes}
             /\ \A i \in DOMAIN routes : \A m \in Range(routes[i].models) :
                  table[m] = [lane |-> routes[i].lane, backend |-> Backend(i + 1, post)]
  <1> DEFINE listed == UNION {Range(routes[i].models) : i \in DOMAIN routes}
             P(m, i) == /\ m \in Range(routes[i].models)
                        /\ \A j \in DOMAIN routes : m \in Range(routes[j].models) => j <= i
             entry(i) == [lane |-> routes[i].lane, backend |-> Backend(i + 1, post)]
  <1>1. RouteTable(post) = [m \in listed |-> entry(CHOOSE i \in DOMAIN routes : P(m, i))]
    BY DEF RouteTable
  <1>2. ASSUME NEW i \in DOMAIN routes, NEW m \in Range(routes[i].models)
        PROVE  m \in listed /\ (CHOOSE j \in DOMAIN routes : P(m, j)) = i
    <2>1. m \in listed
      OBVIOUS
    <2>2. \A j \in DOMAIN routes : m \in Range(routes[j].models) => j = i
      BY DEF Accepted
    <2>3. i <= i
      BY DEF Accepted
    <2>4. P(m, i) /\ \A j \in DOMAIN routes : P(m, j) => j = i
      BY <2>2, <2>3
    <2> HIDE DEF P
    <2> QED BY <2>1, <2>4
  <1> HIDE DEF entry, P, listed
  <1>3. DOMAIN RouteTable(post) = listed
    BY <1>1
  <1>4. ASSUME NEW i \in DOMAIN routes, NEW m \in Range(routes[i].models)
        PROVE  RouteTable(post)[m] = entry(i)
    BY <1>1, <1>2
  <1> QED BY <1>3, <1>4 DEF entry, listed

\* The Router and the Controller are built of what was accepted.
LEMMA Built ==
  ASSUME RoutingInv, BuildBroker
  PROVE  RoutingInv'
  <1> DEFINE post    == OrigToFiltered(Controlled)
             kept    == Filtered(Controlled)[Len(Controlled)]
             orig(p) == CHOOSE l \in DOMAIN post : post[l] = p
             table   == RouteTable(post)
  <1>0. Accepted /\ default' = default /\ routes' = routes
    BY DEF RoutingInv, BuildBroker, cfgVars
  <1>1. /\ stage' = "built"
        /\ ctrl' = [unloaders |-> kept, post |-> post,
                    idle |-> [p \in DOMAIN kept |-> Instances[orig(p)].idle]]
        /\ router' = [def |-> Backend(1, post), table |-> table]
    BY <1>0, NoPanic DEF BuildBroker
  <1>2. Instances' = Instances
    BY <1>0 DEF Instances
  <1>3. Accepted'
    BY <1>0, <1>2 DEF Accepted, IdleOK
  <1>4. /\ 1 \in DOMAIN Instances
        /\ \A i \in DOMAIN routes : i + 1 \in DOMAIN Instances
    BY <1>0, InstancesAre DEF Accepted, Instances
  <1>5. /\ DOMAIN table = UNION {Range(routes[i].models) : i \in DOMAIN routes}
        /\ \A i \in DOMAIN routes : \A m \in Range(routes[i].models) :
             table[m] = [lane |-> routes[i].lane, backend |-> Backend(i + 1, post)]
    BY <1>0, TableIs
  <1>6. ASSUME NEW i \in DOMAIN routes, NEW m \in Range(routes[i].models)
        PROVE  table[m].lane = routes[i].lane /\ table[m].backend = Backend(i + 1, post)
    <2> DEFINE b == Backend(i + 1, post)
    <2>1. table[m] = [lane |-> routes[i].lane, backend |-> b]
      BY <1>5
    <2> HIDE DEF b, table
    <2>2. table[m].lane = routes[i].lane /\ table[m].backend = b
      BY <2>1
    <2> QED BY <2>2 DEF b
  <1>7. ASSUME NEW k \in DOMAIN Instances, NEW b, b = Backend(k, post)
        PROVE  /\ b.track # 0 => b.track \in DOMAIN kept /\ kept[b.track] = b.url
               /\ \A p \in DOMAIN kept :
                    Instances[orig(p)].idle # 0 /\ kept[p] = b.url => b.track = p
    BY <1>0, <1>7, BackendTracked
  <1> HIDE DEF post, kept, orig, table
  <1>8. TableExact'
    <2>1. \A k \in DOMAIN Instances : Backend(k, post).url = Instances'[k].url
      BY <1>2 DEF Backend
    <2>2. router'.def = Backend(1, post) /\ router'.table = table
      BY <1>1
    <2>3. ASSUME NEW i \in DOMAIN routes, NEW m \in Range(routes[i].models)
          PROVE  /\ router'.table[m].lane = routes[i].lane
                 /\ router'.table[m].backend.url = Instances'[i + 1].url
      <3>1. table[m].lane = routes[i].lane /\ table[m].backend = Backend(i + 1, post)
        BY <1>6
      <3> QED BY <1>4, <2>1, <2>2, <3>1
    <2> QED BY <1>0, <1>4, <1>5, <2>1, <2>2, <2>3 DEF TableExact, Stands
  <1>9. ASSUME NEW k \in DOMAIN Instances, NEW b, b = Backend(k, post)
        PROVE  /\ b.track # 0 => /\ b.track \in DOMAIN ctrl'.unloaders
                                  /\ ctrl'.unloaders[b.track] = b.url
               /\ \A p \in DOMAIN ctrl'.idle :
                    ctrl'.idle[p] # 0 /\ ctrl'.unloaders[p] = b.url => b.track = p
    <2>1. /\ ctrl'.unloaders = kept
          /\ ctrl'.idle = [p \in DOMAIN kept |-> Instances[orig(p)].idle]
      BY <1>1
    <2> QED BY <1>7, <1>9, <2>1
  <1>10. Tracked(router.def)'
    <2>1. router'.def = Backend(1, post)
      BY <1>1
    <2> QED BY <1>4, <1>9, <2>1 DEF Tracked
  <1>11. ASSUME NEW m \in DOMAIN router'.table PROVE Tracked(router.table[m].backend)'
    <2>1. router'.table = table
      BY <1>1
    <2>2. PICK i \in DOMAIN routes : m \in Range(routes[i].models)
      BY <1>5, <2>1
    <2>3. router'.table[m].backend = Backend(i + 1, post)
      BY <1>6, <2>1, <2>2
    <2> QED BY <1>4, <1>9, <2>3 DEF Tracked
  <1> QED BY <1>1, <1>3, <1>8, <1>10, <1>11 DEF RoutingInv

LEMMA RoutingInvStep ==
  ASSUME RoutingInv, [DispatchNext]_dispatchVars
  PROVE  RoutingInv'
  <1>1. CASE UNCHANGED routingVars
    <2>1. UNCHANGED <<stage, default, routes, ctrl, router>> /\ Instances' = Instances
      BY <1>1 DEF routingVars, cfgVars, Instances
    <2>2. Accepted => Accepted'
      BY <2>1 DEF Accepted, IdleOK
    <2>3. TableExact => TableExact'
      BY <2>1 DEF TableExact, Stands
    <2> QED BY <2>1, <2>2, <2>3 DEF RoutingInv, Tracked
  <1>2. CASE Listen
    BY <1>2 DEF Listen, RoutingInv, Tracked
  <1>3. CASE RoutingNext
    BY <1>2, <1>3, DefaultAccepted, RouteAccepted, Built DEF RoutingNext
  <1>4. ASSUME NEW m, NEW lane, Serve(m, lane) PROVE UNCHANGED routingVars
    BY <1>4 DEF Serve
  <1>5. ASSUME NEW m, RunJob(m) PROVE UNCHANGED routingVars
    BY <1>5 DEF RunJob
  <1>6. CASE ServeEmbed
    BY <1>1, <1>6 DEF ServeEmbed
  <1>7. CASE UNCHANGED dispatchVars
    BY <1>1, <1>7 DEF dispatchVars
  <1> QED BY <1>1, <1>3, <1>4, <1>5, <1>6, <1>7 DEF DispatchNext

LEMMA RoutingSafe == DispatchSpec => []RoutingInv
  <1>1. DispatchInit => RoutingInv
    BY DEF DispatchInit, RoutingInit, RoutingInv
  <1>2. RoutingInv /\ [DispatchNext]_dispatchVars => RoutingInv'
    BY RoutingInvStep
  <1> QED BY <1>1, <1>2, PTL DEF DispatchSpec

-----------------------------------------------------------------------------
(* The theorems                                                            *)

\* Whatever number of routes Load accepts, and whatever their families, units and idle
\* timeouts, ConfigureIdle does not panic.
THEOREM AcceptedStarts == DispatchSpec => []LoadedStarts
  <1>1. RoutingInv => LoadedStarts
    BY DEF RoutingInv, LoadedStarts
  <1> QED BY <1>1, RoutingSafe, PTL

\* Whatever the routes, resolve and Generate find the instance whose group lists the model,
\* and on its own lane only; everything else, and nothing more, goes to the default backend.
THEOREM RoutesExact == DispatchSpec => []RouteExact
  <1>1. ASSUME RoutingInv PROVE RouteExact
    <2>1. SUFFICES ASSUME stage = "built", NEW m \in Models \cup {NoModel}
                   PROVE  /\ \A lane \in Lanes :
                               LET mine == {i \in DOMAIN routes :
                                              /\ m \in Range(routes[i].models)
                                              /\ routes[i].lane \in {"", lane}}
                               IN  /\ \A i \in mine : Resolve(m, lane).url = routes[i].url
                                   /\ mine = {} <=> Resolve(m, lane).url = default.url
                          /\ LET mine == {i \in DOMAIN routes : m \in Range(routes[i].models)}
                             IN  /\ \A i \in mine : GenerateAt(m).url = routes[i].url
                                 /\ mine = {} <=> GenerateAt(m).url = default.url
      BY DEF RouteExact
    <2>2. Accepted /\ TableExact
      BY <1>1, <2>1 DEF RoutingInv
    <2>3. /\ 1 \in DOMAIN Instances /\ Instances[1] = default
          /\ \A i \in DOMAIN routes : /\ i + 1 \in DOMAIN Instances /\ i + 1 # 1
                                      /\ Instances[i + 1] = routes[i]
      BY <2>2, InstancesAre DEF Accepted, Instances
    <2>4. \A i \in DOMAIN routes : routes[i].url # default.url
      BY <2>2, <2>3 DEF Accepted
    <2>5. router.def.url = default.url
      BY <2>2, <2>3 DEF TableExact, Stands
    <2>6. \A i \in DOMAIN routes : m \in Range(routes[i].models) =>
            /\ m \in DOMAIN router.table
            /\ router.table[m].lane = routes[i].lane
            /\ router.table[m].backend.url = routes[i].url
      BY <2>2, <2>3 DEF TableExact, Stands
    <2>7. m \in DOMAIN router.table => \E i \in DOMAIN routes : m \in Range(routes[i].models)
      BY <2>2 DEF TableExact
    <2>8. ASSUME NEW lane \in Lanes
          PROVE  LET mine == {i \in DOMAIN routes : /\ m \in Range(routes[i].models)
                                                    /\ routes[i].lane \in {"", lane}}
                 IN  /\ \A i \in mine : Resolve(m, lane).url = routes[i].url
                     /\ mine = {} <=> Resolve(m, lane).url = default.url
      BY <2>4, <2>5, <2>6, <2>7 DEF Resolve
    <2>9. LET mine == {i \in DOMAIN routes : m \in Range(routes[i].models)}
          IN  /\ \A i \in mine : GenerateAt(m).url = routes[i].url
              /\ mine = {} <=> GenerateAt(m).url = default.url
      BY <2>4, <2>5, <2>6, <2>7 DEF GenerateAt
    <2> QED BY <2>8, <2>9
  <1> QED BY <1>1, RoutingSafe, PTL

\* Whatever the instances and whichever of them have an Unloader, a request is tracked under
\* the index of the Unloader of the very instance that serves it, for as long as the broker
\* serves: the mismatch ADR-0015 warns of does not happen.
THEOREM ServedIsTracked == DispatchSpec => []IdleTracksServed
  <1>1. ASSUME RoutingInv PROVE IdleTracksServed
    <2>1. SUFFICES ASSUME stage \in {"built", "serving"},
                          NEW m \in Models \cup {NoModel}, NEW lane \in Lanes
                   PROVE  Tracked(Resolve(m, lane))
      BY DEF IdleTracksServed, Tracked
    <2>2. Tracked(router.def) /\ \A x \in DOMAIN router.table : Tracked(router.table[x].backend)
      BY <1>1, <2>1 DEF RoutingInv
    <2>3. \/ Resolve(m, lane) = router.def
          \/ m \in DOMAIN router.table /\ Resolve(m, lane) = router.table[m].backend
      BY DEF Resolve
    <2> QED BY <2>2, <2>3
  <1> QED BY <1>1, RoutingSafe, PTL

=============================================================================
