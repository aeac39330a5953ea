----------------------------- MODULE MakingProofs -----------------------------
(***************************************************************************)
(* What an order is made of (its outlet, its items and counts, its page)   *)
(* and the login attempts, for any outlets, rows, prices and requests; and *)
(* that MCPeople, which TLC runs, is the composition of its components.    *)
(***************************************************************************)
EXTENDS MCPeople, PeopleProofs, SequenceTheorems, FiniteSetTheorems,
        WellFoundedInduction, TLAPS

-----------------------------------------------------------------------------
(* Loops.  A set of numbers that holds 0 and with each number the next     *)
(* holds them all; so a loop that turns one value of its type into another *)
(* has a value after every round.                                          *)

\* Of some numbers, one is the least: the sets below them are finite.
LEMMA Least ==
  ASSUME NEW T, T \subseteq Nat, T # {}
  PROVE  \E m \in T : \A n \in T : ~ (n < m)
<1> DEFINE Below == {0..n : n \in T}
           R == StrictSubsetOrdering(Nat)
<1>1. Below \subseteq FiniteSubsetsOf(Nat)
  <2>1. \A n \in T : IsFiniteSet(0..n) /\ 0..n \subseteq Nat
    BY FS_Interval
  <2> QED
    BY <2>1 DEF FiniteSubsetsOf
<1>2. Below # {}
  OBVIOUS
<1> HIDE DEF Below
<1>3. PICK b \in Below : \A c \in Below : ~ (<<c, b>> \in R)
  BY <1>1, <1>2, FS_StrictSubsetOrderingWellFounded, WFMin
<1>4. PICK m \in T : b = 0..m
  BY <1>3 DEF Below
<1>5. ASSUME NEW n \in T, n < m PROVE FALSE
  <2>1. 0..n \in Below
    BY DEF Below
  <2>2. 0..n \subseteq 0..m /\ 0..n # 0..m
    BY <1>5
  <2>3. <<0..n, b>> \in R
    BY <2>2, <1>4 DEF StrictSubsetOrdering
  <2> QED
    BY <1>3, <2>1, <2>3
<1> QED
  BY <1>5

LEMMA Reach ==
  ASSUME NEW T, T \subseteq Nat, 0 \in T, \A n \in T : n + 1 \in T
  PROVE  T = Nat
<1>1. SUFFICES ASSUME Nat \ T # {} PROVE FALSE
  OBVIOUS
<1>2. PICK m \in Nat \ T : \A n \in Nat \ T : ~ (n < m)
  BY <1>1, Least
<1>3. m # 0 /\ m - 1 \in Nat /\ m - 1 < m
  BY <1>2
<1>4. m - 1 \in T
  BY <1>2, <1>3
<1> QED
  BY <1>2, <1>4

LEMMA Rounds ==
  ASSUME NEW N \in Nat, NEW T, 0 \in T, \A n \in 0..(N - 1) : n \in T => n + 1 \in T
  PROVE  0..N \subseteq T
<1> DEFINE U == {n \in Nat : n <= N => n \in T}
<1>1. U = Nat
  <2>1. U \subseteq Nat /\ 0 \in U
    OBVIOUS
  <2>2. ASSUME NEW n \in U PROVE n + 1 \in U
    <3>1. CASE n + 1 <= N
      <4>1. n \in 0..(N - 1) /\ n \in T
        BY <3>1
      <4> QED
        BY <4>1
    <3>2. CASE ~(n + 1 <= N)
      BY <3>2
    <3> QED
      BY <3>1, <3>2
  <2> HIDE DEF U
  <2> QED
    BY <2>1, <2>2, Reach
<1> QED
  BY <1>1

\* g[n] is the value of a loop after n rounds, round[n] what the n-th makes of
\* the one before it.
LoopOf(N, X, start, round, g) ==
  /\ g \in [0..N -> X] /\ g[0] = start
  /\ \A n \in 1..N : g[n] = round[n][g[n - 1]]

LEMMA LoopRuns ==
  ASSUME NEW N \in Nat, NEW X, NEW start \in X, NEW round \in [1..N -> [X -> X]]
  PROVE  \E g : LoopOf(N, X, start, round, g)
<1> DEFINE T == {m \in 0..N : \E g : LoopOf(m, X, start, round, g)}
<1>1. 0 \in T
  <2>1. LoopOf(0, X, start, round, [n \in 0..0 |-> start])
    BY DEF LoopOf
  <2> QED
    BY <2>1
<1>2. ASSUME NEW m \in 0..(N - 1), m \in T PROVE m + 1 \in T
  <2>1. PICK g : LoopOf(m, X, start, round, g)
    BY <1>2
  <2> DEFINE h == [n \in 0..(m + 1) |-> IF n = m + 1 THEN round[m + 1][g[m]] ELSE g[n]]
  <2>2. g[m] \in X /\ round[m + 1][g[m]] \in X
    BY <2>1 DEF LoopOf
  <2>3. h \in [0..(m + 1) -> X] /\ h[0] = start
    BY <2>1, <2>2 DEF LoopOf
  <2>4. ASSUME NEW n \in 1..(m + 1) PROVE h[n] = round[n][h[n - 1]]
    <3>1. CASE n = m + 1
      BY <3>1
    <3>2. CASE n \in 1..m
      BY <2>1, <3>2 DEF LoopOf
    <3> QED
      BY <3>1, <3>2
  <2>5. LoopOf(m + 1, X, start, round, h)
    BY <2>3, <2>4 DEF LoopOf
  <2> HIDE DEF h
  <2> QED
    BY <2>5
<1>3. N \in T
  <2> HIDE DEF T
  <2>1. 0..N \subseteq T
    BY <1>1, <1>2, Rounds
  <2> QED
    BY <2>1
<1> QED
  BY <1>3

-----------------------------------------------------------------------------
(* Which outlet serves *)

Covers(o, from) == haversineKM(from, o.place) <= o.radius

\* best is what the loop should have found among the first n outlets.
NearestOf(best, outlets, n, from) ==
  \/ best = NULL /\ \A m \in 1..n : ~Covers(outlets[m], from)
  \/ /\ best # NULL
     /\ \E m \in 1..n : best = outlets[m]
     /\ Covers(best, from)
     /\ \A m \in 1..n : Covers(outlets[m], from) =>
          haversineKM(from, best.place) <= haversineKM(from, outlets[m].place)

LEMMA Distance ==
  ASSUME NEW from \in Places, NEW o \in Offers
  PROVE  haversineKM(from, o.place) \in Int /\ o.radius \in Int /\ o # NULL
<1>a. o.place \in Places /\ o.radius \in Radii
  BY DEF Offers
<1>b. Places \subseteq Int /\ \A r \in Radii : r \in Int
  BY OutletAssumption
<1>c. o.place \in Int /\ from \in Int
  BY <1>a, <1>b
<1>d. o.radius \in Int
  BY <1>a, <1>b
<1>1. o.place \in Int /\ from \in Int /\ o.radius \in Int
  BY <1>c, <1>d
<1>2. haversineKM(from, o.place) \in Int
  BY <1>1 DEF haversineKM
<1>3. o # NULL
  BY OutletAssumption DEF Offers
<1> QED
  BY <1>1, <1>2, <1>3

LEMMA CloserRound ==
  ASSUME NEW N \in Nat, NEW outlets \in [1..N -> Offers], NEW from \in Places,
         NEW n \in 1..N, NEW best \in Offers \cup {NULL}, NearestOf(best, outlets, n - 1, from)
  PROVE  NearestOf(Closer(from, best, outlets[n]), outlets, n, from)
<1> DEFINE o == outlets[n]
           km(p) == haversineKM(from, p.place)
<1>1. o \in Offers /\ km(o) \in Int /\ o.radius \in Int /\ o # NULL
  BY Distance
<1>2. \A m \in 1..n : m = n \/ m \in 1..(n - 1)
  OBVIOUS
<1>3. best # NULL => km(best) \in Int
  BY Distance
<1>4. \A m \in 1..n : km(outlets[m]) \in Int
  BY Distance
<1>5. CASE Covers(o, from) /\ (best = NULL \/ km(o) < km(best))
  <2>1. Closer(from, best, o) = o
    BY <1>5 DEF Closer, Covers
  <2>2. ASSUME NEW m \in 1..n, Covers(outlets[m], from) PROVE km(o) <= km(outlets[m])
    <3>1. CASE m = n
      BY <1>1, <3>1
    <3>2. CASE m \in 1..(n - 1)
      <4>1. best # NULL /\ km(best) <= km(outlets[m])
        BY <2>2, <3>2 DEF NearestOf
      <4> QED
        BY <1>1, <1>3, <1>4, <1>5, <4>1
    <3> QED
      BY <1>2, <3>1, <3>2
  <2> QED
    BY <1>1, <1>5, <2>1, <2>2 DEF NearestOf
<1>6. CASE ~(Covers(o, from) /\ (best = NULL \/ km(o) < km(best)))
  <2>1. Closer(from, best, o) = best
    BY <1>6 DEF Closer, Covers
  <2>2. CASE best = NULL
    <3>1. \A m \in 1..n : ~Covers(outlets[m], from)
      BY <1>2, <1>6, <2>2 DEF NearestOf
    <3> QED
      BY <2>1, <2>2, <3>1 DEF NearestOf
  <2>3. CASE best # NULL
    <3>1. /\ \E m \in 1..n : best = outlets[m]
          /\ Covers(best, from)
      BY <2>3 DEF NearestOf
    <3>2. ASSUME NEW m \in 1..n, Covers(outlets[m], from) PROVE km(best) <= km(outlets[m])
      <4>1. CASE m = n
        BY <1>1, <1>3, <1>6, <2>3, <3>2, <4>1
      <4>2. CASE m \in 1..(n - 1)
        BY <2>3, <3>2, <4>2 DEF NearestOf
      <4> QED
        BY <1>2, <4>1, <4>2
    <3> QED
      BY <2>1, <2>3, <3>1, <3>2 DEF NearestOf
  <2> QED
    BY <2>2, <2>3
<1> QED
  BY <1>5, <1>6

\* The loop finds the nearest outlet that covers the address, if one does.
LEMMA NearestFound ==
  ASSUME NEW N \in Nat, NEW outlets \in [1..N -> Offers], NEW from \in Places
  PROVE  /\ nearestOutlet(outlets, from) \in Offers \cup {NULL}
         /\ NearestOf(nearestOutlet(outlets, from), outlets, N, from)
<1> DEFINE X == Offers \cup {NULL}
           round == [n \in 1..N |-> [best \in X |-> Closer(from, best, outlets[n])]]
<1>1. Len(outlets) = N
  <2>1. outlets \in Seq(Offers) /\ DOMAIN outlets = 1..N
    BY SeqDef
  <2> QED
    BY <2>1
<1>2. \A n \in 1..N, best \in X : Closer(from, best, outlets[n]) \in X
  BY DEF Closer
<1>3. round \in [1..N -> [X -> X]]
  BY <1>2
<1>4. PICK g : LoopOf(N, X, NULL, round, g)
  <2>1. NULL \in X
    OBVIOUS
  <2> HIDE DEF round, X
  <2> QED
    BY <1>3, <2>1, LoopRuns
<1>5. g = [n \in 0..N |-> IF n = 0 THEN NULL ELSE Closer(from, g[n - 1], outlets[n])]
  <2>1. ASSUME NEW n \in 1..N PROVE round[n][g[n - 1]] = Closer(from, g[n - 1], outlets[n])
    <3>1. n - 1 \in 0..N
      OBVIOUS
    <3>2. g \in [0..N -> X]
      BY <1>4 DEF LoopOf
    <3>3. g[n - 1] \in X
      BY <3>1, <3>2
    <3> QED
      BY <3>3
  <2>2. ASSUME NEW n \in 0..N
        PROVE  g[n] = IF n = 0 THEN NULL ELSE Closer(from, g[n - 1], outlets[n])
    <3>1. n # 0 => n \in 1..N
      OBVIOUS
    <3> HIDE DEF round, X
    <3> QED
      BY <1>4, <2>1, <3>1 DEF LoopOf
  <2> HIDE DEF round, X
  <2> QED
    BY <1>4, <2>2 DEF LoopOf
<1> DEFINE best == CHOOSE h : h =
             [n \in 0..N |-> IF n = 0 THEN NULL ELSE Closer(from, h[n - 1], outlets[n])]
<1>6. best = [n \in 0..N |-> IF n = 0 THEN NULL ELSE Closer(from, best[n - 1], outlets[n])]
  BY <1>5
<1>7. nearestOutlet(outlets, from) = best[N]
  BY <1>1 DEF nearestOutlet
<1> HIDE DEF best
<1> DEFINE T == {n \in 0..N : best[n] \in X /\ NearestOf(best[n], outlets, n, from)}
<1>8. 0 \in T
  BY <1>6 DEF NearestOf
<1>9. ASSUME NEW n \in 0..(N - 1), n \in T PROVE n + 1 \in T
  <2>1. n + 1 \in 1..N /\ n + 1 \in 0..N /\ (n + 1) - 1 = n
    OBVIOUS
  <2>2. best[n + 1] = Closer(from, best[n], outlets[n + 1])
    BY <1>6, <2>1
  <2>3. best[n + 1] \in X
    BY <1>2, <1>9, <2>1, <2>2
  <2>4. NearestOf(best[n + 1], outlets, n + 1, from)
    BY <1>9, <2>1, <2>2, CloserRound
  <2> QED
    BY <2>1, <2>3, <2>4
<1>10. N \in T
  <2> HIDE DEF T
  <2>1. 0..N \subseteq T
    BY <1>8, <1>9, Rounds
  <2> QED
    BY <2>1
<1> QED
  BY <1>7, <1>10

\* Whatever order the offers are listed in, one of the nearest is found; and
\* none only if none covers the address.
LEMMA NearestServes ==
  ASSUME NEW offers, offers \subseteq Offers, IsFiniteSet(offers), NEW from \in Places
  PROVE  /\ \A best \in NearestOutlets(offers, from) :
              /\ best \in Covering(offers, from)
              /\ \A o \in Covering(offers, from) :
                   haversineKM(from, best.place) <= haversineKM(from, o.place)
         /\ NearestOutlets(offers, from) = {} <=> Covering(offers, from) = {}
<1> DEFINE N == Cardinality(offers)
<1>1. N \in Nat /\ Orderings(offers) # {}
  BY FS_CardinalityType DEF Orderings, ExistsBijection
<1>2. ASSUME NEW outlets \in Orderings(offers)
      PROVE  /\ outlets \in [1..N -> Offers]
             /\ \A m \in 1..N : outlets[m] \in offers
             /\ \A o \in offers : \E m \in 1..N : outlets[m] = o
  BY <1>2 DEF Orderings, Bijection, Injection, Surjection
<1> HIDE DEF N
<1>3. ASSUME NEW best \in NearestOutlets(offers, from)
      PROVE  /\ best \in Covering(offers, from)
             /\ \A o \in Covering(offers, from) :
                  haversineKM(from, best.place) <= haversineKM(from, o.place)
  <2>1. PICK outlets \in Orderings(offers) : best = nearestOutlet(outlets, from) /\ best # NULL
    BY <1>3 DEF NearestOutlets
  <2>2. NearestOf(best, outlets, N, from)
    BY <1>1, <1>2, <2>1, NearestFound
  <2> QED
    BY <1>2, <2>1, <2>2 DEF NearestOf, Covers, Covering
<1>4. ASSUME NEW o \in Covering(offers, from), NearestOutlets(offers, from) = {} PROVE FALSE
  <2>1. PICK outlets \in Orderings(offers) : TRUE
    BY <1>1
  <2>2. nearestOutlet(outlets, from) = NULL
    BY <1>4, <2>1 DEF NearestOutlets
  <2>3. NearestOf(NULL, outlets, N, from)
    BY <1>1, <1>2, <2>2, NearestFound
  <2> QED
    BY <1>2, <1>4, <2>3 DEF NearestOf, Covers, Covering
<1> QED
  BY <1>3, <1>4

\* A request and what it has read, chosen and inserted.
BuyerRows ==
  [at : {"idle", "located", "tx", "created"}, from : Places \cup {NULL},
   offers : SUBSET Offers,
   order : [outlet : OutletIds \cup {NULL}, fee : {0, FlatDeliveryFee}]]

WellServed(r) ==
  /\ r.at # "idle" => r.from \in Places
  /\ r.at \in {"tx", "created"} =>
       \E best \in Covering(r.offers, r.from) :
         LET km == haversineKM(r.from, best.place)
         IN  /\ r.order.outlet = best.id
             /\ \A o \in Covering(r.offers, r.from) : km <= haversineKM(r.from, o.place)
             /\ r.order.fee = 0 <=> km <= FreeDeliveryRadiusKM

OutletInv ==
  /\ outlet \in [OutletIds -> OutletRows]
  /\ address \in Places
  /\ outletEdits \in 0..MaxOutletEdits
  /\ buyer \in [Buyers -> BuyerRows]
  /\ \A b \in Buyers : WellServed(buyer[b])

LEMMA OpenOutlets ==
  ASSUME outlet \in [OutletIds -> OutletRows]
  PROVE  ListActiveOutlets \subseteq Offers /\ IsFiniteSet(ListActiveOutlets)
<1> DEFINE open == {p \in OutletIds : outlet[p].row = "live" /\ outlet[p].active}
           offer == [o \in open |-> [id |-> o, place |-> outlet[o].place, radius |-> outlet[o].radius]]
<1>1. IsFiniteSet(open)
  BY OutletAssumption, FS_Subset
<1>2. ListActiveOutlets \subseteq Offers
  BY DEF ListActiveOutlets, Offers, OutletRows
<1>3. ListActiveOutlets = {offer[o] : o \in open}
  BY DEF ListActiveOutlets
<1>4. offer \in Surjection(open, ListActiveOutlets)
  BY <1>3 DEF Surjection
<1> HIDE DEF offer, open
<1>5. IsFiniteSet(ListActiveOutlets)
  BY <1>1, <1>4, FS_Surjection
<1> QED
  BY <1>2, <1>5

\* One request goes on.
LEMMA BuyerMoves ==
  ASSUME OutletInv, NEW b \in Buyers, NEW r \in BuyerRows, WellServed(r),
         buyer' = [buyer EXCEPT ![b] = r], UNCHANGED <<outlet, address, outletEdits>>
  PROVE  OutletInv'
<1>1. buyer' \in [Buyers -> BuyerRows]
  BY DEF OutletInv
<1>2. ASSUME NEW c \in Buyers PROVE WellServed(buyer'[c])
  <2>1. buyer'[c] = IF c = b THEN r ELSE buyer[c]
    BY DEF OutletInv
  <2> QED
    BY <2>1 DEF OutletInv
<1> QED
  BY <1>1, <1>2 DEF OutletInv, WellServed

LEMMA OutletInitInv == OutletInit => OutletInv
BY OutletAssumption DEF OutletInit, OutletInv, OutletRows, BuyerRows, NotBuying, NoOrder, WellServed

LEMMA OutletStepInv == OutletInv /\ [OutletNext]_outletVars => OutletInv'
<1> SUFFICES ASSUME OutletInv, [OutletNext]_outletVars PROVE OutletInv'
  OBVIOUS
<1>0. NotBuying \in BuyerRows /\ WellServed(NotBuying)
  BY DEF NotBuying, NoOrder, BuyerRows, WellServed
<1>1. ASSUME OutletEdit, outlet' \in [OutletIds -> OutletRows], address' \in Places, UNCHANGED buyer
      PROVE  OutletInv'
  BY <1>1, OutletAssumption DEF OutletEdit, OutletInv, WellServed
<1>2. ASSUME NEW o \in OutletIds, NEW place \in Places, NEW radius \in Radii, NEW active \in BOOLEAN,
             CreateOutlet(o, place, radius, active) \/ UpdateOutlet(o, place, radius, active)
      PROVE  OutletInv'
  <2>1. OutletRow(place, radius, active) \in OutletRows
    BY DEF OutletRow, OutletRows
  <2> QED
    BY <1>1, <1>2, <2>1 DEF CreateOutlet, UpdateOutlet, OutletInv
<1>3. ASSUME NEW o \in OutletIds, SoftDeleteOutlet(o) PROVE OutletInv'
  BY <1>1, <1>3 DEF SoftDeleteOutlet, OutletRows, OutletInv
<1>4. ASSUME NEW place \in Places, MoveAddress(place) PROVE OutletInv'
  BY <1>1, <1>4 DEF MoveAddress, OutletInv
<1>5. ASSUME NEW b \in Buyers, GetAddressByID(b) PROVE OutletInv'
  <2> DEFINE r == [buyer[b] EXCEPT !.at = "located", !.from = address]
  <2>1. r \in BuyerRows /\ r.at = "located" /\ r.from \in Places
    BY DEF OutletInv, BuyerRows
  <2>2. buyer' = [buyer EXCEPT ![b] = r]
    BY <1>5 DEF GetAddressByID
  <2> HIDE DEF r
  <2> QED
    BY <1>5, <2>1, <2>2, BuyerMoves DEF GetAddressByID, WellServed
<1>6. ASSUME NEW b \in Buyers, ChoosesOutlet(b) PROVE OutletInv'
  <2> DEFINE offers == ListActiveOutlets
             from == buyer[b].from
  <2>1. offers \subseteq Offers /\ IsFiniteSet(offers) /\ from \in Places
    BY <1>6, OpenOutlets DEF ChoosesOutlet, OutletInv, WellServed
  <2>2. CASE buyer' = [buyer EXCEPT ![b] = NotBuying]
    BY <1>0, <1>6, <2>2, BuyerMoves DEF ChoosesOutlet
  <2>3. CASE NearestOutlets(offers, from) # {}
    <3>1. PICK best \in NearestOutlets(offers, from) :
            buyer' = [buyer EXCEPT ![b].at = "tx", ![b].offers = offers,
              ![b].order = [outlet |-> best.id,
                fee |-> calculateDeliveryFee(haversineKM(from, best.place))]]
      BY <1>6, <2>3 DEF ChoosesOutlet
    <3> DEFINE km == haversineKM(from, best.place)
    <3>2. /\ best \in Covering(offers, from) /\ best \in Offers
          /\ \A o \in Covering(offers, from) : km <= haversineKM(from, o.place)
      BY <2>1, NearestServes DEF Covering
    <3> DEFINE chosen == [outlet |-> best.id, fee |-> calculateDeliveryFee(km)]
    <3>3. /\ calculateDeliveryFee(km) \in {0, FlatDeliveryFee}
          /\ calculateDeliveryFee(km) = 0 <=> km <= FreeDeliveryRadiusKM
      BY OutletAssumption DEF calculateDeliveryFee
    <3>4. chosen \in [outlet : OutletIds \cup {NULL}, fee : {0, FlatDeliveryFee}]
      BY <3>2, <3>3 DEF Offers
    <3>5. chosen.outlet = best.id /\ (chosen.fee = 0 <=> km <= FreeDeliveryRadiusKM)
      BY <3>3
    <3> HIDE DEF chosen, offers
    <3> DEFINE r == [buyer[b] EXCEPT !.at = "tx", !.offers = offers, !.order = chosen]
    <3>6. /\ r \in BuyerRows /\ r.at = "tx" /\ r.from = from
          /\ r.offers = offers /\ r.order = chosen
      BY <2>1, <3>4 DEF OutletInv, BuyerRows
    <3>7. buyer' = [buyer EXCEPT ![b] = r]
      BY <3>1 DEF chosen
    <3> HIDE DEF r, from
    <3>8. WellServed(r)
      BY <2>1, <3>2, <3>5, <3>6 DEF WellServed
    <3> QED
      BY <1>6, <3>6, <3>7, <3>8, BuyerMoves DEF ChoosesOutlet
  <2> QED
    BY <1>6, <2>2, <2>3 DEF ChoosesOutlet
<1>7. ASSUME NEW b \in Buyers, InsertOrder(b) PROVE OutletInv'
  <2> DEFINE r == [buyer[b] EXCEPT !.at = "created"]
  <2>1. /\ r \in BuyerRows /\ r.at = "created" /\ r.from = buyer[b].from
        /\ r.offers = buyer[b].offers /\ r.order = buyer[b].order
    BY DEF OutletInv, BuyerRows
  <2>2. buyer' = [buyer EXCEPT ![b] = r] /\ buyer[b].at = "tx"
    BY <1>7 DEF InsertOrder
  <2> HIDE DEF r
  <2>3. WellServed(r)
    BY <2>1, <2>2 DEF OutletInv, WellServed
  <2> QED
    BY <1>7, <2>1, <2>2, <2>3, BuyerMoves DEF InsertOrder
<1>8. ASSUME NEW b \in Buyers, BuyerFails(b) PROVE OutletInv'
  BY <1>0, <1>8, BuyerMoves DEF BuyerFails
<1>9. CASE UNCHANGED outletVars
  BY <1>9 DEF outletVars, OutletInv, WellServed
<1> QED
  BY <1>2, <1>3, <1>4, <1>5, <1>6, <1>7, <1>8, <1>9 DEF OutletNext

LEMMA OutletInvHolds == OutletSpec => []OutletInv
BY OutletInitInv, OutletStepInv, PTL DEF OutletSpec

\* Outlets, addresses and requests keep their types.
THEOREM OutletTypeCorrect == OutletSpec => []OutletTypeOK
<1>1. OutletInv => OutletTypeOK
  BY DEF OutletInv, OutletTypeOK, BuyerRows
<1> QED
  BY <1>1, OutletInvHolds, PTL

\* However many outlets are on the list and in whatever order, an order gets
\* one that covers the address it read, none nearer does, and the fee is that
\* of its distance; a request is refused exactly when none covers it.
THEOREM ServedByNearestHolds == OutletSpec => []ServedByNearest
<1>1. OutletInv => ServedByNearest
  <2> SUFFICES ASSUME OutletInv PROVE ServedByNearest
    OBVIOUS
  <2>1. ASSUME NEW b \in Buyers, buyer[b].at = "located"
        PROVE  NearestOutlets(ListActiveOutlets, buyer[b].from) = {} <=>
                 Covering(ListActiveOutlets, buyer[b].from) = {}
    <3>1. buyer[b].from \in Places
      BY <2>1 DEF OutletInv, WellServed
    <3>2. ListActiveOutlets \subseteq Offers /\ IsFiniteSet(ListActiveOutlets)
      BY OpenOutlets DEF OutletInv
    <3> QED
      BY <3>1, <3>2, NearestServes
  <2> QED
    BY <2>1 DEF ServedByNearest, OutletInv, WellServed
<1> QED
  BY <1>1, OutletInvHolds, PTL

-----------------------------------------------------------------------------
(* Item counts *)

Filings == [at : {"idle", "items", "tx"}, items : Seq(OrderItemRows), counts : Counts]

\* An item that is cited has its row, and a type that has been counted.
CitedExist ==
  \A n \in 1..Len(orderItems) : item[orderItems[n].item].row \in {"live", "deleted"}

CountedExist(counts) == \A t \in ClothingTypes : counts[t] # NULL => clothing[t].row # "none"

\* Rows are only ever inserted by the request that takes the order on.
CountsInv ==
  /\ CatalogueTypeOK
  /\ arrived \in BOOLEAN
  /\ orderItems \in Seq(OrderItemRows)
  /\ breakdown \in Counts
  /\ filer \in [Filers -> Filings]
  /\ \A f \in Filers : Len(filer[f].items) <= MaxLines
  /\ CitedExist
  /\ CountedExist(breakdown)
  /\ \A f \in Filers : CountedExist(filer[f].counts)
  /\ TotalMatchesItems

LEMMA AmountType ==
  ASSUME NEW rows \in Seq(OrderItemRows)
  PROVE  Amount(rows) \in Nat
<1> DEFINE N == Len(rows)
           cost == [n \in 1..N |-> rows[n].halves * rows[n].price]
           round == [n \in 1..N |-> [sum \in Nat |-> sum + cost[n]]]
<1>1. N \in Nat
  OBVIOUS
<1>2. \A n \in 1..N : cost[n] \in Nat
  <2>1. ASSUME NEW n \in 1..N PROVE rows[n].halves \in Nat /\ rows[n].price \in Nat
    <3>1. rows[n] \in OrderItemRows
      OBVIOUS
    <3>2. rows[n].halves \in Halves /\ rows[n].price \in Prices
      BY <3>1 DEF OrderItemRows
    <3> QED
      BY <3>2, CountAssumption, PriceAssumption
  <2> QED
    BY <2>1
<1> HIDE DEF N
<1>3. round \in [1..N -> [Nat -> Nat]]
  <2> HIDE DEF cost
  <2> QED
    BY <1>2
<1>4. PICK g : LoopOf(N, Nat, 0, round, g)
  <2> HIDE DEF round
  <2> QED
    BY <1>1, <1>3, LoopRuns
<1>5. g = [n \in 0..N |-> IF n = 0 THEN 0 ELSE g[n - 1] + rows[n].halves * rows[n].price]
  <2>1. g \in [0..N -> Nat] /\ g[0] = 0
    BY <1>4 DEF LoopOf
  <2>2. ASSUME NEW n \in 1..N PROVE g[n] = g[n - 1] + rows[n].halves * rows[n].price
    <3>1. g[n] = round[n][g[n - 1]]
      BY <1>4 DEF LoopOf
    <3>2. n - 1 \in 0..N
      BY <1>1
    <3>3. g[n - 1] \in Nat
      BY <2>1, <3>2
    <3> QED
      BY <3>1, <3>3
  <2>3. \A n \in 0..N : n # 0 => n \in 1..N
    BY <1>1
  <2> QED
    BY <2>1, <2>2, <2>3
<1> DEFINE sum == CHOOSE h : h =
             [n \in 0..N |-> IF n = 0 THEN 0 ELSE h[n - 1] + rows[n].halves * rows[n].price]
<1>6. sum = [n \in 0..N |-> IF n = 0 THEN 0 ELSE sum[n - 1] + rows[n].halves * rows[n].price]
  BY <1>5
<1>7. Amount(rows) = sum[N]
  BY DEF Amount, N
<1> HIDE DEF sum
<1> DEFINE T == {n \in 0..N : sum[n] \in Nat}
<1>8. 0 \in T
  BY <1>1, <1>6
<1>9. ASSUME NEW n \in 0..(N - 1), n \in T PROVE n + 1 \in T
  <2>1. n + 1 \in 1..N /\ n + 1 \in 0..N /\ (n + 1) - 1 = n
    BY <1>1
  <2>2. sum[n + 1] = sum[n] + rows[n + 1].halves * rows[n + 1].price
    <3>1. sum[n + 1] = IF n + 1 = 0 THEN 0
            ELSE sum[(n + 1) - 1] + rows[n + 1].halves * rows[n + 1].price
      BY <1>6, <2>1, Zenon
    <3>2. n + 1 # 0
      BY <2>1, <1>1
    <3> QED
      BY <2>1, <3>1, <3>2, Zenon
  <2>3. cost[n + 1] = rows[n + 1].halves * rows[n + 1].price
    BY <2>1, Zenon
  <2>4. sum[n + 1] = sum[n] + cost[n + 1]
    BY <2>2, <2>3, Zenon
  <2> HIDE DEF cost
  <2> QED
    BY <1>2, <1>9, <2>1, <2>4
<1>10. N \in T
  <2> HIDE DEF T
  <2>1. 0..N \subseteq T
    BY <1>1, <1>8, <1>9, Rounds
  <2> QED
    BY <1>1, <2>1
<1> QED
  BY <1>7, <1>10

\* Nothing that an order needs leaves the catalogue.
CatalogueStays(cited) ==
  /\ CatalogueTypeOK'
  /\ \A i \in Items : i \in cited /\ item[i].row \in {"live", "deleted"} =>
       item'[i].row \in {"live", "deleted"}
  /\ \A t \in ClothingTypes : clothing[t].row # "none" => clothing'[t].row # "none"

ItemWritten(i, row, cited) ==
  /\ CatalogueEdit /\ UNCHANGED clothing
  /\ item' = [item EXCEPT ![i] = row]
  /\ i \in cited => row.row \in {"live", "deleted"}

TypeWritten(t, row) ==
  /\ CatalogueEdit /\ UNCHANGED item
  /\ clothing' = [clothing EXCEPT ![t] = row]
  /\ row.row # "none"

LEMMA CatalogueStep ==
  ASSUME CatalogueTypeOK, NEW cited, CatalogueNext(cited)
  PROVE  CatalogueStays(cited)
<1>1. ASSUME NEW i \in Items, NEW row \in LaundryItems, ItemWritten(i, row, cited)
      PROVE  CatalogueStays(cited)
  BY <1>1, PriceAssumption DEF ItemWritten, CatalogueEdit, CatalogueStays, CatalogueTypeOK
<1>2. ASSUME NEW t \in ClothingTypes, NEW row \in ClothingRows, TypeWritten(t, row)
      PROVE  CatalogueStays(cited)
  BY <1>2, PriceAssumption DEF TypeWritten, CatalogueEdit, CatalogueStays, CatalogueTypeOK
<1>3. ASSUME NEW i \in Items, NEW unit \in Units, NEW price \in Prices, NEW active \in BOOLEAN,
             CreateLaundryItem(i, unit, price, active) \/ UpdateLaundryItem(i, unit, price, active)
      PROVE  CatalogueStays(cited)
  <2> DEFINE row == [row |-> "live", unit |-> unit, price |-> price, active |-> active]
  <2>1. row \in LaundryItems /\ row.row = "live"
    BY DEF LaundryItems
  <2>2. CatalogueEdit /\ UNCHANGED clothing /\ item' = [item EXCEPT ![i] = row]
    BY <1>3 DEF CreateLaundryItem, UpdateLaundryItem
  <2> HIDE DEF row
  <2> QED
    BY <1>1, <2>1, <2>2 DEF ItemWritten
<1>4. ASSUME NEW i \in Items, SoftDeleteLaundryItem(i) \/ HardDeleteLaundryItem(i, cited)
      PROVE  CatalogueStays(cited)
  <2>1. ASSUME NEW to \in {"deleted", "erased"}, CatalogueEdit, UNCHANGED clothing,
               item' = [item EXCEPT ![i].row = to], i \in cited => to = "deleted"
        PROVE  CatalogueStays(cited)
    <3> DEFINE row == [item[i] EXCEPT !.row = to]
    <3>1. row \in LaundryItems /\ row.row = to
      BY DEF CatalogueTypeOK, LaundryItems
    <3>2. item' = [item EXCEPT ![i] = row]
      BY <2>1
    <3> HIDE DEF row
    <3> QED
      BY <1>1, <2>1, <3>1, <3>2 DEF ItemWritten
  <2> QED
    BY <1>4, <2>1 DEF SoftDeleteLaundryItem, HardDeleteLaundryItem
<1>5. ASSUME NEW t \in ClothingTypes, NEW active \in BOOLEAN, CreateClothingType(t, active)
      PROVE  CatalogueStays(cited)
  <2>1. /\ [row |-> "live", active |-> active] \in ClothingRows
        /\ [row |-> "live", active |-> active].row # "none"
    BY DEF ClothingRows
  <2> QED
    BY <1>2, <1>5, <2>1 DEF CreateClothingType, TypeWritten
<1>6. ASSUME NEW t \in ClothingTypes, NEW active \in BOOLEAN, UpdateClothingType(t, active)
      PROVE  CatalogueStays(cited)
  <2> DEFINE row == [clothing[t] EXCEPT !.active = active]
  <2>1. row \in ClothingRows /\ row.row # "none"
    BY <1>6 DEF UpdateClothingType, GetClothingTypeByID, CatalogueTypeOK, ClothingRows
  <2>2. clothing' = [clothing EXCEPT ![t] = row]
    BY <1>6 DEF UpdateClothingType
  <2> HIDE DEF row
  <2> QED
    BY <1>2, <1>6, <2>1, <2>2 DEF UpdateClothingType, TypeWritten
<1>7. ASSUME NEW t \in ClothingTypes, SoftDeleteClothingType(t) PROVE CatalogueStays(cited)
  <2> DEFINE row == [clothing[t] EXCEPT !.row = "deleted"]
  <2>1. row \in ClothingRows /\ row.row # "none"
    BY DEF CatalogueTypeOK, ClothingRows
  <2>2. clothing' = [clothing EXCEPT ![t] = row]
    BY <1>7 DEF SoftDeleteClothingType
  <2> HIDE DEF row
  <2> QED
    BY <1>2, <1>7, <2>1, <2>2 DEF SoftDeleteClothingType, TypeWritten
<1> QED
  BY <1>3, <1>4, <1>5, <1>6, <1>7 DEF CatalogueNext

\* One request goes on; nothing is written.
LEMMA FilerMoves ==
  ASSUME CountsInv, NEW f \in Filers, NEW r \in Filings, Len(r.items) <= MaxLines,
         CountedExist(r.counts), filer' = [filer EXCEPT ![f] = r],
         UNCHANGED <<orderRows, catalogueVars>>
  PROVE  CountsInv'
<1>1. /\ filer' \in [Filers -> Filings]
      /\ \A g \in Filers : filer'[g] = IF g = f THEN r ELSE filer[g]
  BY DEF CountsInv
<1>2. \A g \in Filers : Len(filer'[g].items) <= MaxLines /\ CountedExist(filer'[g].counts)
  BY <1>1 DEF CountsInv
<1>3. UNCHANGED <<arrived, orderTotal, orderItems, breakdown, item, clothing, catalogueEdits>>
  BY DEF orderRows, catalogueVars
<1> QED
  BY <1>1, <1>2, <1>3 DEF CountsInv, CatalogueTypeOK, CitedExist, CountedExist, TotalMatchesItems

LEMMA NotFiling == NoFiling \in Filings /\ Len(NoFiling.items) = 0 /\ CountedExist(NoFiling.counts)
BY DEF NoFiling, Filings, NoCounts, Counts, CountedExist

LEMMA CountsInitInv == CountInit => CountsInv
<1> SUFFICES ASSUME CountInit PROVE CountsInv
  OBVIOUS
<1>1. CatalogueTypeOK
  BY PriceAssumption DEF CountInit, CatalogueInit, CatalogueTypeOK, LaundryItems, ClothingRows,
     defaultUnit, Units
<1>2. filer = [f \in Filers |-> NoFiling] /\ orderItems = <<>> /\ breakdown = NoCounts
  BY DEF CountInit
<1>3. orderItems \in Seq(OrderItemRows) /\ CitedExist
  BY <1>2 DEF CitedExist
<1>4. breakdown \in Counts /\ CountedExist(breakdown)
  BY <1>2 DEF NoCounts, Counts, CountedExist
<1> QED
  BY <1>1, <1>2, <1>3, <1>4, NotFiling, CountAssumption DEF CountInit, CountsInv, TotalMatchesItems

LEMMA CountsStepInv == CountsInv /\ [CountNext]_<<countVars, catalogueVars>> => CountsInv'
<1> SUFFICES ASSUME CountsInv, [CountNext]_<<countVars, catalogueVars>> PROVE CountsInv'
  OBVIOUS
<1>1. ASSUME NEW f \in Filers, ProcessOrderFails(f) PROVE CountsInv'
  <2>1. Len(NoFiling.items) <= MaxLines
    BY NotFiling, CountAssumption
  <2> QED
    BY <1>1, <2>1, NotFiling, FilerMoves DEF ProcessOrderFails
<1>2. ASSUME NEW f \in Filers, ProcessOrderChecks(f) PROVE CountsInv'
  <2> DEFINE r == [filer[f] EXCEPT !.at = "items"]
  <2>1. r \in Filings /\ r.items = filer[f].items /\ r.counts = filer[f].counts
    BY DEF CountsInv, Filings
  <2>2. filer' = [filer EXCEPT ![f] = r] /\ UNCHANGED <<orderRows, catalogueVars>>
    BY <1>2 DEF ProcessOrderChecks
  <2> HIDE DEF r
  <2>3. Len(r.items) <= MaxLines /\ CountedExist(r.counts)
    BY <2>1 DEF CountsInv
  <2> QED
    BY <2>1, <2>2, <2>3, FilerMoves
<1>3. ASSUME NEW f \in Filers, NEW i \in Items, NEW halves \in Halves,
             ReadsLaundryItem(f, i, halves)
      PROVE  CountsInv'
  <2> DEFINE row == [item |-> i, halves |-> halves, price |-> item[i].price]
             items == Append(filer[f].items, row)
             r == [filer[f] EXCEPT !.items = items]
  <2>1. row \in OrderItemRows
    BY DEF OrderItemRows, CountsInv, CatalogueTypeOK, LaundryItems
  <2>2. filer' = [filer EXCEPT ![f] = r] /\ UNCHANGED <<orderRows, catalogueVars>>
    BY <1>3 DEF ReadsLaundryItem
  <2> HIDE DEF row
  <2>3. /\ filer[f].items \in Seq(OrderItemRows) /\ Len(filer[f].items) < MaxLines
        /\ filer[f] \in Filings /\ CountedExist(filer[f].counts)
    BY <1>3 DEF ReadsLaundryItem, CountsInv, Filings
  <2>4. items \in Seq(OrderItemRows) /\ Len(items) <= MaxLines
    BY <2>1, <2>3, CountAssumption
  <2> HIDE DEF items
  <2>5. r \in Filings /\ r.items = items /\ r.counts = filer[f].counts
    BY <2>3, <2>4 DEF Filings
  <2> HIDE DEF r
  <2> QED
    BY <2>2, <2>3, <2>4, <2>5, FilerMoves
<1>4. ASSUME NEW f \in Filers, NEW counts \in Counts, ReadsClothingTypes(f, counts)
      PROVE  CountsInv'
  <2> DEFINE r == [filer[f] EXCEPT !.at = "tx", !.counts = counts]
  <2>1. r \in Filings /\ r.items = filer[f].items /\ r.counts = counts
    BY DEF CountsInv, Filings
  <2>2. filer' = [filer EXCEPT ![f] = r] /\ UNCHANGED <<orderRows, catalogueVars>>
    BY <1>4 DEF ReadsClothingTypes
  <2> HIDE DEF r
  <2>3. Len(r.items) <= MaxLines
    BY <2>1 DEF CountsInv
  <2>4. CountedExist(counts)
    BY <1>4 DEF ReadsClothingTypes, CountedExist, GetClothingTypeByID
  <2> QED
    BY <2>1, <2>2, <2>3, <2>4, FilerMoves
<1>5. ASSUME NEW f \in Filers, ProcessOrderIfCurrent(f) PROVE CountsInv'
  <2>1. /\ filer[f] \in Filings /\ filer[f].items \in Seq(OrderItemRows)
        /\ filer[f].counts \in Counts /\ CountedExist(filer[f].counts)
    BY DEF CountsInv, Filings
  <2>2. orderItems' = filer[f].items
    <3>1. orderItems' = <<>> \o filer[f].items
      BY <1>5 DEF ProcessOrderIfCurrent, CreateOrderItems, CountsInv, TotalMatchesItems
    <3> QED
      BY <2>1, <3>1, ConcatEmptySeq
  <2>3. UNCHANGED <<item, clothing, catalogueEdits>> /\ arrived' = FALSE
    BY <1>5 DEF ProcessOrderIfCurrent, catalogueVars
  <2>4. CitedExist'
    <3>1. \A r \in Range(filer[f].items) : item[r.item].row \in {"live", "deleted"}
      BY <1>5 DEF ProcessOrderIfCurrent, CreateOrderItems, GetLaundryItemByIDAny
    <3>2. \A n \in 1..Len(orderItems') : orderItems'[n] \in Range(filer[f].items)
      BY <2>1, <2>2 DEF Range
    <3> QED
      BY <2>3, <3>1, <3>2 DEF CitedExist
  <2>5. breakdown' \in Counts /\ CountedExist(breakdown)'
    <3>1. breakdown' = [t \in ClothingTypes |->
            IF filer[f].counts[t] # NULL THEN filer[f].counts[t] ELSE breakdown[t]]
      BY <1>5 DEF ProcessOrderIfCurrent, CreateOrderItemBreakdowns
    <3> QED
      BY <2>1, <2>3, <3>1 DEF CountsInv, Counts, CountedExist
  <2>6. /\ filer' = [filer EXCEPT ![f] = NoFiling]
        /\ \A g \in Filers : filer'[g] = IF g = f THEN NoFiling ELSE filer[g]
    BY <1>5 DEF ProcessOrderIfCurrent, CountsInv
  <2>7. filer' \in [Filers -> Filings]
    BY <2>6, NotFiling DEF CountsInv
  <2>8. \A g \in Filers : Len(filer'[g].items) <= MaxLines /\ CountedExist(filer[g].counts)'
    BY <2>3, <2>6, NotFiling, CountAssumption DEF CountsInv, CountedExist
  <2>9. TotalMatchesItems'
    BY <1>5, <2>2, <2>3 DEF ProcessOrderIfCurrent, TotalMatchesItems
  <2> QED
    BY <2>1, <2>2, <2>3, <2>4, <2>5, <2>7, <2>8, <2>9 DEF CountsInv, CatalogueTypeOK
<1>6. CASE CatalogueNext(Cited) /\ UNCHANGED countVars
  <2>1. CatalogueStays(Cited)
    BY <1>6, CatalogueStep DEF CountsInv
  <2>2. \A n \in 1..Len(orderItems) : orderItems[n].item \in Items /\ orderItems[n].item \in Cited
    <3>1. ASSUME NEW n \in 1..Len(orderItems)
          PROVE  orderItems[n] \in Range(orderItems) /\ orderItems[n] \in OrderItemRows
      BY DEF CountsInv, Range
    <3> QED
      BY <3>1 DEF Cited, OrderItemRows
  <2>3. CitedExist'
    BY <1>6, <2>1, <2>2 DEF countVars, CatalogueStays, CountsInv, CitedExist
  <2>4. CountedExist(breakdown)' /\ \A f \in Filers : CountedExist(filer[f].counts)'
    BY <1>6, <2>1 DEF countVars, CatalogueStays, CountsInv, CountedExist
  <2> QED
    BY <1>6, <2>1, <2>3, <2>4 DEF countVars, CatalogueStays, CountsInv, TotalMatchesItems
<1>7. CASE UNCHANGED <<countVars, catalogueVars>>
  BY <1>7 DEF countVars, catalogueVars, CountsInv, CatalogueTypeOK, CitedExist, CountedExist,
     TotalMatchesItems
<1> QED
  BY <1>1, <1>2, <1>3, <1>4, <1>5, <1>6, <1>7 DEF CountNext

LEMMA CountsInvHolds == CountSpec => []CountsInv
BY CountsInitInv, CountsStepInv, PTL DEF CountSpec

\* The catalogue, the order's rows and what requests have read keep their types.
THEOREM CountTypeCorrect == CountSpec => []CountTypeOK
<1>1. CountsInv => CountTypeOK
  <2> SUFFICES ASSUME CountsInv PROVE CountTypeOK
    OBVIOUS
  <2>1. orderTotal \in Nat
    BY AmountType, CountAssumption DEF CountsInv, TotalMatchesItems
  <2>2. \A q \in Seq(OrderItemRows) : Range(q) \subseteq OrderItemRows
    BY DEF Range
  <2> QED
    BY <2>1, <2>2 DEF CountsInv, CountTypeOK, Filings
<1> QED
  BY <1>1, CountsInvHolds, PTL

\* Only the transaction that finds the order at the outlet leaves rows, and it
\* leaves the total of exactly those, whoever else looked at the order before.
THEOREM TotalMatchesItemsHolds == CountSpec => []TotalMatchesItems
<1>1. CountsInv => TotalMatchesItems
  BY DEF CountsInv
<1> QED
  BY <1>1, CountsInvHolds, PTL

\* Recorded once each, an item is counted against its one row.
LEMMA ExpectedIsTheRow ==
  ASSUME CountsInv, ListedOnce, NEW expected \in ExpectedSatuan, NEW n \in 1..Len(orderItems),
         item[orderItems[n].item].unit = "pcs"
  PROVE  /\ orderItems[n].item \in DOMAIN expected
         /\ expected[orderItems[n].item] = Pieces(orderItems[n])
<1> DEFINE counted == {i \in Cited : item[i].unit = "pcs"}
           i == orderItems[n].item
<1>1. orderItems \in Seq(OrderItemRows) /\ DOMAIN orderItems = 1..Len(orderItems)
  BY DEF CountsInv
<1>2. i \in counted
  BY <1>1 DEF Cited, Range
<1>3. /\ DOMAIN expected = counted
      /\ \A j \in counted : \E r \in Range(orderItems) : r.item = j /\ expected[j] = Pieces(r)
  BY DEF ExpectedSatuan
<1>4. PICK r \in Range(orderItems) : r.item = i /\ expected[i] = Pieces(r)
  BY <1>2, <1>3
<1>5. PICK m \in 1..Len(orderItems) : r = orderItems[m]
  BY <1>1, <1>4 DEF Range
<1>6. m = n
  BY <1>4, <1>5 DEF ListedOnce
<1> QED
  BY <1>2, <1>3, <1>4, <1>5, <1>6

\* A station's count is judged by what was recorded, whatever the catalogue has
\* become since: nothing recorded has been erased, and each item has one row.
THEOREM StationJudgesCountHolds == CountSpec => []StationJudgesCount
<1>1. CountsInv => StationJudgesCount
  <2> SUFFICES ASSUME CountsInv, ListedOnce,
                      NEW pieces \in [Items -> {h \div 2 : h \in Halves} \cup {0}],
                      NEW types \in [ClothingTypes -> Halves \cup {0}],
                      NEW expected \in ExpectedSatuan
               PROVE  LET answer == SubmitItemsAnswer(expected, pieces, types)
                          wrong == {t \in ClothingTypes : breakdown[t] \notin {NULL, types[t]}}
                      IN  /\ answer = "completed" <=>
                               /\ wrong = {}
                               /\ \A r \in Range(orderItems) :
                                    item[r.item].unit = "pcs" => pieces[r.item] = Pieces(r)
                          /\ answer = "error" => \E t \in wrong : clothing[t].row = "deleted"
    BY DEF StationJudgesCount
  <2> DEFINE wrong == {t \in ClothingTypes : breakdown[t] \notin {NULL, types[t]}}
             off == Differing(ExpectedBreakdown, types)
             differ == Differing(expected, pieces)
  <2>1. off = wrong
    BY DEF Differing, ExpectedBreakdown
  <2>2. DOMAIN orderItems = 1..Len(orderItems)
    BY DEF CountsInv
  <2>3. ASSUME NEW i \in Cited PROVE ItemIsRead(i)
    <3>1. PICK n \in 1..Len(orderItems) : i = orderItems[n].item
      BY <2>2, <2>3 DEF Cited, Range
    <3> QED
      BY <3>1 DEF CountsInv, CitedExist, ItemIsRead, GetLaundryItemByIDAny
  <2>4. ASSUME NEW r \in Range(orderItems), item[r.item].unit = "pcs"
        PROVE  r.item \in DOMAIN expected /\ expected[r.item] = Pieces(r)
    <3>1. PICK n \in 1..Len(orderItems) : r = orderItems[n]
      BY <2>2, <2>4 DEF Range
    <3> QED
      BY <2>4, <3>1, ExpectedIsTheRow
  <2>5. ASSUME NEW i \in DOMAIN expected
        PROVE  \E r \in Range(orderItems) : r.item = i /\ item[r.item].unit = "pcs"
    BY <2>5 DEF ExpectedSatuan, Cited
  <2>6. differ = {} <=> \A r \in Range(orderItems) :
                           item[r.item].unit = "pcs" => pieces[r.item] = Pieces(r)
    BY <2>4, <2>5 DEF Differing
  <2>7. ASSUME NEW t \in off, ~GetClothingTypeByID(t) PROVE t \in wrong /\ clothing[t].row = "deleted"
    <3>1. t \in wrong /\ breakdown[t] # NULL
      BY <2>1, <2>7
    <3>2. clothing[t].row # "none" /\ clothing[t].row \in {"none", "live", "deleted"}
      BY <3>1 DEF CountsInv, CountedExist, CatalogueTypeOK, ClothingRows
    <3> QED
      BY <2>7, <3>1, <3>2 DEF GetClothingTypeByID
  <2>8. SubmitItemsAnswer(expected, pieces, types) =
          IF off = {} /\ differ = {} THEN "completed"
          ELSE IF \A t \in off : GetClothingTypeByID(t) THEN "requires_bypass" ELSE "error"
    BY <2>3 DEF SubmitItemsAnswer
  <2> HIDE DEF off, differ, wrong
  <2>9. /\ SubmitItemsAnswer(expected, pieces, types) = "completed" <=> off = {} /\ differ = {}
        /\ SubmitItemsAnswer(expected, pieces, types) = "error" =>
             \E t \in off : ~GetClothingTypeByID(t)
    BY <2>8
  <2> QED
    BY <2>1, <2>6, <2>7, <2>9 DEF wrong
<1> QED
  BY <1>1, CountsInvHolds, PTL

-----------------------------------------------------------------------------
(* The page of an order *)

StoryInv ==
  /\ viewedStage \in ViewedStages
  /\ told \subseteq ViewedStages /\ viewedStage \in told
  /\ viewedSettled \in BOOLEAN /\ paymentRow \in BOOLEAN
  /\ viewedStage \notin BeforeWashing => "washing" \in told
  /\ recorded \in Recordings /\ validateProcessOrderRequest(recorded)
  /\ recorded.breakdown => viewedStage \notin BeforeWashing
  /\ viewedSettled => paymentRow
  /\ told \cap AfterPayment # {} => paymentRow

\* How far the order has come is never taken back.
LEMMA StoryGrows ==
  ASSUME StoryInv, [DetailNext]_detailVars
  PROVE  /\ StoryInv'
         /\ told \subseteq told'
         /\ viewedStage \notin BeforeWashing =>
              viewedStage' \notin BeforeWashing /\ recorded' = recorded
<1> USE DEF StoryInv, BeforeWashing, AfterPayment
<1>1. CASE ViewedOrderMoves
  <2>1. viewedStage' \in Life!Successors[viewedStage]
    BY <1>1 DEF ViewedOrderMoves
  <2>2. viewedStage' = "ready_for_delivery" => viewedSettled
    <3>1. PICK next \in Life!Successors[viewedStage] :
            /\ next = "ready_for_delivery" => viewedSettled
            /\ [o \in {Viewed} |-> viewedStage'] = [o \in {Viewed} |-> next]
      BY <1>1 DEF ViewedOrderMoves, Life!Advance
    <3>2. viewedStage' = next
      BY <3>1
    <3> QED
      BY <3>1, <3>2
  <2>3. viewedStage' \in ViewedStages
    BY <2>1 DEF ViewedStages, Life!Successors
  <2>4. viewedStage' \notin BeforeWashing =>
          viewedStage' = "washing" \/ viewedStage \notin BeforeWashing
    BY <2>1 DEF ViewedStages, Life!Successors
  <2>5. viewedStage \notin BeforeWashing => viewedStage' \notin BeforeWashing
    BY <2>1 DEF ViewedStages, Life!Successors
  <2>6. viewedStage' \in AfterPayment =>
          viewedStage' = "ready_for_delivery" \/ viewedStage \in AfterPayment
    BY <2>1 DEF ViewedStages, Life!Successors
  <2>7. told' = told \cup {viewedStage'} /\ UNCHANGED <<viewedSettled, paymentRow>>
    BY <1>1 DEF ViewedOrderMoves
  <2>8. viewedStage' = "washing" => viewedStage \in BeforeWashing
    BY <2>1 DEF ViewedStages, Life!Successors
  <2>9. /\ viewedStage' = "washing" =>
             recorded' \in Recordings /\ validateProcessOrderRequest(recorded')
        /\ viewedStage' # "washing" => recorded' = recorded
    BY <1>1 DEF ViewedOrderMoves
  <2>10. /\ recorded' \in Recordings /\ validateProcessOrderRequest(recorded')
         /\ recorded'.breakdown => viewedStage' \notin BeforeWashing
    BY <2>5, <2>9
  <2> QED
    BY <2>2, <2>3, <2>4, <2>5, <2>6, <2>7, <2>8, <2>9, <2>10
<1>3. CASE PaymentOpens
  BY <1>3 DEF PaymentOpens
<1>4. CASE PaymentSettles
  BY <1>4 DEF PaymentSettles
<1>5. CASE UNCHANGED storyVars
  BY <1>5 DEF storyVars
<1>6. ASSUME NEW v \in Viewers, AsksForPage(v) \/ ReadsPart(v) \/ PageFails(v)
      PROVE  UNCHANGED storyVars
  BY <1>6 DEF AsksForPage, ReadsPart, PageFails
<1> QED
  BY <1>1, <1>3, <1>4, <1>5, <1>6 DEF DetailNext, detailVars, storyVars

Page == [parts : 0..5, order : OrderRows \cup {NULL},
         items : BOOLEAN \cup {NULL}, breakdown : BOOLEAN \cup {NULL},
         history : (SUBSET ViewedStages) \cup {NULL}, payment : BOOLEAN \cup {NULL}]

Washed == viewedStage \notin BeforeWashing

\* What a page shows so far was so, and what it necessitates is still to be read.
Shows(p) ==
  /\ p.parts >= 1 =>
       /\ p.order.status \in told
       /\ p.order.status \notin BeforeWashing =>
            Washed /\ (p.order.weight <=> recorded.breakdown)
  /\ p.parts >= 2 => (p.order.status \notin BeforeWashing => p.items) /\ (p.items => Washed)
  /\ p.parts >= 3 => /\ p.order.status \notin BeforeWashing =>
                          (p.breakdown <=> p.order.weight)
                     /\ p.breakdown => Washed
  /\ p.parts >= 4 => /\ p.order.status \in p.history
                     /\ p.items \/ p.breakdown => "washing" \in p.history
                     /\ p.history \subseteq told
  /\ p.parts = 5 => (p.history \cap AfterPayment # {} => p.payment)

PagesInv ==
  /\ page \in [Viewers -> Page]
  /\ \A v \in Viewers : Shows(page[v])

LEMMA EmptyPage == NoPage \in Page /\ Shows(NoPage)
<1>1. NoPage \in Page
  BY DEF NoPage, Page
<1>2. NoPage.parts = 0
  BY DEF NoPage
<1> QED
  BY <1>1, <1>2 DEF Shows

LEMMA PageField ==
  ASSUME NEW p \in Page
  PROVE  /\ \A s \in OrderRows : [p EXCEPT !.order = s] \in Page
         /\ \A w \in BOOLEAN : /\ [p EXCEPT !.items = w] \in Page
                               /\ [p EXCEPT !.breakdown = w] \in Page
                               /\ [p EXCEPT !.payment = w] \in Page
         /\ \A h \in SUBSET ViewedStages : [p EXCEPT !.history = h] \in Page
<1>1. \A s \in OrderRows : [p EXCEPT !.order = s] \in Page
  BY DEF Page
<1>2. \A w \in BOOLEAN : [p EXCEPT !.items = w] \in Page
  BY DEF Page
<1>3. \A w \in BOOLEAN : [p EXCEPT !.breakdown = w] \in Page
  BY DEF Page
<1>4. \A w \in BOOLEAN : [p EXCEPT !.payment = w] \in Page
  BY DEF Page
<1>5. \A h \in SUBSET ViewedStages : [p EXCEPT !.history = h] \in Page
  BY DEF Page
<1> QED
  BY <1>1, <1>2, <1>3, <1>4, <1>5

\* The next part is put on the page as it is now.
LEMMA PageRead ==
  ASSUME StoryInv, PagesInv, NEW v \in Viewers, ReadsPart(v)
  PROVE  \E q \in Page : Shows(q) /\ page' = [page EXCEPT ![v] = q]
<1> DEFINE p == page[v]
<1>1. p \in Page /\ Shows(p) /\ p.parts \in 1..4
  BY DEF PagesInv, ReadsPart, Parts, Page
<1>2. UNCHANGED <<viewedStage, recorded, told>>
  BY DEF ReadsPart, storyVars
<1>3. CASE p.parts = 1
  <2>1. PICK w : w = Value("items")
    OBVIOUS
  <2> DEFINE q == [p EXCEPT !.parts = 2, !.items = w]
  <2>2. page' = [page EXCEPT ![v] = q]
    <3>1. Parts[page[v].parts + 1] = "items"
      BY <1>3 DEF Parts
    <3>2. page' = [page EXCEPT ![v].parts = @ + 1, ![v]["items"] = Value("items")]
      BY <3>1 DEF ReadsPart
    <3>3. page' = [page EXCEPT ![v].parts = 2, ![v]["items"] = w]
      BY <1>3, <2>1, <3>2
    <3> QED
      BY <3>3
  <2>3. w \in BOOLEAN /\ (w <=> Washed)
    BY <2>1 DEF Value, Washed, StoryInv, BeforeWashing
  <2>4. q \in Page
    <3>1. [p EXCEPT !.parts = 2] \in Page
      BY <1>1 DEF Page
    <3>2. [[p EXCEPT !.parts = 2] EXCEPT !.items = w] \in Page
      BY <2>3, <3>1, PageField DEF StoryInv
    <3> QED
      BY <1>1, <3>2 DEF Page
  <2>5. /\ q.parts = 2 /\ q.items = w
        /\ q.order = p.order
    BY <1>1 DEF Page
  <2> HIDE DEF q
  <2>6. Shows(q)
    BY <1>1, <1>2, <1>3, <2>3, <2>5 DEF Shows, StoryInv, Washed
  <2> QED
    BY <2>2, <2>4, <2>6
<1>4. CASE p.parts = 2
  <2>1. PICK w : w = Value("breakdown")
    OBVIOUS
  <2> DEFINE q == [p EXCEPT !.parts = 3, !.breakdown = w]
  <2>2. page' = [page EXCEPT ![v] = q]
    <3>1. Parts[page[v].parts + 1] = "breakdown"
      BY <1>4 DEF Parts
    <3>2. page' = [page EXCEPT ![v].parts = @ + 1, ![v]["breakdown"] = Value("breakdown")]
      BY <3>1 DEF ReadsPart
    <3>3. page' = [page EXCEPT ![v].parts = 3, ![v]["breakdown"] = w]
      BY <1>4, <2>1, <3>2
    <3> QED
      BY <3>3
  <2>3. w \in BOOLEAN /\ (w <=> recorded.breakdown)
    BY <2>1 DEF Value, StoryInv, Recordings
  <2>4. q \in Page
    <3>1. [p EXCEPT !.parts = 3] \in Page
      BY <1>1 DEF Page
    <3>2. [[p EXCEPT !.parts = 3] EXCEPT !.breakdown = w] \in Page
      BY <2>3, <3>1, PageField DEF StoryInv
    <3> QED
      BY <1>1, <3>2 DEF Page
  <2>5. /\ q.parts = 3 /\ q.breakdown = w
        /\ q.order = p.order /\ q.items = p.items
    BY <1>1 DEF Page
  <2> HIDE DEF q
  <2>6. Shows(q)
    BY <1>1, <1>2, <1>4, <2>3, <2>5 DEF Shows, StoryInv, Washed
  <2> QED
    BY <2>2, <2>4, <2>6
<1>5. CASE p.parts = 3
  <2>1. PICK w : w = Value("history")
    OBVIOUS
  <2> DEFINE q == [p EXCEPT !.parts = 4, !.history = w]
  <2>2. page' = [page EXCEPT ![v] = q]
    <3>1. Parts[page[v].parts + 1] = "history"
      BY <1>5 DEF Parts
    <3>2. page' = [page EXCEPT ![v].parts = @ + 1, ![v]["history"] = Value("history")]
      BY <3>1 DEF ReadsPart
    <3>3. page' = [page EXCEPT ![v].parts = 4, ![v]["history"] = w]
      BY <1>5, <2>1, <3>2
    <3> QED
      BY <3>3
  <2>3. w = told
    BY <2>1 DEF Value, Washed, StoryInv, BeforeWashing
  <2>4. q \in Page
    <3>1. [p EXCEPT !.parts = 4] \in Page
      BY <1>1 DEF Page
    <3>2. [[p EXCEPT !.parts = 4] EXCEPT !.history = w] \in Page
      BY <2>3, <3>1, PageField DEF StoryInv
    <3> QED
      BY <1>1, <3>2 DEF Page
  <2>5. /\ q.parts = 4 /\ q.history = w
        /\ q.order = p.order /\ q.items = p.items /\ q.breakdown = p.breakdown
    BY <1>1 DEF Page
  <2> HIDE DEF q
  <2>6. Shows(q)
    BY <1>1, <1>2, <1>5, <2>3, <2>5 DEF Shows, StoryInv, Washed
  <2> QED
    BY <2>2, <2>4, <2>6
<1>6. CASE p.parts = 4
  <2>1. PICK w : w = Value("payment")
    OBVIOUS
  <2> DEFINE q == [p EXCEPT !.parts = 5, !.payment = w]
  <2>2. page' = [page EXCEPT ![v] = q]
    <3>1. Parts[page[v].parts + 1] = "payment"
      BY <1>6 DEF Parts
    <3>2. page' = [page EXCEPT ![v].parts = @ + 1, ![v]["payment"] = Value("payment")]
      BY <3>1 DEF ReadsPart
    <3>3. page' = [page EXCEPT ![v].parts = 5, ![v]["payment"] = w]
      BY <1>6, <2>1, <3>2
    <3> QED
      BY <3>3
  <2>3. w \in BOOLEAN /\ (w <=> paymentRow)
    BY <2>1 DEF Value, Washed, StoryInv, BeforeWashing
  <2>4. q \in Page
    <3>1. [p EXCEPT !.parts = 5] \in Page
      BY <1>1 DEF Page
    <3>2. [[p EXCEPT !.parts = 5] EXCEPT !.payment = w] \in Page
      BY <2>3, <3>1, PageField DEF StoryInv
    <3> QED
      BY <1>1, <3>2 DEF Page
  <2>5. /\ q.parts = 5 /\ q.payment = w
        /\ q.order = p.order /\ q.items = p.items
        /\ q.breakdown = p.breakdown /\ q.history = p.history
    BY <1>1 DEF Page
  <2> HIDE DEF q
  <2>6. Shows(q)
    BY <1>1, <1>2, <1>6, <2>3, <2>5 DEF Shows, StoryInv, Washed
  <2> QED
    BY <2>2, <2>4, <2>6
<1> QED
  BY <1>1, <1>3, <1>4, <1>5, <1>6

\* A page in the making is overtaken by the order only where it does no harm.
LEMMA PagesStep ==
  ASSUME StoryInv, PagesInv, [DetailNext]_detailVars
  PROVE  PagesInv'
<1>1. \A p \in Page : Shows(p) => Shows(p)'
  BY StoryGrows DEF Shows, Washed
<1>2. ASSUME NEW v \in Viewers, NEW q \in Page, Shows(q), page' = [page EXCEPT ![v] = q]
      PROVE  PagesInv'
  <2>1. page' \in [Viewers -> Page]
    BY <1>2 DEF PagesInv
  <2>2. ASSUME NEW u \in Viewers, NEW p, p = page'[u] PROVE Shows(p)'
    <3>1. p \in Page /\ Shows(p)
      BY <1>2, <2>2 DEF PagesInv
    <3> QED
      BY <1>1, <3>1
  <2>3. \A u \in Viewers : Shows(page[u])'
    BY <2>2 DEF Shows, Washed
  <2> QED
    BY <2>1, <2>3 DEF PagesInv
<1>3. ASSUME NEW v \in Viewers, AsksForPage(v) PROVE PagesInv'
  <2>1. PICK q : q = [NoPage EXCEPT !.parts = 1, !.order = Value("order")]
    OBVIOUS
  <2>2. page' = [page EXCEPT ![v] = q]
    BY <1>3, <2>1 DEF AsksForPage, Parts
  <2>3. q \in Page /\ q.parts = 1
        /\ q.order.status = viewedStage /\ q.order.weight = recorded.weight
    <3> DEFINE row == [status |-> viewedStage, weight |-> recorded.weight]
    <3>0. Value("order") = row /\ row \in OrderRows
      BY DEF Value, StoryInv, Recordings, OrderRows
    <3>1. [NoPage EXCEPT !.parts = 1] \in Page
      BY EmptyPage DEF Page
    <3>2. [[NoPage EXCEPT !.parts = 1] EXCEPT !.order = row] \in Page
      BY <3>0, <3>1, PageField
    <3>3. q \in Page
      BY <2>1, <3>0, <3>2, EmptyPage DEF Page
    <3> QED
      BY <2>1, <3>0, <3>3, EmptyPage DEF Page
  <2>4. Shows(q)
    BY <2>3 DEF Shows, StoryInv, Washed, validateProcessOrderRequest
  <2> QED
    BY <1>2, <2>2, <2>3, <2>4
<1>4. ASSUME NEW v \in Viewers, ReadsPart(v) PROVE PagesInv'
  BY <1>2, <1>4, PageRead
<1>5. ASSUME NEW v \in Viewers, PageFails(v) PROVE PagesInv'
  BY <1>2, <1>5, EmptyPage DEF PageFails
<1>6. CASE UNCHANGED page
  <2>1. ASSUME NEW u \in Viewers, NEW p, p = page'[u] PROVE Shows(p)'
    BY <1>1, <1>6, <2>1 DEF PagesInv
  <2>2. \A u \in Viewers : Shows(page[u])'
    BY <2>1 DEF Shows, Washed
  <2> QED
    BY <1>6, <2>2 DEF PagesInv
<1>7. UNCHANGED page \/ \E v \in Viewers : AsksForPage(v) \/ ReadsPart(v) \/ PageFails(v)
  BY DEF DetailNext, detailVars, ViewedOrderMoves, PaymentOpens, PaymentSettles
<1> QED
  BY <1>3, <1>4, <1>5, <1>6, <1>7

LEMMA PagesInvHolds == DetailSpec => [](StoryInv /\ PagesInv)
<1>1. DetailInit => StoryInv /\ PagesInv
  <2> SUFFICES ASSUME DetailInit PROVE StoryInv /\ PagesInv
    OBVIOUS
  <2>1. StoryInv
    BY DEF DetailInit, StoryInv, ViewedStages, Life!Successors, BeforeWashing, AfterPayment,
       Recordings, validateProcessOrderRequest
  <2>2. PagesInv
    BY EmptyPage DEF DetailInit, PagesInv
  <2> QED
    BY <2>1, <2>2
<1>2. StoryInv /\ PagesInv /\ [DetailNext]_detailVars => StoryInv' /\ PagesInv'
  BY StoryGrows, PagesStep
<1> QED
  BY <1>1, <1>2, PTL DEF DetailSpec

\* The order, its story and the pages keep their types.
THEOREM DetailTypeCorrect == DetailSpec => []DetailTypeOK
<1>1. StoryInv /\ PagesInv => DetailTypeOK
  BY DEF StoryInv, PagesInv, Page, DetailTypeOK
<1> QED
  BY <1>1, PagesInvHolds, PTL

\* However many statements of however many requests the order overtakes, a page
\* that is complete shows nothing without what it necessitates.
THEOREM DetailIsCoherentHolds == DetailSpec => []DetailIsCoherent
<1>1. PagesInv => DetailIsCoherent
  BY DEF PagesInv, Shows, DetailIsCoherent, Parts
<1> QED
  BY <1>1, PagesInvHolds, PTL

-----------------------------------------------------------------------------
(* Login attempts *)

BucketRows == [tokens : Int, last : 0..LastTick, lastEvent : Nat]
AttemptRows ==
  [at : {"none", "timed", "handling", "refused"}, bucket : 0..Buckets, now : 0..LastTick,
   timeToAct : Nat]

Full == Burst * Unit

\* Types, and that an attempt in flight has a bucket that has been made.
LimitInv ==
  /\ clock \in 0..LastTick
  /\ visitor \in [made : 0..Buckets, kept : BOOLEAN, lastSeen : 0..LastTick]
  /\ bucket \in [1..Buckets -> BucketRows]
  /\ \A b \in 1..Buckets : bucket[b].tokens <= Full
  /\ attempt \in [Attempts -> AttemptRows]
  /\ made \in 0..MaxAttempts
  /\ failed \in Nat /\ lag \in Nat
  /\ visitor.kept => visitor.made > 0
  /\ \A a \in Attempts : attempt[a].at # "none" => attempt[a].bucket \in 1..visitor.made

LEMMA FullType == Full \in Nat /\ Full <= StaleAfter /\ Unit \in Nat /\ Unit > 0 /\ Unit <= Full
<1>1. Burst \in Nat /\ Burst > 0 /\ Unit \in Nat /\ Unit > 0 /\ StaleAfter >= Burst * Unit
  BY RateAssumption
<1>2. Burst * Unit \in Nat
  BY <1>1
<1>3. Burst * Unit = Unit + (Burst - 1) * Unit
  BY <1>1
<1>4. (Burst - 1) * Unit \in Nat
  BY <1>1
<1> QED
  BY <1>1, <1>2, <1>3, <1>4, RateAssumption DEF Full

\* What a bucket, had since the time o, is worth, had the clock not run since.
Worth(row, o) == Lower(row.tokens - row.last, Full - o)

\* A bucket as an attempt made at time t leaves it.
Touched(b) ==
  /\ bucket' \in [1..Buckets -> BucketRows]
  /\ \A c \in 1..Buckets : bucket'[c].tokens <= Full /\ (c # b => bucket'[c] = bucket[c])
  /\ lag' \in Nat /\ lag' >= lag

LEMMA BucketSet ==
  ASSUME LimitInv, NEW b \in 1..Buckets, NEW t \in 0..LastTick, NEW tokens \in Int, tokens <= Full,
         NEW lastEvent \in Nat, NEW extra \in Nat, SetBucket(b, t, tokens, lastEvent, extra)
  PROVE  /\ Touched(b)
         /\ bucket'[b] = [tokens |-> tokens, last |-> t, lastEvent |-> lastEvent]
         /\ bucket'[b].tokens = tokens /\ bucket'[b].last = t
         /\ lag' = lag + (bucket[b].last - Lower(bucket[b].last, t)) + extra
<1>1. [tokens |-> tokens, last |-> t, lastEvent |-> lastEvent] \in BucketRows
  BY DEF BucketRows
<1>2. bucket' = [bucket EXCEPT ![b] = [tokens |-> tokens, last |-> t, lastEvent |-> lastEvent]]
  BY DEF SetBucket
<1>3. bucket[b].last \in Int /\ lag \in Nat /\ t \in Int
  BY RateAssumption DEF LimitInv, BucketRows
<1>4. lag' = lag + (bucket[b].last - Lower(bucket[b].last, t)) + extra /\ lag' \in Nat /\ lag' >= lag
  BY <1>3 DEF SetBucket, Lower
<1> QED
  BY <1>1, <1>2, <1>4 DEF LimitInv, Touched

LEMMA InFlightHas ==
  ASSUME LimitInv, NEW a \in Attempts, attempt[a].at # "none"
  PROVE  /\ attempt[a].bucket \in 1..Buckets /\ attempt[a].now \in 0..LastTick
         /\ attempt[a].now \in Nat /\ attempt[a].timeToAct \in Nat
         /\ bucket[attempt[a].bucket] \in BucketRows
         /\ bucket[attempt[a].bucket].tokens <= Full /\ lag \in Nat
<1>1. attempt[a] \in AttemptRows /\ attempt[a].bucket \in 1..visitor.made /\ visitor.made \in 0..Buckets
  BY DEF LimitInv
<1>2. attempt[a].bucket \in 1..Buckets
  BY <1>1, RateAssumption
<1>3. attempt[a].now \in 0..LastTick /\ attempt[a].now \in Nat /\ attempt[a].timeToAct \in Nat
  BY <1>1, RateAssumption DEF AttemptRows
<1> QED
  BY <1>2, <1>3 DEF LimitInv

\* A reservation costs the bucket a token, and what it is credited twice is kept
\* in lag; one that is granted leaves the bucket out of debt.
LEMMA ReserveFacts ==
  ASSUME LimitInv, NEW a \in Attempts, attempt[a].at = "timed", ReserveN(a)
  PROVE  LET b == attempt[a].bucket
             t == attempt[a].now
         IN  /\ Touched(b)
             /\ TimeToAct(b, t) \in Nat
             /\ \A o \in Int : o <= t => Worth(bucket'[b], o) <= Worth(bucket[b], o) + (lag' - lag) - Unit
             /\ TimeToAct(b, t) <= t => \A o \in Int : Worth(bucket'[b], o) >= Lower(0 - t, Full - o)
<1> DEFINE b == attempt[a].bucket
           t == attempt[a].now
           tokens == bucket[b].tokens
           last == bucket[b].last
<1>1. /\ b \in 1..Buckets /\ t \in 0..LastTick /\ t \in Nat
      /\ tokens \in Int /\ tokens <= Full /\ last \in Int
      /\ lag \in Nat
  BY InFlightHas, RateAssumption DEF BucketRows
<1>2. SetBucket(b, t, Reserved(b, t), TimeToAct(b, t), 0)
  BY DEF ReserveN
<1>3. Reserved(b, t) = Lower(Full, tokens + t - Lower(last, t)) - Unit
  BY DEF Reserved, advance, Full
<1> HIDE DEF b, t, tokens, last
<1>4. Reserved(b, t) \in Int /\ Reserved(b, t) <= Full
  BY <1>1, <1>3, FullType DEF Lower
<1>5. TimeToAct(b, t) \in Nat
  BY <1>1, <1>4 DEF TimeToAct
<1>6. /\ Touched(b)
      /\ bucket'[b].tokens = Reserved(b, t) /\ bucket'[b].last = t
      /\ lag' = lag + (last - Lower(last, t))
  <2>1. /\ Touched(b)
        /\ bucket'[b].tokens = Reserved(b, t) /\ bucket'[b].last = t
        /\ lag' = lag + (last - Lower(last, t)) + 0
    BY <1>1, <1>2, <1>4, <1>5, BucketSet DEF last
  <2> QED
    BY <1>1, <2>1 DEF Lower
<1>7. ASSUME NEW o \in Int
      PROVE  /\ Worth(bucket[b], o) = Lower(tokens - last, Full - o)
             /\ Worth(bucket'[b], o) = Lower(Reserved(b, t) - t, Full - o)
  BY <1>6 DEF Worth, tokens, last, b, t
<1>8. ASSUME NEW o \in Int, o <= t PROVE Worth(bucket'[b], o) <= Worth(bucket[b], o) + (lag' - lag) - Unit
  BY <1>1, <1>3, <1>6, <1>7, <1>8, FullType DEF Lower
<1>9. ASSUME TimeToAct(b, t) <= t, NEW o \in Int PROVE Worth(bucket'[b], o) >= Lower(0 - t, Full - o)
  <2>1. Reserved(b, t) >= 0
    BY <1>1, <1>4, <1>9 DEF TimeToAct
  <2> QED
    BY <1>1, <1>4, <1>7, <2>1, FullType DEF Lower
<1> QED
  BY <1>5, <1>6, <1>8, <1>9 DEF b, t

\* A refund is worth a token at most, but for what lag keeps.
LEMMA CancelFacts ==
  ASSUME LimitInv, NEW a \in Attempts, attempt[a].at # "none", CancelAt(a)
  PROVE  LET b == attempt[a].bucket
             t == attempt[a].now
         IN  /\ Touched(b)
             /\ \A o \in Int : o <= t => Worth(bucket'[b], o) <= Worth(bucket[b], o) + (lag' - lag) + Unit
<1> DEFINE b == attempt[a].bucket
           t == attempt[a].now
           tokens == bucket[b].tokens
           last == bucket[b].last
           event == bucket[b].lastEvent
           act == attempt[a].timeToAct
           restore == Unit - (event - act)
           full == Lower(Full, Lower(Full, tokens + t - Lower(last, t)) + restore)
           next == IF act = event /\ act - Unit >= t THEN act - Unit ELSE event
           extra == IF restore > Unit THEN restore - Unit ELSE 0
<1>1. /\ b \in 1..Buckets /\ t \in 0..LastTick /\ t \in Nat
      /\ tokens \in Int /\ tokens <= Full /\ last \in Int /\ event \in Nat /\ act \in Nat
      /\ lag \in Nat
  BY InFlightHas, RateAssumption DEF BucketRows
<1>2. IF restore <= 0 THEN UNCHANGED <<bucket, lag>> ELSE SetBucket(b, t, full, next, extra)
  BY DEF CancelAt, advance, Full
<1> HIDE DEF b, t, tokens, last, event, act
<1>3. CASE restore <= 0
  <2>1. UNCHANGED <<bucket, lag>>
    BY <1>2, <1>3
  <2>2. ASSUME NEW o \in Int PROVE Worth(bucket'[b], o) = Worth(bucket[b], o) /\ Worth(bucket[b], o) \in Int
    <3>1. Worth(bucket[b], o) = Lower(tokens - last, Full - o)
      BY DEF Worth, tokens, last
    <3>2. Worth(bucket'[b], o) = Worth(bucket[b], o)
      BY <2>1 DEF Worth, b
    <3> QED
      BY <1>1, <3>1, <3>2, FullType DEF Lower
  <2>3. Touched(b)
    BY <1>1, <2>1 DEF Touched, LimitInv
  <2> QED
    BY <1>1, <2>1, <2>2, <2>3, FullType DEF b, t
<1>4. CASE restore > 0
  <2>1. restore \in Int /\ full \in Int /\ full <= Full /\ next \in Nat /\ extra \in Nat
    BY <1>1, FullType DEF Lower
  <2>2. SetBucket(b, t, full, next, extra)
    BY <1>2, <1>4, <2>1
  <2> HIDE DEF full, next, extra
  <2>3. /\ Touched(b)
        /\ bucket'[b].tokens = full /\ bucket'[b].last = t
        /\ lag' = lag + (last - Lower(last, t)) + extra
    BY <1>1, <2>1, <2>2, BucketSet DEF last
  <2>4. ASSUME NEW o \in Int
        PROVE  /\ Worth(bucket[b], o) = Lower(tokens - last, Full - o)
               /\ Worth(bucket'[b], o) = Lower(full - t, Full - o)
    BY <2>3 DEF Worth, tokens, last, b, t
  <2>5. ASSUME NEW o \in Int, o <= t PROVE Worth(bucket'[b], o) <= Worth(bucket[b], o) + (lag' - lag) + Unit
    <3>1. /\ full <= Full /\ full <= tokens + t - Lower(last, t) + restore
          /\ restore <= Unit + extra /\ extra >= 0
          /\ Lower(last, t) \in Int /\ Lower(last, t) <= last
      BY <1>1, <1>4, <2>1, FullType DEF Lower, full, extra
    <3>2. full - t <= tokens - last + (lag' - lag) + Unit /\ lag' - lag >= 0
      BY <1>1, <2>1, <2>3, <3>1, FullType
    <3>3. full - t <= Full - o
      BY <1>1, <2>1, <2>5, FullType
    <3> HIDE DEF restore
    <3> QED
      BY <1>1, <2>1, <2>3, <2>4, <3>2, <3>3, FullType DEF Lower
  <2> QED
    BY <2>3, <2>5 DEF b, t
<1> QED
  BY <1>1, <1>3, <1>4, FullType

\* An attempt's step: the others keep their rows, and it keeps its bucket and
\* its timestamp while it is in flight.
Turns(a, to) ==
  /\ attempt' \in [Attempts -> AttemptRows]
  /\ \A q \in Attempts \ {a} : attempt'[q] = attempt[q]
  /\ attempt'[a].at = to
  /\ to # "none" => attempt'[a].bucket = attempt[a].bucket /\ attempt'[a].now = attempt[a].now

LEMMA ReserveMoves ==
  ASSUME LimitInv, NEW a \in Attempts, ReserveN(a)
  PROVE  Turns(a, IF TimeToAct(attempt[a].bucket, attempt[a].now) > attempt[a].now
                  THEN "refused" ELSE "handling")
<1> DEFINE act == TimeToAct(attempt[a].bucket, attempt[a].now)
           to == IF act > attempt[a].now THEN "refused" ELSE "handling"
<1>1. attempt \in [Attempts -> AttemptRows] /\ attempt[a].at = "timed"
  BY DEF LimitInv, ReserveN
<1>2. act \in Nat
  BY <1>1, ReserveFacts
<1>3. attempt' = [attempt EXCEPT ![a].at = to, ![a].timeToAct = act]
  BY DEF ReserveN
<1> HIDE DEF act
<1>4. to \in {"refused", "handling"}
  OBVIOUS
<1> HIDE DEF to
<1>5. attempt'[a] = [attempt[a] EXCEPT !.at = to, !.timeToAct = act]
  BY <1>1, <1>3
<1>6. attempt[a] \in AttemptRows
  BY <1>1
<1>7. /\ attempt'[a] \in AttemptRows /\ attempt'[a].at = to
      /\ attempt'[a].bucket = attempt[a].bucket /\ attempt'[a].now = attempt[a].now
  BY <1>2, <1>4, <1>5, <1>6 DEF AttemptRows
<1>8. attempt' \in [Attempts -> AttemptRows] /\ \A q \in Attempts \ {a} : attempt'[q] = attempt[q]
  BY <1>1, <1>3, <1>7
<1> QED
  BY <1>7, <1>8 DEF Turns, to, act

LEMMA ResolvedMoves ==
  ASSUME LimitInv, NEW a \in Attempts, attempt' = [attempt EXCEPT ![a] = Resolved]
  PROVE  Turns(a, "none")
<1>1. Resolved \in AttemptRows /\ Resolved.at = "none"
  BY RateAssumption DEF Resolved, AttemptRows
<1> QED
  BY <1>1 DEF LimitInv, Turns

\* The invariant survives any step of one attempt that touches its bucket.
LEMMA AttemptStepInv ==
  ASSUME LimitInv, NEW a \in Attempts, attempt[a].at # "none", NEW to, Turns(a, to),
         Touched(attempt[a].bucket), failed' \in Nat, UNCHANGED <<clock, visitor, made>>
  PROVE  LimitInv'
<1>1. ASSUME NEW q \in Attempts, attempt'[q].at # "none" PROVE attempt'[q].bucket \in 1..visitor.made
  BY <1>1 DEF LimitInv, Turns
<1> QED
  BY <1>1 DEF LimitInv, Turns, Touched

LEMMA LimitInitInv == LimitInit => LimitInv
<1> SUFFICES ASSUME LimitInit PROVE LimitInv
  OBVIOUS
<1>1. FullBucket \in BucketRows /\ FullBucket.tokens <= Full
  BY FullType, RateAssumption DEF FullBucket, BucketRows, Full
<1>2. Resolved \in AttemptRows /\ Resolved.at = "none"
  BY RateAssumption DEF Resolved, AttemptRows
<1>3. NoVisitor \in [made : 0..Buckets, kept : BOOLEAN, lastSeen : 0..LastTick] /\ ~ NoVisitor.kept
  BY RateAssumption DEF NoVisitor
<1> QED
  BY <1>1, <1>2, <1>3, RateAssumption DEF LimitInit, LimitInv

LEMMA HandlerFacts ==
  ASSUME LimitInv, NEW a \in Attempts, NEW succeeds \in BOOLEAN, HandlerReturns(a, succeeds)
  PROVE  /\ attempt[a].at = "handling" /\ Turns(a, "none") /\ UNCHANGED <<clock, visitor, made>>
         /\ Touched(attempt[a].bucket) /\ failed' \in Nat
         /\ succeeds => CancelAt(a) /\ failed' = failed
         /\ ~ succeeds => failed' = failed + 1 /\ UNCHANGED <<bucket, lag>>
<1>1. /\ attempt[a].at = "handling" /\ UNCHANGED <<clock, visitor, made>>
      /\ attempt' = [attempt EXCEPT ![a] = Resolved]
      /\ succeeds => CancelAt(a) /\ failed' = failed
      /\ ~ succeeds => failed' = failed + 1 /\ UNCHANGED <<bucket, lag>>
  BY DEF HandlerReturns, RefundsToken
<1>2. failed' \in Nat
  BY <1>1 DEF LimitInv
<1>3. Touched(attempt[a].bucket)
  <2>1. CASE succeeds
    BY <1>1, <2>1, CancelFacts
  <2>2. CASE ~ succeeds
    BY <1>1, <2>2 DEF LimitInv, Touched
  <2> QED
    BY <2>1, <2>2
<1> QED
  BY <1>1, <1>2, <1>3, ResolvedMoves

LEMMA LimitStepInv == LimitInv /\ [LimitNext]_limitVars => LimitInv'
<1> SUFFICES ASSUME LimitInv, [LimitNext]_limitVars PROVE LimitInv'
  OBVIOUS
<1>1. CASE TimePasses
  BY <1>1, RateAssumption DEF TimePasses, LimitInv, BucketRows, AttemptRows
<1>2. CASE Evict
  BY <1>2 DEF Evict, LimitInv, BucketRows, AttemptRows
<1>3. ASSUME NEW a \in Attempts, get(a) PROVE LimitInv'
  <2> DEFINE b == IF visitor.kept THEN visitor.made ELSE visitor.made + 1
             row == [at |-> "timed", bucket |-> b, now |-> clock, timeToAct |-> 0]
  <2>1. /\ visitor' = [made |-> b, kept |-> TRUE, lastSeen |-> clock]
        /\ attempt' = [attempt EXCEPT ![a] = row]
        /\ made' = made + 1 /\ made < MaxAttempts
        /\ visitor.made < Buckets \/ visitor.kept
        /\ UNCHANGED <<clock, bucket, failed, lag>>
    BY <1>3 DEF get
  <2>2. b \in 1..Buckets /\ b >= visitor.made
    BY <2>1, RateAssumption DEF LimitInv
  <2> HIDE DEF b
  <2>3. row \in AttemptRows
    BY <2>2 DEF LimitInv, AttemptRows
  <2>4. attempt' \in [Attempts -> AttemptRows]
    BY <2>1, <2>3 DEF LimitInv
  <2>5. ASSUME NEW q \in Attempts, attempt'[q].at # "none" PROVE attempt'[q].bucket \in 1..b
    BY <2>1, <2>2, <2>5 DEF LimitInv
  <2>6. visitor' \in [made : 0..Buckets, kept : BOOLEAN, lastSeen : 0..LastTick] /\ visitor'.made = b
    BY <2>1, <2>2 DEF LimitInv
  <2>7. made' \in 0..MaxAttempts
    BY <2>1, RateAssumption DEF LimitInv
  <2> QED
    BY <2>1, <2>2, <2>4, <2>5, <2>6, <2>7 DEF LimitInv
<1>4. ASSUME NEW a \in Attempts, ReserveN(a) PROVE LimitInv'
  <2>1. attempt[a].at = "timed" /\ UNCHANGED <<clock, visitor, made, failed>>
    BY <1>4 DEF ReserveN
  <2>2. Touched(attempt[a].bucket) /\ failed' \in Nat
    BY <1>4, <2>1, ReserveFacts DEF LimitInv
  <2> QED
    BY <1>4, <2>1, <2>2, ReserveMoves, AttemptStepInv
<1>5. ASSUME NEW a \in Attempts, Refuse(a) PROVE LimitInv'
  <2>1. /\ attempt[a].at = "refused" /\ UNCHANGED <<clock, visitor, made, failed>>
        /\ CancelAt(a) /\ attempt' = [attempt EXCEPT ![a] = Resolved]
    BY <1>5 DEF Refuse
  <2>2. Touched(attempt[a].bucket) /\ failed' \in Nat
    BY <2>1, CancelFacts DEF LimitInv
  <2> QED
    BY <2>1, <2>2, ResolvedMoves, AttemptStepInv
<1>6. ASSUME NEW a \in Attempts, NEW succeeds \in BOOLEAN, HandlerReturns(a, succeeds)
      PROVE  LimitInv'
  BY <1>6, HandlerFacts, AttemptStepInv
<1>7. CASE UNCHANGED limitVars
  BY <1>7 DEF limitVars, LimitInv, BucketRows, AttemptRows
<1> QED
  BY <1>1, <1>2, <1>3, <1>4, <1>5, <1>6, <1>7 DEF LimitNext

\* The middleware's state is well formed: no bucket holds more than it can, and
\* every time is one the clock has shown.
THEOREM LimitTypeCorrect == LimitSpec => []LimitTypeOK
<1>1. LimitInv => LimitTypeOK
  BY RateAssumption DEF LimitInv, LimitTypeOK, BucketRows, AttemptRows, Full
<1> QED
  BY <1>1, LimitInitInv, LimitStepInv, PTL DEF LimitSpec

\* The attempts on a bucket that are refused and not yet told so.
Refused(rows, b) == {a \in Attempts : rows[a].at = "refused" /\ rows[a].bucket = b}

\* When each bucket made was first and last asked for: a bucket is given up
\* only after it has been idle long enough for the next to be full anyway.
Lives(born, seen) ==
  /\ born \in [1..Buckets -> Nat] /\ seen \in [1..Buckets -> Nat]
  /\ \A b \in 1..visitor.made :
       /\ born[b] <= seen[b] /\ seen[b] <= clock
       /\ b > 1 => born[b] > seen[b - 1] + Full
  /\ visitor.kept => seen[visitor.made] = visitor.lastSeen
  /\ ~ visitor.kept /\ visitor.made > 0 => clock > seen[visitor.made] + Full
  /\ \A a \in Attempts : attempt[a].at # "none" =>
       born[attempt[a].bucket] <= attempt[a].now /\ attempt[a].now <= seen[attempt[a].bucket]

\* What each bucket has spent, net of what lag keeps of it: at most what it held
\* and earned while it was asked for; and with what its refused attempts are
\* still owed and what it is worth, at most what it held.
Spends(net, born, seen) ==
  /\ net \in [1..Buckets -> Int]
  /\ \A b \in 1..Buckets : b > visitor.made => bucket[b] = FullBucket /\ net[b] = 0
  /\ \A b \in 1..visitor.made :
       /\ net[b] <= Full - born[b] + seen[b]
       /\ net[b] + Unit * Cardinality(Refused(attempt, b)) + Worth(bucket[b], born[b]) <= Full - born[b]

\* sum[b] is what the first b buckets have spent.
Adds(net, sum) == sum[0] = 0 /\ \A b \in 1..Buckets : sum[b] = sum[b - 1] + net[b]

Total == Unit * (failed + InFlight) - lag

Books(net, sum, born, seen) ==
  /\ Lives(born, seen) /\ Spends(net, born, seen)
  /\ sum \in [0..Buckets -> Int] /\ Adds(net, sum) /\ sum[Buckets] = Total

BudgetInv == LimitInv /\ \E net, sum, born, seen : Books(net, sum, born, seen)

\* Two finite sets that differ in one element at most.
LEMMA CountDiffers ==
  ASSUME NEW S, NEW T, NEW x, IsFiniteSet(S), IsFiniteSet(T), S \ {x} = T \ {x}
  PROVE  /\ Cardinality(S) \in Nat /\ Cardinality(T) \in Nat
         /\ Cardinality(T) = Cardinality(S) + (IF x \in T THEN 1 ELSE 0) - (IF x \in S THEN 1 ELSE 0)
<1>1. /\ Cardinality(S) \in Nat /\ Cardinality(T) \in Nat /\ Cardinality(S \ {x}) \in Nat
      /\ Cardinality(S \ {x}) = IF x \in S THEN Cardinality(S) - 1 ELSE Cardinality(S)
      /\ Cardinality(T \ {x}) = IF x \in T THEN Cardinality(T) - 1 ELSE Cardinality(T)
  BY FS_CardinalityType, FS_RemoveElement
<1> QED
  BY <1>1

LEMMA MovesCount ==
  ASSUME LimitInv, NEW a \in Attempts, attempt[a].at # "none", NEW to, Turns(a, to)
  PROVE  LET b == attempt[a].bucket
         IN  /\ InFlight \in Nat /\ InFlight' \in Nat
             /\ InFlight' = InFlight + (IF to = "handling" THEN 1 ELSE 0)
                                     - (IF attempt[a].at = "handling" THEN 1 ELSE 0)
             /\ Cardinality(Refused(attempt, b)) \in Nat /\ Cardinality(Refused(attempt', b)) \in Nat
             /\ Cardinality(Refused(attempt', b)) = Cardinality(Refused(attempt, b))
                                     + (IF to = "refused" THEN 1 ELSE 0)
                                     - (IF attempt[a].at = "refused" THEN 1 ELSE 0)
             /\ \A c \in 1..Buckets \ {b} : Refused(attempt', c) = Refused(attempt, c)
<1> DEFINE b == attempt[a].bucket
           Handling == {q \in Attempts : attempt[q].at = "handling"}
           Handling2 == {q \in Attempts : attempt'[q].at = "handling"}
           Owed == {q \in Attempts : attempt[q].at = "refused" /\ attempt[q].bucket = b}
           Owed2 == {q \in Attempts : attempt'[q].at = "refused" /\ attempt'[q].bucket = b}
<1>1. \A q \in Attempts : q # a => attempt'[q] = attempt[q]
  BY DEF Turns
<1>2. attempt'[a].at = to /\ (to # "none" => attempt'[a].bucket = b)
  BY DEF Turns
<1>3. InFlight = Cardinality(Handling) /\ InFlight' = Cardinality(Handling2)
  BY DEF InFlight
<1>4. Refused(attempt, b) = Owed /\ Refused(attempt', b) = Owed2
  BY DEF Refused
<1>5. ASSUME NEW c \in 1..Buckets \ {b} PROVE Refused(attempt', c) = Refused(attempt, c)
  BY <1>1, <1>2 DEF Refused
<1>6. IsFiniteSet(Handling) /\ IsFiniteSet(Handling2) /\ IsFiniteSet(Owed) /\ IsFiniteSet(Owed2)
  BY RateAssumption, FS_Subset
<1>7. Handling \ {a} = Handling2 \ {a} /\ Owed \ {a} = Owed2 \ {a}
  BY <1>1
<1>8. /\ a \in Handling <=> attempt[a].at = "handling"
      /\ a \in Handling2 <=> to = "handling"
      /\ a \in Owed <=> attempt[a].at = "refused"
      /\ a \in Owed2 <=> to = "refused"
  BY <1>2
<1> HIDE DEF b, Handling, Handling2, Owed, Owed2
<1>9. /\ Cardinality(Handling) \in Nat /\ Cardinality(Handling2) \in Nat
      /\ Cardinality(Handling2) = Cardinality(Handling) + (IF a \in Handling2 THEN 1 ELSE 0)
                                                        - (IF a \in Handling THEN 1 ELSE 0)
  BY <1>6, <1>7, CountDiffers
<1>10. /\ Cardinality(Owed) \in Nat /\ Cardinality(Owed2) \in Nat
       /\ Cardinality(Owed2) = Cardinality(Owed) + (IF a \in Owed2 THEN 1 ELSE 0)
                                                 - (IF a \in Owed THEN 1 ELSE 0)
  BY <1>6, <1>7, CountDiffers
<1> QED
  BY <1>3, <1>4, <1>5, <1>8, <1>9, <1>10 DEF b

LEMMA SumsShift ==
  ASSUME NEW net \in [1..Buckets -> Int], NEW sum \in [0..Buckets -> Int], Adds(net, sum),
         NEW b \in 1..Buckets, NEW d \in Int, NEW net2,
         \A c \in 1..Buckets : net2[c] = IF c = b THEN net[c] + d ELSE net[c]
  PROVE  \E sum2 \in [0..Buckets -> Int] : Adds(net2, sum2) /\ sum2[Buckets] = sum[Buckets] + d
<1> DEFINE sum2 == [i \in 0..Buckets |-> IF i < b THEN sum[i] ELSE sum[i] + d]
<1>1. b \in Int /\ b > 0 /\ b <= Buckets /\ Buckets \in Nat
  BY RateAssumption
<1>2. sum2 \in [0..Buckets -> Int] /\ sum2[0] = sum[0] /\ sum2[Buckets] = sum[Buckets] + d
  <2>1. ASSUME NEW i \in 0..Buckets PROVE sum[i] \in Int /\ sum[i] + d \in Int
    OBVIOUS
  <2>2. sum2 \in [0..Buckets -> Int]
    BY <2>1
  <2>3. 0 < b /\ ~ (Buckets < b) /\ 0 \in 0..Buckets /\ Buckets \in 0..Buckets
    BY <1>1
  <2> QED
    BY <2>2, <2>3
<1>3. ASSUME NEW i \in 1..Buckets PROVE sum2[i] = sum2[i - 1] + net2[i]
  <2>1. sum[i] = sum[i - 1] + net[i] /\ i - 1 \in 0..Buckets
    BY <1>1 DEF Adds
  <2>2. sum[i] \in Int /\ sum[i - 1] \in Int /\ net[i] \in Int
    BY <1>1, <2>1
  <2>3. /\ sum2[i] = IF i < b THEN sum[i] ELSE sum[i] + d
        /\ sum2[i - 1] = IF i - 1 < b THEN sum[i - 1] ELSE sum[i - 1] + d
    <3>1. i \in 0..Buckets
      BY <1>1
    <3> QED
      BY <2>1, <3>1
  <2>4. net2[i] = IF i = b THEN net[i] + d ELSE net[i]
    BY <1>1
  <2> HIDE DEF sum2
  <2> QED
    BY <1>1, <2>1, <2>2, <2>3, <2>4
<1> QED
  BY <1>1, <1>2, <1>3 DEF Adds

LEMMA Excess == ASSUME NEW m \in Nat, NEW n \in Nat, m >= n PROVE m - n \in Nat
OBVIOUS

LEMMA Owes ==
  ASSUME NEW n \in Int, NEW d \in Int, NEW x \in Int, NEW y \in Int, NEW x2 \in Int, NEW y2 \in Int,
         NEW m \in Int, n + x + y <= m, d + x2 + y2 <= x + y
  PROVE  n + d + x2 + y2 <= m
OBVIOUS

\* A step of one attempt that changes what its bucket has spent by d.
LEMMA Booked ==
  ASSUME LimitInv, LimitInv', NEW net, NEW sum, NEW born, NEW seen, Books(net, sum, born, seen),
         NEW a \in Attempts, attempt[a].at # "none", NEW to, Turns(a, to),
         NEW b, b = attempt[a].bucket, Touched(b), UNCHANGED <<clock, visitor>>,
         NEW d \in Int, net[b] + d <= Full - born[b] + seen[b],
         d + Unit * Cardinality(Refused(attempt', b)) + Worth(bucket'[b], born[b])
           <= Unit * Cardinality(Refused(attempt, b)) + Worth(bucket[b], born[b]),
         Total' = Total + d
  PROVE  BudgetInv'
<1> DEFINE net2 == [net EXCEPT ![b] = net[b] + d]
<1>1. /\ b \in 1..visitor.made /\ visitor.made \in 0..Buckets /\ b \in 1..Buckets
      /\ visitor.made <= Buckets /\ Buckets \in Nat /\ Buckets >= b
  BY RateAssumption, InFlightHas DEF LimitInv
<1>2. Lives(born, seen)'
  <2>1. Lives(born, seen)
    BY DEF Books
  <2>2. ASSUME NEW q \in Attempts, attempt'[q].at # "none"
        PROVE  /\ attempt[q].at # "none" /\ attempt'[q].bucket = attempt[q].bucket
               /\ attempt'[q].now = attempt[q].now
    BY <2>2 DEF Turns
  <2> QED
    BY <2>1, <2>2 DEF Lives
<1>3. Spends(net2, born, seen)'
  <2>1. /\ net \in [1..Buckets -> Int]
        /\ \A c \in 1..Buckets : c > visitor.made => bucket[c] = FullBucket /\ net[c] = 0
        /\ \A c \in 1..visitor.made :
             /\ net[c] <= Full - born[c] + seen[c]
             /\ net[c] + Unit * Cardinality(Refused(attempt, c)) + Worth(bucket[c], born[c])
                  <= Full - born[c]
    BY DEF Books, Spends
  <2>2. net[b] \in Int /\ net2 \in [1..Buckets -> Int] /\ net2[b] = net[b] + d
    BY <1>1, <2>1
  <2>3. \A c \in 1..Buckets : c # b => net2[c] = net[c] /\ bucket'[c] = bucket[c]
    BY <2>1 DEF Touched
  <2>4. \A c \in 1..Buckets : c # b => Refused(attempt', c) = Refused(attempt, c)
    BY MovesCount
  <2> HIDE DEF net2
  <2>5. ASSUME NEW c \in 1..Buckets, c > visitor.made PROVE bucket'[c] = FullBucket /\ net2[c] = 0
    BY <1>1, <2>1, <2>3, <2>5
  <2>6. ASSUME NEW c \in 1..visitor.made
        PROVE  /\ net2[c] <= Full - born[c] + seen[c]
               /\ net2[c] + Unit * Cardinality(Refused(attempt', c)) + Worth(bucket'[c], born[c])
                    <= Full - born[c]
    <3>1. CASE c # b
      BY <1>1, <2>1, <2>3, <2>4, <3>1
    <3>2. CASE c = b
      <4>1. born[b] \in Nat
        BY <1>1 DEF Books, Lives
      <4>2. Worth(bucket[b], born[b]) \in Int /\ Worth(bucket'[b], born[b]) \in Int
        <5>1. bucket[b] \in BucketRows /\ bucket'[b] \in BucketRows
          BY <1>1 DEF LimitInv, Touched
        <5> QED
          BY <4>1, <5>1, RateAssumption, FullType DEF Worth, Lower, BucketRows
      <4>3. Unit * Cardinality(Refused(attempt, b)) \in Int /\ Unit * Cardinality(Refused(attempt', b)) \in Int
        <5>1. Cardinality(Refused(attempt, b)) \in Int /\ Cardinality(Refused(attempt', b)) \in Int
          BY MovesCount
        <5> QED
          BY <5>1, FullType
      <4>4. /\ net[b] + Unit * Cardinality(Refused(attempt, b)) + Worth(bucket[b], born[b]) <= Full - born[b]
        BY <1>1, <2>1
      <4>5. net2[b] + Unit * Cardinality(Refused(attempt', b)) + Worth(bucket'[b], born[b]) <= Full - born[b]
        <5> DEFINE owed == Unit * Cardinality(Refused(attempt, b))
                   owed2 == Unit * Cardinality(Refused(attempt', b))
                   worth == Worth(bucket[b], born[b])
                   worth2 == Worth(bucket'[b], born[b])
        <5>1. /\ owed \in Int /\ owed2 \in Int /\ worth \in Int /\ worth2 \in Int
              /\ net[b] + owed + worth <= Full - born[b] /\ d + owed2 + worth2 <= owed + worth
          BY <4>2, <4>3, <4>4
        <5> HIDE DEF owed, owed2, worth, worth2
        <5> DEFINE spent == net[b]
                   room == Full - born[b]
        <5>2. spent \in Int /\ room \in Int /\ spent + owed + worth <= room
          BY SMTT(30), <2>2, <4>1, <5>1, FullType
        <5> HIDE DEF spent, room
        <5>3. spent + d + owed2 + worth2 <= room
          BY <5>1, <5>2, Owes
        <5> QED
          BY <2>2, <5>3 DEF owed, owed2, worth, worth2, spent, room
      <4>6. net2[b] <= Full - born[b] + seen[b]
        BY <2>2
      <4> QED
        BY <3>2, <4>5, <4>6
    <3> QED
      BY <3>1, <3>2
  <2> QED
    BY <1>1, <2>2, <2>5, <2>6 DEF Spends
<1>4. PICK sum2 \in [0..Buckets -> Int] : Adds(net2, sum2) /\ sum2[Buckets] = sum[Buckets] + d
  <2>1. net \in [1..Buckets -> Int] /\ sum \in [0..Buckets -> Int] /\ Adds(net, sum)
    BY DEF Books, Spends
  <2>2. \A c \in 1..Buckets : net2[c] = IF c = b THEN net[c] + d ELSE net[c]
    BY <2>1
  <2> HIDE DEF net2
  <2> QED
    BY ZenonT(40), <1>1, <2>1, <2>2, SumsShift
<1>5. sum2[Buckets] = Total'
  BY <1>4 DEF Books
<1> HIDE DEF net2
<1>6. Books(net2, sum2, born, seen)'
  BY <1>2, <1>3, <1>4, <1>5 DEF Books, Adds
<1> QED
  BY <1>6 DEF BudgetInv

\* An attempt that finds the client's bucket.
LEMMA FoundBooked ==
  ASSUME LimitInv, LimitInv', NEW net, NEW sum, NEW born, NEW seen, Books(net, sum, born, seen),
         NEW a \in Attempts, get(a), visitor.kept
  PROVE  BudgetInv'
<1>1. PICK b \in 1..Buckets, now \in Nat : b = visitor.made /\ now = clock
  BY RateAssumption DEF LimitInv
<1> DEFINE seen2 == [seen EXCEPT ![b] = now]
<1>2. /\ visitor' = [made |-> b, kept |-> TRUE, lastSeen |-> now]
      /\ attempt[a].at = "none"
      /\ attempt' = [attempt EXCEPT ![a] = [at |-> "timed", bucket |-> b, now |-> now, timeToAct |-> 0]]
      /\ UNCHANGED <<clock, bucket, failed, lag>>
  BY <1>1 DEF get
<1>3. Lives(born, seen) /\ Spends(net, born, seen)
  BY DEF Books
<1>4. seen[b] <= now /\ seen2 \in [1..Buckets -> Nat] /\ born \in [1..Buckets -> Nat] /\ seen[b] \in Nat
  BY <1>1, <1>3 DEF Lives
<1>5. \A c \in 1..Buckets : seen2[c] = IF c = b THEN now ELSE seen[c]
  BY <1>3 DEF Lives
<1> HIDE DEF seen2
<1>6. /\ attempt'[a].at = "timed" /\ attempt'[a].bucket = b /\ attempt'[a].now = now
      /\ \A q \in Attempts \ {a} : attempt'[q] = attempt[q]
  BY <1>2 DEF LimitInv
<1>7. Lives(born, seen2)'
  <2>1. ASSUME NEW c \in 1..b
        PROVE  /\ born[c] <= seen2[c] /\ seen2[c] <= now
               /\ c > 1 => born[c] > seen2[c - 1] + Full
    <3>1. /\ born[c] <= seen[c] /\ seen[c] <= now
          /\ c > 1 => born[c] > seen[c - 1] + Full
      BY <1>1, <1>3 DEF Lives
    <3>2. c \in 1..Buckets /\ c - 1 # b /\ (c > 1 => c - 1 \in 1..Buckets)
      BY <1>1, RateAssumption
    <3>3. born[c] \in Nat /\ seen[c] \in Nat
      BY <1>3, <3>2 DEF Lives
    <3> QED
      BY <1>1, <1>4, <1>5, <3>1, <3>2, <3>3
  <2>2. ASSUME NEW q \in Attempts, attempt'[q].at # "none"
        PROVE  born[attempt'[q].bucket] <= attempt'[q].now /\ attempt'[q].now <= seen2[attempt'[q].bucket]
    <3>1. CASE q = a
      <4>1. born[b] <= seen[b] /\ born[b] \in Nat
        BY <1>1, <1>3 DEF Lives
      <4> QED
        BY <1>1, <1>4, <1>5, <1>6, <3>1, <4>1
    <3>2. CASE q # a
      <4>1. /\ attempt'[q] = attempt[q] /\ attempt[q].bucket \in 1..Buckets /\ attempt[q].now \in Nat
        BY <1>6, <2>2, <3>2, InFlightHas
      <4>2. born[attempt[q].bucket] <= attempt[q].now /\ attempt[q].now <= seen[attempt[q].bucket]
        BY <1>3, <2>2, <4>1 DEF Lives
      <4>3. PICK c \in 1..Buckets, n \in Nat :
              /\ attempt'[q].bucket = c /\ attempt'[q].now = n
              /\ born[c] <= n /\ n <= seen[c] /\ seen[c] \in Nat
        BY <1>3, <4>1, <4>2 DEF Lives
      <4>4. n <= seen2[c]
        <5>1. c = b => n <= now
          BY <1>1, <1>4, <4>3
        <5> QED
          BY <1>5, <4>3, <5>1
      <4> QED
        BY <4>3, <4>4
    <3> QED
      BY <3>1, <3>2
  <2> QED
    BY <1>1, <1>2, <1>4, <1>5, <2>1, <2>2 DEF Lives
<1>8. \A c \in 1..Buckets : Refused(attempt', c) = Refused(attempt, c)
  BY <1>2, <1>6 DEF Refused
<1>9. Spends(net, born, seen2)'
  <2>1. ASSUME NEW c \in 1..b PROVE net[c] <= Full - born[c] + seen2[c]
    <3>1. net[c] <= Full - born[c] + seen[c]
      BY <1>1, <1>3 DEF Spends
    <3>2. c \in 1..Buckets
      BY <1>1, RateAssumption
    <3>3. net[c] \in Int /\ born[c] \in Nat /\ seen[c] \in Nat
      BY <1>3, <3>2 DEF Spends, Lives
    <3>4. seen2[c] \in Nat /\ seen2[c] >= seen[c]
      BY <1>1, <1>4, <1>5, <3>2, <3>3
    <3> QED
      BY <3>1, <3>3, <3>4, FullType
  <2>2. \A c \in 1..b : c \in 1..Buckets /\ bucket'[c] = bucket[c]
    BY <1>1, <1>2, RateAssumption
  <2>3. ASSUME NEW c \in 1..b
        PROVE  net[c] + Unit * Cardinality(Refused(attempt', c)) + Worth(bucket'[c], born[c])
                 <= Full - born[c]
    <3>1. net[c] + Unit * Cardinality(Refused(attempt, c)) + Worth(bucket[c], born[c])
            <= Full - born[c]
      BY <1>1, <1>3 DEF Spends
    <3> QED
      BY <1>8, <2>2, <3>1
  <2>4. \A c \in 1..Buckets : c > b => bucket'[c] = FullBucket /\ net[c] = 0
    BY <1>1, <1>2, <1>3 DEF Spends
  <2>5. visitor'.made = b /\ net \in [1..Buckets -> Int]
    BY <1>2, <1>3 DEF Spends
  <2> QED
    BY <2>1, <2>3, <2>4, <2>5 DEF Spends
<1>10. InFlight' = InFlight
  <2>1. {q \in Attempts : attempt'[q].at = "handling"} = {q \in Attempts : attempt[q].at = "handling"}
    BY <1>2, <1>6
  <2> QED
    BY <2>1 DEF InFlight
<1>11. Books(net, sum, born, seen2)'
  BY <1>2, <1>7, <1>9, <1>10 DEF Books, Total, Adds
<1> QED
  BY <1>11 DEF BudgetInv

\* An attempt for which a bucket is made: it is full, and owes nothing.
LEMMA MadeBooked ==
  ASSUME LimitInv, NEW net, NEW sum, NEW born, NEW seen, Books(net, sum, born, seen),
         LimitInv', NEW a \in Attempts, get(a), ~ visitor.kept
  PROVE  BudgetInv'
<1>1. PICK b \in 1..Buckets, now \in Nat : b = visitor.made + 1 /\ now = clock
  <2>1. visitor.made + 1 \in 1..Buckets /\ clock \in Nat
    BY RateAssumption DEF LimitInv, get
  <2> QED
    BY <2>1
<1> DEFINE seen2 == [seen EXCEPT ![b] = now]
           born2 == [born EXCEPT ![b] = now]
<1>2. /\ visitor' = [made |-> b, kept |-> TRUE, lastSeen |-> now]
      /\ attempt[a].at = "none"
      /\ attempt' = [attempt EXCEPT ![a] = [at |-> "timed", bucket |-> b, now |-> now, timeToAct |-> 0]]
      /\ UNCHANGED <<clock, bucket, failed, lag>>
  BY <1>1 DEF get
<1>3. Lives(born, seen) /\ Spends(net, born, seen)
  BY DEF Books
<1>4. seen2 \in [1..Buckets -> Nat] /\ born2 \in [1..Buckets -> Nat]
  BY <1>1, <1>3 DEF Lives
<1>5. \A c \in 1..Buckets : /\ seen2[c] = IF c = b THEN now ELSE seen[c]
                            /\ born2[c] = IF c = b THEN now ELSE born[c]
  BY <1>3 DEF Lives
<1> HIDE DEF seen2, born2
<1>6. /\ attempt'[a].at = "timed" /\ attempt'[a].bucket = b /\ attempt'[a].now = now
      /\ \A q \in Attempts \ {a} : attempt'[q] = attempt[q]
  BY <1>2 DEF LimitInv
<1>7. visitor.made = b - 1 /\ b \in Nat /\ b > 0
  BY SMTT(30), <1>1, RateAssumption DEF LimitInv
<1>8. \A c \in 1..b : c \in 1..Buckets /\ (c # b => c \in 1..(b - 1))
  BY <1>7, RateAssumption
<1>9. \A q \in Attempts : attempt[q].at # "none" =>
        attempt[q].bucket \in 1..Buckets /\ attempt[q].bucket # b /\ attempt[q].now \in Nat
  <2>1. \A q \in Attempts : attempt[q].at # "none" => attempt[q].bucket \in 1..(b - 1)
    BY <1>7 DEF LimitInv
  <2> QED
    BY <1>7, <2>1, InFlightHas
<1>10. Lives(born2, seen2)'
  <2>1. ASSUME NEW c \in 1..b
        PROVE  /\ born2[c] <= seen2[c] /\ seen2[c] <= now
               /\ c > 1 => born2[c] > seen2[c - 1] + Full
    <3>1. CASE c = b
      <4>1. c \in 1..Buckets /\ born2[c] = now /\ seen2[c] = now
        BY <1>1, <1>5, <3>1
      <4>2. ASSUME c > 1 PROVE born2[c] > seen2[c - 1] + Full
        <5>1. visitor.made > 0 /\ c - 1 = visitor.made /\ c - 1 \in 1..Buckets /\ c - 1 # b
          BY <1>7, <1>8, <3>1, <4>2, RateAssumption
        <5>2. now > seen[c - 1] + Full
          BY <1>1, <1>3, <5>1 DEF Lives
        <5> QED
          BY <1>5, <4>1, <5>1, <5>2
      <4> QED
        BY <1>1, <4>1, <4>2
    <3>2. CASE c # b
      <4>1. c \in 1..visitor.made /\ c \in 1..Buckets
        BY <1>7, <1>8, <3>2
      <4>2. /\ born[c] <= seen[c] /\ seen[c] <= now
            /\ c > 1 => born[c] > seen[c - 1] + Full
        BY <1>1, <1>3, <4>1 DEF Lives
      <4>3. c > 1 => c - 1 \in 1..Buckets /\ c - 1 # b
        BY <1>7, <1>8, <4>1, RateAssumption
      <4> QED
        BY <1>5, <3>2, <4>1, <4>2, <4>3
    <3> QED
      BY <3>1, <3>2
  <2>2. ASSUME NEW q \in Attempts, attempt'[q].at # "none"
        PROVE  born2[attempt'[q].bucket] <= attempt'[q].now /\ attempt'[q].now <= seen2[attempt'[q].bucket]
    <3>1. CASE q = a
      BY <1>1, <1>5, <1>6, <3>1
    <3>2. CASE q # a
      <4>1. /\ attempt'[q] = attempt[q]
            /\ attempt[q].bucket \in 1..Buckets /\ attempt[q].bucket # b
        BY <1>6, <1>9, <2>2, <3>2
      <4>2. born[attempt[q].bucket] <= attempt[q].now /\ attempt[q].now <= seen[attempt[q].bucket]
        BY <1>3, <2>2, <4>1 DEF Lives
      <4> QED
        BY <1>5, <4>1, <4>2
    <3> QED
      BY <3>1, <3>2
  <2>3. visitor'.made = b /\ visitor'.kept /\ visitor'.lastSeen = now /\ seen2[b] = now /\ clock' = now
    BY <1>1, <1>2, <1>5
  <2> QED
    BY <1>4, <2>1, <2>2, <2>3 DEF Lives
<1>11. \A c \in 1..Buckets : Refused(attempt', c) = Refused(attempt, c)
  BY <1>2, <1>6 DEF Refused
<1>12. Refused(attempt, b) = {}
  BY <1>9 DEF Refused
<1>13. Spends(net, born2, seen2)'
  <2>1. \A c \in 1..Buckets : bucket'[c] = bucket[c]
    BY <1>2
  <2>2. ASSUME NEW c \in 1..b
        PROVE  /\ net[c] <= Full - born2[c] + seen2[c]
               /\ net[c] + Unit * Cardinality(Refused(attempt', c)) + Worth(bucket'[c], born2[c])
                    <= Full - born2[c]
    <3>1. CASE c = b
      <4>1. bucket[b] = FullBucket /\ net[b] = 0
        BY <1>3, <1>7 DEF Spends
      <4>2. Cardinality(Refused(attempt', c)) = 0
        BY <1>1, <1>11, <1>12, <3>1, FS_EmptySet
      <4>3. born2[c] = now /\ seen2[c] = now /\ bucket'[c] = FullBucket
        BY <1>1, <1>5, <2>1, <3>1, <4>1
      <4>4. Worth(FullBucket, now) = Full - now
        <5>1. FullBucket.tokens = Full /\ FullBucket.last = 0
          BY DEF FullBucket, Full
        <5> QED
          BY <1>1, <5>1, FullType DEF Worth, Lower
      <4>5. Unit * 0 = 0
        BY FullType
      <4> QED
        BY <1>1, <3>1, <4>1, <4>2, <4>3, <4>4, <4>5, FullType
    <3>2. CASE c # b
      <4>1. c \in 1..visitor.made /\ c \in 1..Buckets
        BY <1>7, <1>8, <3>2
      <4>2. /\ net[c] <= Full - born[c] + seen[c]
            /\ net[c] + Unit * Cardinality(Refused(attempt, c)) + Worth(bucket[c], born[c])
                 <= Full - born[c]
        BY <1>3, <4>1 DEF Spends
      <4> QED
        BY <1>5, <1>11, <2>1, <3>2, <4>1, <4>2
    <3> QED
      BY <3>1, <3>2
  <2>3. \A c \in 1..Buckets : c > b => bucket'[c] = FullBucket /\ net[c] = 0
    BY <1>1, <1>7, <2>1, <1>3 DEF Spends
  <2>4. visitor'.made = b /\ net \in [1..Buckets -> Int]
    BY <1>2, <1>3 DEF Spends
  <2> QED
    BY <2>2, <2>3, <2>4 DEF Spends
<1>14. InFlight' = InFlight
  <2>1. {q \in Attempts : attempt'[q].at = "handling"} = {q \in Attempts : attempt[q].at = "handling"}
    BY <1>2, <1>6
  <2> QED
    BY <2>1 DEF InFlight
<1>15. Books(net, sum, born2, seen2)'
  BY <1>2, <1>10, <1>13, <1>14 DEF Books, Total, Adds
<1> QED
  BY <1>15 DEF BudgetInv

LEMMA BudgetInitInv == LimitInit => BudgetInv
<1> SUFFICES ASSUME LimitInit PROVE BudgetInv
  OBVIOUS
<1> DEFINE none == [b \in 1..Buckets |-> 0]
           sum == [b \in 0..Buckets |-> 0]
<1>1. LimitInv
  BY LimitInitInv
<1>2. visitor.made = 0 /\ ~ visitor.kept /\ \A a \in Attempts : attempt[a].at = "none"
  BY DEF LimitInit, NoVisitor, Resolved
<1>3. none \in [1..Buckets -> Nat] /\ \A b \in 1..Buckets : none[b] = 0
  OBVIOUS
<1>4. sum \in [0..Buckets -> Int] /\ Adds(none, sum) /\ sum[Buckets] = 0
  <2>1. \A b \in 1..Buckets : b \in 0..Buckets /\ b - 1 \in 0..Buckets
    BY RateAssumption
  <2>2. 0 \in 0..Buckets /\ Buckets \in 0..Buckets
    BY RateAssumption
  <2> QED
    BY <2>1, <2>2 DEF Adds
<1> HIDE DEF none, sum
<1>5. Lives(none, none)
  BY <1>2, <1>3 DEF Lives
<1>6. Spends(none, none, none)
  BY <1>2, <1>3 DEF Spends, LimitInit
<1>7. Total = 0
  <2>1. {a \in Attempts : attempt[a].at = "handling"} = {}
    BY <1>2
  <2>2. InFlight = 0
    BY <2>1, FS_EmptySet DEF InFlight
  <2> QED
    BY <2>2, FullType DEF Total, LimitInit
<1> QED
  BY <1>1, <1>4, <1>5, <1>6, <1>7 DEF BudgetInv, Books

\* What the books say of the bucket of an attempt in flight.
LEMMA BookedBucket ==
  ASSUME LimitInv, NEW net, NEW sum, NEW born, NEW seen, Books(net, sum, born, seen),
         NEW a \in Attempts, attempt[a].at # "none"
  PROVE  LET b == attempt[a].bucket
         IN  /\ net[b] \in Int /\ born[b] \in Nat /\ seen[b] \in Nat /\ attempt[a].now \in Nat
             /\ born[b] <= attempt[a].now /\ attempt[a].now <= seen[b]
             /\ net[b] <= Full - born[b] + seen[b]
             /\ net[b] + Unit * Cardinality(Refused(attempt, b)) + Worth(bucket[b], born[b])
                  <= Full - born[b]
             /\ Worth(bucket[b], born[b]) \in Int
             /\ \A row \in BucketRows : Worth(row, born[b]) \in Int
             /\ \A n \in Nat : Unit * n \in Nat /\ Unit * (n + 1) = Unit * n + Unit
<1> DEFINE b == attempt[a].bucket
<1>1. b \in 1..visitor.made /\ b \in 1..Buckets /\ attempt[a].now \in Nat /\ bucket[b] \in BucketRows
  BY InFlightHas DEF LimitInv
<1>2. Lives(born, seen) /\ Spends(net, born, seen)
  BY DEF Books
<1>3. /\ net[b] \in Int /\ born[b] \in Nat /\ seen[b] \in Nat
      /\ born[b] <= attempt[a].now /\ attempt[a].now <= seen[b]
  BY <1>1, <1>2 DEF Lives, Spends
<1>4. /\ net[b] <= Full - born[b] + seen[b]
      /\ net[b] + Unit * Cardinality(Refused(attempt, b)) + Worth(bucket[b], born[b]) <= Full - born[b]
  BY <1>1, <1>2 DEF Spends
<1>5. ASSUME NEW row \in BucketRows PROVE Worth(row, born[b]) \in Int
  BY <1>3, FullType, RateAssumption DEF Worth, Lower, BucketRows
<1>6. ASSUME NEW n \in Nat PROVE Unit * n \in Nat /\ Unit * (n + 1) = Unit * n + Unit
  <2>1. Unit \in Nat
    BY FullType
  <2> QED
    BY <2>1
<1> QED
  BY <1>1, <1>3, <1>4, <1>5, <1>6

\* A reservation spends a token, or leaves one owed to the attempt it refuses.
LEMMA ReserveBooked ==
  ASSUME LimitInv, LimitInv', NEW net, NEW sum, NEW born, NEW seen, Books(net, sum, born, seen),
         NEW a \in Attempts, ReserveN(a)
  PROVE  BudgetInv'
<1>1. attempt[a].at = "timed" /\ UNCHANGED <<clock, visitor, made, failed>>
  BY DEF ReserveN
<1>2. PICK b \in 1..Buckets : b = attempt[a].bucket
  BY <1>1, InFlightHas
<1>3. PICK now \in Nat : now = attempt[a].now
  BY <1>1, InFlightHas
<1>4. /\ Touched(b) /\ TimeToAct(b, now) \in Nat
      /\ \A o \in Int : o <= now => Worth(bucket'[b], o) <= Worth(bucket[b], o) + (lag' - lag) - Unit
      /\ TimeToAct(b, now) <= now => \A o \in Int : Worth(bucket'[b], o) >= Lower(0 - now, Full - o)
  BY <1>1, <1>2, <1>3, ReserveFacts
<1> DEFINE granted == ~ (TimeToAct(b, now) > now)
           to == IF granted THEN "handling" ELSE "refused"
<1>5. Turns(a, to)
  BY <1>2, <1>3, ReserveMoves
<1>6. /\ InFlight \in Nat /\ InFlight' = InFlight + (IF granted THEN 1 ELSE 0)
      /\ Cardinality(Refused(attempt, b)) \in Nat
      /\ Cardinality(Refused(attempt', b)) = Cardinality(Refused(attempt, b)) + (IF granted THEN 0 ELSE 1)
  BY <1>1, <1>2, <1>5, MovesCount
<1>7. lag \in Nat /\ lag' \in Nat /\ lag' >= lag /\ failed \in Nat /\ Full \in Nat /\ Unit \in Nat
  BY <1>4, FullType DEF LimitInv, Touched
<1> DEFINE twice == lag' - lag
           worth == Worth(bucket[b], born[b])
           worth2 == Worth(bucket'[b], born[b])
           owed == Unit * Cardinality(Refused(attempt, b))
           owed2 == Unit * Cardinality(Refused(attempt', b))
           spent == Unit * (failed + InFlight)
           spent2 == Unit * (failed' + InFlight')
           d == IF granted THEN Unit - twice ELSE 0 - twice
<1>8. /\ net[b] \in Int /\ born[b] \in Nat /\ seen[b] \in Nat
      /\ born[b] <= now /\ now <= seen[b]
      /\ net[b] <= Full - born[b] + seen[b]
      /\ net[b] + owed + worth <= Full - born[b]
      /\ worth \in Int /\ worth2 \in Int
  <2>1. bucket'[b] \in BucketRows
    BY <1>4 DEF Touched
  <2> QED
    BY <1>1, <1>2, <1>3, <2>1, BookedBucket
<1>9. owed \in Nat /\ owed2 = IF granted THEN owed ELSE owed + Unit
  BY <1>1, <1>6, BookedBucket
<1>10. spent \in Nat /\ spent2 = IF granted THEN spent + Unit ELSE spent
  <2>1. failed + InFlight \in Nat /\ failed' + InFlight' = failed + InFlight + (IF granted THEN 1 ELSE 0)
    BY <1>1, <1>6, <1>7
  <2> QED
    BY <1>1, <2>1, BookedBucket
<1>11. Total = spent - lag /\ Total' = spent2 - lag'
  BY DEF Total
<1>12. /\ worth2 <= worth + twice - Unit
       /\ granted => worth2 >= Lower(0 - now, Full - born[b])
       /\ twice \in Nat
  <2>1. born[b] \in Int /\ born[b] <= now
    BY <1>8
  <2>2. worth2 <= worth + twice - Unit
    BY <1>4, <2>1
  <2>3. granted => worth2 >= Lower(0 - now, Full - born[b])
    <3>1. granted => TimeToAct(b, now) <= now
      BY <1>3, <1>4
    <3> QED
      BY <1>4, <2>1, <3>1
  <2>4. twice \in Nat
    BY <1>7, Excess
  <2> QED
    BY <2>2, <2>3, <2>4
<1> HIDE DEF granted, worth, worth2, owed, owed2, spent, spent2
<1>13. Total' = Total + d /\ d \in Int
  BY <1>7, <1>10, <1>11
<1> HIDE DEF twice
<1>14. net[b] + d <= Full - born[b] + seen[b] /\ d + owed2 + worth2 <= owed + worth
  <2>1. CASE granted
    <3>1. d = Unit - twice /\ owed2 = owed
      BY <1>9, <2>1
    <3>2. worth2 >= 0 - now
      BY <1>3, <1>7, <1>8, <1>12, <2>1 DEF Lower
    <3> HIDE DEF d
    <3> QED
      BY <1>3, <1>7, <1>8, <1>9, <1>12, <2>1, <3>1, <3>2
  <2>2. CASE ~ granted
    BY <1>7, <1>8, <1>9, <1>12, <2>2
  <2> QED
    BY <2>1, <2>2
<1> HIDE DEF d, to
<1>15. attempt[a].at # "none" /\ UNCHANGED <<clock, visitor>>
  BY <1>1
<1>16. d + Unit * Cardinality(Refused(attempt', b)) + Worth(bucket'[b], born[b])
         <= Unit * Cardinality(Refused(attempt, b)) + Worth(bucket[b], born[b])
  BY <1>14 DEF owed, owed2, worth, worth2
<1> QED
  BY <1>2, <1>4, <1>5, <1>13, <1>14, <1>15, <1>16, Booked

LEMMA Returns ==
  ASSUME NEW net \in Int, NEW unit \in Nat, NEW owed \in Nat, NEW owed2 \in Nat, NEW worth \in Int,
         NEW worth2 \in Int, NEW twice \in Nat, NEW room \in Int,
         net <= room, worth2 <= worth + twice + unit, NEW d \in Int,
         \/ owed2 = owed /\ d = 0 - (unit + twice)
         \/ owed = owed2 + unit /\ d = 0 - twice
  PROVE  net + d <= room /\ d + owed2 + worth2 <= owed + worth
OBVIOUS

\* A refund pays a refused attempt what it is owed, or gives back the token of
\* one that succeeded.
LEMMA CancelBooked ==
  ASSUME LimitInv, LimitInv', NEW net, NEW sum, NEW born, NEW seen, Books(net, sum, born, seen),
         NEW a \in Attempts, attempt[a].at \in {"refused", "handling"}, CancelAt(a), Turns(a, "none"),
         UNCHANGED <<clock, visitor, failed>>
  PROVE  BudgetInv'
<1>1. attempt[a].at # "none" /\ UNCHANGED <<clock, visitor, failed>>
  OBVIOUS
<1>2. PICK b \in 1..Buckets : b = attempt[a].bucket
  BY <1>1, InFlightHas
<1>3. PICK now \in Nat : now = attempt[a].now
  BY <1>1, InFlightHas
<1>4. /\ Touched(b)
      /\ \A o \in Int : o <= now => Worth(bucket'[b], o) <= Worth(bucket[b], o) + (lag' - lag) + Unit
  BY <1>1, <1>2, <1>3, CancelFacts
<1> DEFINE handled == attempt[a].at = "handling"
<1>5. /\ InFlight' \in Nat /\ InFlight = InFlight' + (IF handled THEN 1 ELSE 0)
      /\ Cardinality(Refused(attempt', b)) \in Nat
      /\ Cardinality(Refused(attempt, b)) = Cardinality(Refused(attempt', b)) + (IF handled THEN 0 ELSE 1)
  <2>1. /\ InFlight \in Nat /\ InFlight' \in Nat
        /\ InFlight' = InFlight + 0 - (IF handled THEN 1 ELSE 0)
        /\ Cardinality(Refused(attempt, b)) \in Nat /\ Cardinality(Refused(attempt', b)) \in Nat
        /\ Cardinality(Refused(attempt', b))
             = Cardinality(Refused(attempt, b)) + 0 - (IF handled THEN 0 ELSE 1)
    BY <1>1, <1>2, MovesCount
  <2> QED
    BY <2>1
<1>6. lag \in Nat /\ lag' \in Nat /\ lag' >= lag /\ failed \in Nat /\ Full \in Nat /\ Unit \in Nat
  BY <1>4, FullType DEF LimitInv, Touched
<1> DEFINE twice == lag' - lag
           worth == Worth(bucket[b], born[b])
           worth2 == Worth(bucket'[b], born[b])
           owed == Unit * Cardinality(Refused(attempt, b))
           owed2 == Unit * Cardinality(Refused(attempt', b))
           spent == Unit * (failed + InFlight)
           spent2 == Unit * (failed' + InFlight')
           room == Full - born[b] + seen[b]
           d == IF handled THEN 0 - (Unit + twice) ELSE 0 - twice
<1>7. /\ net[b] \in Int /\ born[b] \in Nat /\ seen[b] \in Nat /\ born[b] <= now
      /\ net[b] <= room /\ room \in Int
      /\ worth \in Int /\ worth2 \in Int
  <2>1. bucket'[b] \in BucketRows
    BY <1>4 DEF Touched
  <2>2. /\ net[b] \in Int /\ born[b] \in Nat /\ seen[b] \in Nat /\ born[b] <= now
        /\ net[b] <= room
        /\ worth \in Int /\ worth2 \in Int
    BY <1>1, <1>2, <1>3, <2>1, BookedBucket
  <2> QED
    BY <2>2, <1>6
<1>8. owed2 \in Nat /\ owed = (IF handled THEN owed2 ELSE owed2 + Unit)
  BY <1>1, <1>5, BookedBucket
<1>9. spent2 \in Nat /\ spent = (IF handled THEN spent2 + Unit ELSE spent2)
  <2>1. failed' + InFlight' \in Nat /\ failed + InFlight = failed' + InFlight' + (IF handled THEN 1 ELSE 0)
    <3>1. failed' = failed
      BY <1>1
    <3> DEFINE inFlight == InFlight'
    <3>2. inFlight \in Nat /\ InFlight = inFlight + (IF handled THEN 1 ELSE 0)
      BY <1>5
    <3> HIDE DEF handled, inFlight
    <3>3. failed \in Nat
      BY <1>6
    <3>4. failed + inFlight \in Nat /\ failed + InFlight = failed + inFlight + (IF handled THEN 1 ELSE 0)
      <4>1. CASE handled
        BY <3>2, <3>3, <4>1
      <4>2. CASE ~ handled
        BY <3>2, <3>3, <4>2
      <4> QED
        BY <4>1, <4>2
    <3> QED
      BY <3>1, <3>4 DEF inFlight
  <2> QED
    BY <1>1, <2>1, BookedBucket
<1>10. Total = spent - lag /\ Total' = spent2 - lag'
  BY DEF Total
<1>11. worth2 <= worth + twice + Unit /\ twice \in Nat
  <2>1. born[b] \in Int /\ born[b] <= now
    BY <1>7
  <2>2. worth2 <= worth + twice + Unit
    BY <1>4, <2>1
  <2>3. twice \in Nat
    BY <1>6, Excess
  <2> QED
    BY <2>2, <2>3
<1> HIDE DEF handled, worth, worth2, owed, owed2, spent, spent2, room
<1>12. Total' = Total + d /\ d \in Int
  BY <1>6, <1>9, <1>10
<1> HIDE DEF twice
<1>13. net[b] + d <= room /\ d + owed2 + worth2 <= owed + worth
  <2>1. CASE handled
    <3>1. d = 0 - (Unit + twice) /\ owed2 = owed /\ owed \in Nat
      BY <1>8, <2>1
    <3> HIDE DEF d
    <3> QED
      BY <1>6, <1>7, <1>8, <1>11, <1>12, <3>1, Returns
  <2>2. CASE ~ handled
    <3>1. d = 0 - twice /\ owed = owed2 + Unit /\ owed \in Nat
      BY <1>6, <1>8, <2>2
    <3> HIDE DEF d
    <3> QED
      BY <1>6, <1>7, <1>8, <1>11, <1>12, <3>1, Returns
  <2> QED
    BY <2>1, <2>2
<1> HIDE DEF d
<1>14. d + Unit * Cardinality(Refused(attempt', b)) + Worth(bucket'[b], born[b])
         <= Unit * Cardinality(Refused(attempt, b)) + Worth(bucket[b], born[b])
  BY <1>13 DEF owed, owed2, worth, worth2
<1>15. net[b] + d <= Full - born[b] + seen[b] /\ UNCHANGED <<clock, visitor>>
  BY <1>1, <1>13 DEF room
<1> QED
  BY <1>1, <1>2, <1>4, <1>12, <1>14, <1>15, Booked

\* A handler that fails turns its token from one in flight to one that failed.
LEMMA FailBooked ==
  ASSUME LimitInv, LimitInv', NEW net, NEW sum, NEW born, NEW seen, Books(net, sum, born, seen),
         NEW a \in Attempts, attempt[a].at = "handling", Turns(a, "none"),
         UNCHANGED <<clock, visitor, bucket, lag>>, failed' = failed + 1
  PROVE  BudgetInv'
<1>1. Lives(born, seen)'
  <2>1. ASSUME NEW q \in Attempts, attempt'[q].at # "none"
        PROVE  attempt'[q] = attempt[q]
    BY <2>1 DEF Turns
  <2> QED
    BY <2>1 DEF Books, Lives
<1>2. Spends(net, born, seen)'
  <2>1. \A c \in 1..Buckets : Refused(attempt', c) = Refused(attempt, c)
    BY DEF Turns, Refused
  <2>2. \A c \in 1..visitor.made : c \in 1..Buckets
    BY RateAssumption DEF LimitInv
  <2> QED
    BY <2>1, <2>2 DEF Books, Spends
<1>3. Total' = Total
  <2>1. InFlight \in Nat /\ InFlight' \in Nat /\ InFlight' = InFlight + 0 - 1
    BY MovesCount
  <2>2. failed' + InFlight' = failed + InFlight
    BY <2>1 DEF LimitInv
  <2> QED
    BY <2>2 DEF Total
<1>4. Books(net, sum, born, seen)'
  BY <1>1, <1>2, <1>3 DEF Books, Adds
<1> QED
  BY <1>4 DEF BudgetInv

LEMMA BudgetStepInv == BudgetInv /\ [LimitNext]_limitVars => BudgetInv'
<1> SUFFICES ASSUME BudgetInv, [LimitNext]_limitVars PROVE BudgetInv'
  OBVIOUS
<1>1. LimitInv /\ LimitInv'
  BY LimitStepInv DEF BudgetInv
<1>2. PICK net, sum, born, seen : Books(net, sum, born, seen)
  BY DEF BudgetInv
<1>3. Lives(born, seen) /\ Spends(net, born, seen)
  BY <1>2 DEF Books
<1>4. ASSUME UNCHANGED <<bucket, attempt, failed, lag>>, visitor'.made = visitor.made,
             Lives(born, seen)'
      PROVE  BudgetInv'
  <2>1. Spends(net, born, seen)'
    BY <1>3, <1>4 DEF Spends
  <2>2. InFlight' = InFlight
    BY <1>4 DEF InFlight
  <2>3. Total' = Total
    BY <1>4, <2>2 DEF Total
  <2>4. Books(net, sum, born, seen)'
    BY <1>2, <1>4, <2>1, <2>3 DEF Books, Adds
  <2> QED
    BY <1>1, <2>4 DEF BudgetInv
<1>5. CASE TimePasses
  <2>1. clock' = clock + 1 /\ clock \in Nat /\ UNCHANGED <<visitor, bucket, attempt, failed, lag>>
    BY <1>1, <1>5, RateAssumption DEF TimePasses, LimitInv
  <2>2. \A b \in 1..visitor.made : b \in 1..Buckets
    BY <1>1, RateAssumption DEF LimitInv
  <2>3. ASSUME NEW b \in 1..visitor.made PROVE seen[b] <= clock'
    BY <1>3, <2>1, <2>2 DEF Lives
  <2>4. ASSUME ~ visitor.kept, visitor.made > 0 PROVE clock' > seen[visitor.made] + Full
    <3>1. visitor.made \in 1..Buckets
      BY <1>1, <2>4, RateAssumption DEF LimitInv
    <3>2. seen[visitor.made] \in Nat /\ clock > seen[visitor.made] + Full
      BY <1>3, <2>4, <3>1 DEF Lives
    <3> QED
      BY <2>1, <3>2, FullType
  <2>5. Lives(born, seen)'
    BY <1>3, <2>1, <2>3, <2>4 DEF Lives
  <2> QED
    BY <1>4, <2>1, <2>5
<1>6. CASE Evict
  <2>1. /\ visitor.kept /\ clock - visitor.lastSeen > StaleAfter
        /\ visitor' = [visitor EXCEPT !.kept = FALSE]
        /\ UNCHANGED <<clock, bucket, attempt, failed, lag>>
    BY <1>6 DEF Evict
  <2>2. /\ visitor'.made = visitor.made /\ ~ visitor'.kept
        /\ clock \in Nat /\ visitor.lastSeen \in Nat
    BY <1>1, <2>1, RateAssumption DEF LimitInv
  <2>3. clock > seen[visitor.made] + Full
    <3>1. seen[visitor.made] = visitor.lastSeen
      BY <1>3, <2>1 DEF Lives
    <3> QED
      BY <2>1, <2>2, <3>1, FullType, RateAssumption
  <2>4. Lives(born, seen)'
    BY <1>3, <2>1, <2>2, <2>3 DEF Lives
  <2> QED
    BY <1>4, <2>1, <2>2, <2>4
<1>7. ASSUME NEW a \in Attempts, get(a) PROVE BudgetInv'
  BY <1>1, <1>2, <1>7, FoundBooked, MadeBooked
<1>8. ASSUME NEW a \in Attempts, ReserveN(a) PROVE BudgetInv'
  BY <1>1, <1>2, <1>8, ReserveBooked
<1>9. ASSUME NEW a \in Attempts, Refuse(a) PROVE BudgetInv'
  <2>1. /\ attempt[a].at = "refused" /\ UNCHANGED <<clock, visitor, failed>>
        /\ CancelAt(a) /\ attempt' = [attempt EXCEPT ![a] = Resolved]
    BY <1>9 DEF Refuse
  <2> QED
    BY <1>1, <1>2, <2>1, ResolvedMoves, CancelBooked
<1>10. ASSUME NEW a \in Attempts, NEW succeeds \in BOOLEAN, HandlerReturns(a, succeeds)
       PROVE  BudgetInv'
  <2>1. /\ attempt[a].at = "handling" /\ Turns(a, "none") /\ UNCHANGED <<clock, visitor>>
        /\ succeeds => CancelAt(a) /\ failed' = failed
        /\ ~ succeeds => failed' = failed + 1 /\ UNCHANGED <<bucket, lag>>
    BY <1>1, <1>10, HandlerFacts
  <2>2. CASE succeeds
    BY <1>1, <1>2, <2>1, <2>2, CancelBooked
  <2>3. CASE ~ succeeds
    BY <1>1, <1>2, <2>1, <2>3, FailBooked
  <2> QED
    BY <2>2, <2>3
<1>11. CASE UNCHANGED limitVars
  <2>1. Lives(born, seen)'
    BY <1>3, <1>11 DEF limitVars, Lives
  <2> QED
    BY <1>4, <1>11, <2>1 DEF limitVars
<1> QED
  BY <1>5, <1>6, <1>7, <1>8, <1>9, <1>10, <1>11 DEF LimitNext

\* What the buckets have spent one after the other fits in one full bucket and
\* the time that has passed.
LEMMA BudgetInvKept == BudgetInv => BudgetKept
<1> SUFFICES ASSUME BudgetInv PROVE BudgetKept
  OBVIOUS
<1>1. PICK net, sum, born, seen : Books(net, sum, born, seen)
  BY DEF BudgetInv
<1>2. Lives(born, seen) /\ Spends(net, born, seen) /\ Adds(net, sum) /\ sum \in [0..Buckets -> Int]
  BY <1>1 DEF Books
<1>3. /\ visitor.made \in 0..Buckets /\ visitor.made \in Int /\ clock \in Nat /\ lag \in Nat
      /\ Buckets \in Nat /\ Full \in Nat /\ failed \in Nat
  BY FullType, RateAssumption DEF BudgetInv, LimitInv
<1> DEFINE Within(b) == /\ sum[b] <= Full + clock
                        /\ b \in 1..visitor.made => sum[b] <= Full + seen[b]
           T == {b \in 0..Buckets : Within(b)}
<1>4. 0 \in T
  <2>1. sum[0] = 0 /\ 0 \in 0..Buckets /\ ~ (0 \in 1..visitor.made)
    BY <1>2, <1>3 DEF Adds
  <2> QED
    BY <1>3, <2>1
<1>5. ASSUME NEW b \in 0..(Buckets - 1), b \in T PROVE b + 1 \in T
  <2>1. b + 1 \in 1..Buckets /\ b + 1 \in 0..Buckets /\ b \in 0..Buckets /\ b + 1 - 1 = b
    BY <1>3
  <2>2. /\ sum[b + 1] = sum[b] + net[b + 1] /\ sum[b] \in Int /\ sum[b + 1] \in Int
        /\ net[b + 1] \in Int /\ seen[b + 1] \in Nat /\ born[b + 1] \in Nat
    BY <1>2, <2>1 DEF Adds, Spends, Lives
  <2>3. CASE b + 1 <= visitor.made
    <3>1. b + 1 \in 1..visitor.made
      BY <1>3, <2>3
    <3>2. /\ net[b + 1] <= Full - born[b + 1] + seen[b + 1]
          /\ born[b + 1] <= seen[b + 1] /\ seen[b + 1] <= clock
          /\ b + 1 > 1 => born[b + 1] > seen[b + 1 - 1] + Full
      BY <1>2, <3>1 DEF Spends, Lives
    <3>3. sum[b] <= born[b + 1]
      <4>1. CASE b = 0
        BY <1>2, <2>2, <4>1 DEF Adds
      <4>2. CASE b # 0
        <5>1. b \in 1..visitor.made /\ b \in 1..Buckets /\ b + 1 > 1
          BY <1>3, <2>3, <4>2
        <5>2. sum[b] <= Full + seen[b] /\ born[b + 1] > seen[b] + Full /\ seen[b] \in Nat
          BY <1>2, <1>5, <2>1, <3>2, <5>1 DEF Lives
        <5> QED
          BY <1>3, <2>2, <5>2
      <4> QED
        BY <4>1, <4>2
    <3>4. sum[b + 1] <= Full + seen[b + 1] /\ sum[b + 1] <= Full + clock
      BY <1>3, <2>2, <3>2, <3>3
    <3> QED
      BY <2>1, <3>4
  <2>4. CASE ~ (b + 1 <= visitor.made)
    <3>1. net[b + 1] = 0 /\ ~ (b + 1 \in 1..visitor.made)
      BY <1>2, <1>3, <2>1, <2>4 DEF Spends
    <3>2. sum[b + 1] = sum[b] /\ sum[b] <= Full + clock
      BY <1>5, <2>2, <3>1
    <3> QED
      BY <2>1, <3>1, <3>2
  <2> QED
    BY <2>3, <2>4
<1> HIDE DEF T
<1>6. Buckets \in T
  BY <1>3, <1>4, <1>5, Rounds
<1>7. sum[Buckets] <= Full + clock
  BY <1>6 DEF T
<1>8. Unit * (failed + InFlight) - lag <= Full + clock
  BY <1>1, <1>7 DEF Books, Total
<1>9. Unit * (failed + InFlight) \in Int /\ Unit * Burst = Full
  <2>1. InFlight \in Int
    <3>1. IsFiniteSet({a \in Attempts : attempt[a].at = "handling"})
      BY FS_Subset, RateAssumption
    <3> QED
      BY <3>1, FS_CardinalityType DEF InFlight
  <2>2. Unit \in Int /\ Burst \in Int
    BY RateAssumption
  <2> QED
    BY <1>3, <2>1, <2>2 DEF Full
<1> HIDE DEF T
<1> DEFINE spent == Unit * (failed + InFlight)
<1>10. spent - lag <= Full + clock /\ spent \in Int
  BY <1>8, <1>9
<1> HIDE DEF spent
<1>11. spent <= Full + clock + lag
  BY <1>3, <1>10
<1> QED
  BY <1>9, <1>11 DEF spent, BudgetKept

\* However attempts overlap, are refused, get their tokens back or outlive their
\* bucket, no more of them fail, or still may, than the budget and the time
\* since allow, but for what lag keeps.
THEOREM BudgetKeptHolds == LimitSpec => []BudgetKept
<1>1. LimitSpec => []BudgetInv
  BY BudgetInitInv, BudgetStepInv, PTL DEF LimitSpec
<1> QED
  BY <1>1, BudgetInvKept, PTL

-----------------------------------------------------------------------------
(* The composition.  A behaviour of PeopleSpec is one of every component:  *)
(* each starts as it does alone, and a step of another leaves it as it is. *)

THEOREM PeopleAreTheirParts ==
  PeopleSpec => /\ AccountSpec /\ SessionSpec /\ LimitSpec /\ StaffSpec
                /\ OutletSpec /\ CountSpec /\ DetailSpec
<1>1. PeopleInit => /\ AccountInit /\ SessionInit /\ LimitInit /\ StaffInit
                    /\ OutletInit /\ CountInit /\ DetailInit
  BY DEF PeopleInit
<1>2. ASSUME [PeopleNext]_<<peopleVars, makingVars, moving>>
      PROVE  /\ [AccountNext]_accountVars /\ [SessionNext]_sessionVars
             /\ [LimitNext]_limitVars /\ [StaffNext]_staffVars
             /\ [OutletNext]_outletVars /\ [CountNext]_<<countVars, catalogueVars>>
             /\ [DetailNext]_detailVars
  <2>1. CASE UNCHANGED <<peopleVars, makingVars, moving>>
    BY <2>1 DEF peopleVars, makingVars
  <2>2. CASE AccountsMove
    BY <2>2 DEF AccountsMove, makingVars
  <2>3. CASE SessionsMove
    BY <2>3 DEF SessionsMove, makingVars
  <2>4. CASE AttemptsMove
    BY <2>4 DEF AttemptsMove, makingVars
  <2>6. CASE StaffMoves
    BY <2>6 DEF StaffMoves, makingVars
  <2>7. CASE OutletsMove
    BY <2>7 DEF OutletsMove, peopleVars
  <2>8. CASE CountsMove
    BY <2>8 DEF CountsMove, peopleVars
  <2>9. CASE PageMoves
    BY <2>9 DEF PageMoves, peopleVars
  <2> QED
    BY <1>2, <2>1, <2>2, <2>3, <2>4, <2>6, <2>7, <2>8, <2>9 DEF PeopleNext
<1> QED
  BY <1>1, <1>2, PTL DEF PeopleSpec, AccountSpec, SessionSpec, LimitSpec, StaffSpec, OutletSpec,
     CountSpec, DetailSpec

\* Whichever component moves, all of them keep to their types.
THEOREM PeopleTypeCorrect == PeopleSpec => []PeopleTypeOK
<1>1. (/\ AccountTypeOK /\ SessionTypeOK /\ LimitTypeOK /\ StaffTypeOK
       /\ OutletTypeOK /\ CountTypeOK /\ DetailTypeOK) => PeopleTypeOK
  BY DEF PeopleTypeOK
<1> QED
  BY <1>1, PeopleAreTheirParts, AccountTypeCorrect, SessionTypeCorrect, LimitTypeCorrect,
     StaffTypeCorrect, OutletTypeCorrect, CountTypeCorrect, DetailTypeCorrect, PTL

\* What is proved of each component holds of PeopleSpec, which TLC runs.
THEOREM PeopleSafe ==
  PeopleSpec => /\ [](/\ EveryAccountReachable /\ VerifiedOwnsEmail /\ OneCustomerPerGoogle
                      /\ InactiveNeverActivated /\ SessionsKnowRole /\ OutletIsTold
                      /\ BudgetKept /\ TotalMatchesItems /\ StationJudgesCount
                      /\ ServedByNearest /\ DetailIsCoherent)
                /\ ChangeEndsAccess
BY PeopleAreTheirParts, EveryAccountReachableHolds, VerifiedOwnsEmailHolds,
   OneCustomerPerGoogleHolds, InactiveNeverActivatedHolds, SessionsKnowRoleHolds,
   OutletIsToldHolds, BudgetKeptHolds, TotalMatchesItemsHolds, StationJudgesCountHolds,
   ServedByNearestHolds, DetailIsCoherentHolds, ChangeEndsAccessHolds, PTL

=============================================================================
