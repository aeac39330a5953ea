-------------------------------- MODULE Outlets --------------------------------
(***************************************************************************)
(* Which outlet serves an order (internal/outlet and the first half of     *)
(* CreateOrder, internal/order/handler_order.go).  The customer's address  *)
(* and the open outlets are read in two statements, the nearest one is     *)
(* chosen in memory and the order is inserted later, while the admin       *)
(* moves, closes and deletes outlets and the customer moves the address.   *)
(* The earth is a line: haversineKM is the distance of two points on it.   *)
(***************************************************************************)
EXTENDS Integers, Sequences, FiniteSets, Functions, NullValue

CONSTANTS
  OutletIds,             \* outlets rows that may ever be created
  Buyers,                \* bound: CreateOrder requests
  Places,                \* points on the line
  Radii,                 \* service radii
  FreeDeliveryRadiusKM,  \* within it the delivery is free
  FlatDeliveryFee,       \* beyond it, it costs this
  MaxOutletEdits         \* bound: changes of outlets and of the address

ASSUME OutletAssumption ==
  /\ Places \subseteq Int
  /\ Radii \subseteq Nat \ {0}
  /\ FreeDeliveryRadiusKM \in Nat /\ FlatDeliveryFee \in Nat \ {0} /\ MaxOutletEdits \in Nat
  /\ IsFiniteSet(OutletIds)
  /\ NULL \notin OutletIds \cup Places
  /\ NULL \notin [id : OutletIds, place : Places, radius : Radii]

VARIABLES
  outlet,       \* outlets: whether the row is there, where, its radius and is_active
  address,      \* where the customer's address is
  outletEdits,  \* changes made so far
  buyer         \* per request: where it is, the address and outlets it read, its order

outletVars == <<outlet, address, outletEdits, buyer>>

OutletRows == [row : {"none", "live", "deleted"}, place : Places, radius : Radii, active : BOOLEAN]
NoOrder == [outlet |-> NULL, fee |-> 0]
Offers == [id : OutletIds, place : Places, radius : Radii]
NotBuying == [at |-> "idle", from |-> NULL, offers |-> {}, order |-> NoOrder]

OutletTypeOK ==
  /\ outlet \in [OutletIds -> OutletRows]
  /\ address \in Places
  /\ outletEdits \in 0..MaxOutletEdits
  /\ \A b \in Buyers :
       /\ buyer[b].at \in {"idle", "located", "tx", "created"}
       /\ buyer[b].from \in Places \cup {NULL}
       /\ buyer[b].offers \subseteq Offers
       /\ buyer[b].order \in [outlet : OutletIds \cup {NULL}, fee : {0, FlatDeliveryFee}]

\* One outlet anywhere, open to all of its radius.
OutletInit ==
  /\ \E first \in OutletIds, place, home \in Places, radius \in Radii :
       /\ outlet = [o \in OutletIds |->
            [row |-> IF o = first THEN "live" ELSE "none",
             place |-> place, radius |-> radius, active |-> TRUE]]
       /\ address = home
  /\ outletEdits = 0
  /\ buyer = [b \in Buyers |-> NotBuying]

-----------------------------------------------------------------------------
(* The admin and the customer's address *)

OutletEdit == outletEdits < MaxOutletEdits /\ outletEdits' = outletEdits + 1

OutletRow(place, radius, active) ==
  [row |-> "live", place |-> place, radius |-> radius, active |-> active]

CreateOutlet(o, place, radius, active) ==
  /\ OutletEdit
  /\ outlet[o].row = "none"
  /\ outlet' = [outlet EXCEPT ![o] = OutletRow(place, radius, active)]
  /\ UNCHANGED <<address, buyer>>

UpdateOutlet(o, place, radius, active) ==
  /\ OutletEdit
  /\ outlet[o].row = "live"
  /\ outlet' = [outlet EXCEPT ![o] = OutletRow(place, radius, active)]
  /\ UNCHANGED <<address, buyer>>

SoftDeleteOutlet(o) ==
  /\ OutletEdit
  /\ outlet[o].row = "live"
  /\ outlet' = [outlet EXCEPT ![o].row = "deleted"]
  /\ UNCHANGED <<address, buyer>>

MoveAddress(place) ==
  /\ OutletEdit
  /\ address' = place
  /\ UNCHANGED <<outlet, buyer>>

-----------------------------------------------------------------------------
(* Choosing an outlet *)

haversineKM(p, q) == IF p < q THEN q - p ELSE p - q

ListActiveOutlets ==
  {[id |-> o, place |-> outlet[o].place, radius |-> outlet[o].radius] :
     o \in {p \in OutletIds : outlet[p].row = "live" /\ outlet[p].active}}

\* Mutant: only the first outlet has to cover the address.
CloserFirst(from, best, o) ==
  LET distance == haversineKM(from, o.place)
  IN  IF \/ best = NULL /\ distance <= o.radius
         \/ best # NULL /\ distance < haversineKM(from, best.place)
      THEN o ELSE best

\* One round of nearestOutlet's loop.
Closer(from, best, o) ==
  LET distance == haversineKM(from, o.place)
  IN  IF /\ distance <= o.radius
         /\ best = NULL \/ distance < haversineKM(from, best.place)
      THEN o ELSE best

\* best[n]: the choice after n rounds.
nearestOutlet(outlets, from) ==
  LET best[n \in 0..Len(outlets)] ==
        IF n = 0 THEN NULL ELSE Closer(from, best[n - 1], outlets[n])
  IN  best[Len(outlets)]

calculateDeliveryFee(distanceKM) ==
  IF distanceKM <= FreeDeliveryRadiusKM THEN 0 ELSE FlatDeliveryFee

\* ListActiveOutlets has no ORDER BY: the rows come in any order.
Orderings(offers) == Bijection(1..Cardinality(offers), offers)

\* EstimateDeliveryFee: the fee and outlet any order of the list gives, if any.
NearestOutlets(offers, from) ==
  {best \in {nearestOutlet(outlets, from) : outlets \in Orderings(offers)} : best # NULL}

-----------------------------------------------------------------------------
(* CreateOrder *)

GetAddressByID(b) ==
  /\ buyer[b].at = "idle"
  /\ buyer' = [buyer EXCEPT ![b].at = "located", ![b].from = address]
  /\ UNCHANGED <<outlet, address, outletEdits>>

\* The list, and the choice; without one in range the request ends.
ChoosesOutlet(b) ==
  /\ buyer[b].at = "located"
  /\ IF NearestOutlets(ListActiveOutlets, buyer[b].from) = {}
     THEN buyer' = [buyer EXCEPT ![b] = NotBuying]
     ELSE \E best \in NearestOutlets(ListActiveOutlets, buyer[b].from) :
       buyer' = [buyer EXCEPT ![b].at = "tx", ![b].offers = ListActiveOutlets,
         ![b].order = [outlet |-> best.id,
           fee |-> calculateDeliveryFee(haversineKM(buyer[b].from, best.place))]]
  /\ UNCHANGED <<outlet, address, outletEdits>>

\* Rows of outlets are only ever soft-deleted: the foreign key holds.
InsertOrder(b) ==
  /\ buyer[b].at = "tx"
  /\ buyer' = [buyer EXCEPT ![b].at = "created"]
  /\ UNCHANGED <<outlet, address, outletEdits>>

BuyerFails(b) ==
  /\ buyer[b].at \in {"located", "tx"}
  /\ buyer' = [buyer EXCEPT ![b] = NotBuying]
  /\ UNCHANGED <<outlet, address, outletEdits>>

OutletNext ==
  \/ \E o \in OutletIds :
       \/ \E place \in Places, radius \in Radii, active \in BOOLEAN :
            \/ CreateOutlet(o, place, radius, active)
            \/ UpdateOutlet(o, place, radius, active)
       \/ SoftDeleteOutlet(o)
  \/ \E place \in Places : MoveAddress(place)
  \/ \E b \in Buyers :
       \/ GetAddressByID(b)
       \/ ChoosesOutlet(b)
       \/ InsertOrder(b)
       \/ BuyerFails(b)

OutletSpec == OutletInit /\ [][OutletNext]_outletVars

-----------------------------------------------------------------------------
(* Safety *)

Covering(offers, from) == {o \in offers : haversineKM(from, o.place) <= o.radius}

\* The outlet of an order covers the address as it was read, no outlet on the
\* list covers it from nearer, and the fee follows that distance: whatever
\* order the database listed them in, two equally near or not.  And a
\* request is refused exactly when no outlet on its list covers the address.
\* (nearestOutlet, calculateDeliveryFee, CreateOrder, EstimateDeliveryFee.)
ServedByNearest ==
  /\ \A b \in Buyers : buyer[b].at \in {"tx", "created"} =>
       \E best \in Covering(buyer[b].offers, buyer[b].from) :
         LET km == haversineKM(buyer[b].from, best.place)
         IN  /\ buyer[b].order.outlet = best.id
             /\ \A o \in Covering(buyer[b].offers, buyer[b].from) :
                  km <= haversineKM(buyer[b].from, o.place)
             /\ buyer[b].order.fee = 0 <=> km <= FreeDeliveryRadiusKM
  /\ \A b \in Buyers : buyer[b].at = "located" =>
       (NearestOutlets(ListActiveOutlets, buyer[b].from) = {} <=>
          Covering(ListActiveOutlets, buyer[b].from) = {})
=============================================================================
