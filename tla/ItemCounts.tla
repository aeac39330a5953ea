------------------------------ MODULE ItemCounts ------------------------------
(***************************************************************************)
(* What was in the bag of one order: the outlet admins who record and      *)
(* price its items (ProcessOrder, internal/order/handler_pipeline.go) and  *)
(* the stations that count them again (handler_worker.go), while the       *)
(* catalogue changes.  Prices are read item by item before the             *)
(* transaction, and a station's count is judged by the rows of the order   *)
(* and the catalogue of that day.                                          *)
(***************************************************************************)
EXTENDS Catalogue, Sequences, Functions, NullValue

CONSTANTS
  Filers,       \* bound: ProcessOrder requests
  Halves,       \* quantities, in half pieces or half kilograms
  MaxLines,     \* bound: items one request lists
  DeliveryFee   \* the order's delivery fee

ASSUME CountAssumption ==
  /\ Halves \subseteq Nat \ {0}
  /\ MaxLines \in Nat
  /\ DeliveryFee \in Nat
  /\ NULL \notin Items \cup Nat

VARIABLES
  arrived,      \* the order's status is laundry_arrived_outlet (else washing)
  orderTotal,   \* orders.total_price, in halves of the currency unit
  orderItems,   \* order_items, as rows were inserted
  breakdown,    \* order_item_breakdowns: the quantity of a type, NULL without a row
  filer         \* per request: where it is, resolvedItems, resolvedBreakdowns

countVars == <<arrived, orderTotal, orderItems, breakdown, filer>>
orderRows == <<arrived, orderTotal, orderItems, breakdown>>

OrderItemRows == [item : Items, halves : Halves, price : Prices]
Counts == [ClothingTypes -> Halves \cup {0, NULL}]
NoCounts == [t \in ClothingTypes |-> NULL]
NoFiling == [at |-> "idle", items |-> <<>>, counts |-> NoCounts]

CountTypeOK ==
  /\ CatalogueTypeOK
  /\ arrived \in BOOLEAN
  /\ orderTotal \in Nat
  /\ Range(orderItems) \subseteq OrderItemRows
  /\ breakdown \in Counts
  /\ \A f \in Filers :
       /\ filer[f].at \in {"idle", "items", "tx"}
       /\ Range(filer[f].items) \subseteq OrderItemRows
       /\ Len(filer[f].items) <= MaxLines
       /\ filer[f].counts \in Counts

\* The order is at the outlet; CreateOrder wrote total 0.
CountInit ==
  /\ CatalogueInit
  /\ arrived = TRUE
  /\ orderTotal = 0
  /\ orderItems = <<>>
  /\ breakdown = NoCounts
  /\ filer = [f \in Filers |-> NoFiling]

-----------------------------------------------------------------------------
(* ProcessOrder.  What the request asks for is chosen where the handler    *)
(* first looks at it.                                                      *)

\* The order is at the outlet and has no items.
ProcessOrderChecks(f) ==
  /\ filer[f].at = "idle"
  /\ arrived
  /\ orderItems = <<>>
  /\ filer' = [filer EXCEPT ![f].at = "items"]
  /\ UNCHANGED <<orderRows, catalogueVars>>

\* One SELECT per item listed: it must be on sale now, at the price of now.
ReadsLaundryItem(f, i, halves) ==
  /\ filer[f].at = "items"
  /\ Len(filer[f].items) < MaxLines
  /\ GetLaundryItemByID(i)
  /\ item[i].active
  /\ filer' = [filer EXCEPT ![f].items =
       Append(@, [item |-> i, halves |-> halves, price |-> item[i].price])]
  /\ UNCHANGED <<orderRows, catalogueVars>>

\* Then the clothing types counted, all of which must be in use.  The weight
\* is positive exactly when one of the quantities is, and nothing more.
ReadsClothingTypes(f, counts) ==
  /\ filer[f].at = "items"
  /\ filer[f].items # <<>>
  /\ \A t \in ClothingTypes :
       counts[t] # NULL => GetClothingTypeByID(t) /\ clothing[t].active
  /\ filer' = [filer EXCEPT ![f].at = "tx", ![f].counts = counts]
  /\ UNCHANGED <<orderRows, catalogueVars>>

\* sum[n]: what the first n rows cost.
Amount(rows) ==
  LET sum[n \in 0..Len(rows)] ==
        IF n = 0 THEN 0 ELSE sum[n - 1] + rows[n].halves * rows[n].price
  IN  sum[Len(rows)]

\* The foreign key refuses an item that has been erased meanwhile.
CreateOrderItems(rows) ==
  /\ \A r \in Range(rows) : GetLaundryItemByIDAny(r.item)
  /\ orderItems' = orderItems \o rows

\* A unique index refuses a second row of one order and type.
CreateOrderItemBreakdowns(counts) ==
  /\ \A t \in ClothingTypes : counts[t] # NULL => breakdown[t] = NULL
  /\ breakdown' = [t \in ClothingTypes |->
       IF counts[t] # NULL THEN counts[t] ELSE breakdown[t]]

\* Mutant: the status is not looked at again.
ProcessOrderAgain(f) ==
  /\ filer[f].at = "tx"
  /\ CreateOrderItems(filer[f].items)
  /\ CreateOrderItemBreakdowns(filer[f].counts)
  /\ arrived' = FALSE
  /\ orderTotal' = Amount(filer[f].items) + 2 * DeliveryFee
  /\ filer' = [filer EXCEPT ![f] = NoFiling]
  /\ UNCHANGED catalogueVars

\* The transaction: the rows, then the guarded transition with the total.
ProcessOrderIfCurrent(f) ==
  /\ filer[f].at = "tx"
  /\ CreateOrderItems(filer[f].items)
  /\ CreateOrderItemBreakdowns(filer[f].counts)
  /\ arrived
  /\ arrived' = FALSE
  /\ orderTotal' = Amount(filer[f].items) + 2 * DeliveryFee
  /\ filer' = [filer EXCEPT ![f] = NoFiling]
  /\ UNCHANGED catalogueVars

\* Any of its statements may be refused, or fail: nothing remains.
ProcessOrderFails(f) ==
  /\ filer[f].at # "idle"
  /\ filer' = [filer EXCEPT ![f] = NoFiling]
  /\ UNCHANGED <<orderRows, catalogueVars>>

Cited == {r.item : r \in Range(orderItems)}

CountNext ==
  \/ \E f \in Filers :
       \/ ProcessOrderChecks(f)
       \/ \E i \in Items, halves \in Halves : ReadsLaundryItem(f, i, halves)
       \/ \E counts \in Counts : ReadsClothingTypes(f, counts)
       \/ ProcessOrderIfCurrent(f)
       \/ ProcessOrderFails(f)
  \/ /\ CatalogueNext(Cited)
     /\ UNCHANGED countVars

CountSpec == CountInit /\ [][CountNext]_<<countVars, catalogueVars>>

-----------------------------------------------------------------------------
(* A station counts.  A count is what the worker submits: pieces of every  *)
(* item and type, zero for what was not found.                             *)

Pieces(r) == r.halves \div 2

\* Mutant: only items that are still on offer are looked up.
ItemIsReadLive(i) == GetLaundryItemByID(i)

ItemIsRead(i) == GetLaundryItemByIDAny(i)

\* expectedItems: the rows of one transaction have one created_at, so of the
\* rows of one item any may come last in ListOrderItemsByOrder and stand.
\* Whether an item is counted by the piece is asked of the catalogue now.
ExpectedSatuan ==
  LET counted == {i \in Cited : item[i].unit = "pcs"}
  IN  {e \in [counted -> {Pieces(r) : r \in Range(orderItems)}] :
         \A i \in counted : \E r \in Range(orderItems) : r.item = i /\ e[i] = Pieces(r)}

ExpectedBreakdown ==
  [t \in {u \in ClothingTypes : breakdown[u] # NULL} |-> breakdown[t]]

\* compareItems: what was not expected is not compared.
Differing(expected, actual) == {x \in DOMAIN expected : actual[x] # expected[x]}

\* SubmitItems: fillDiscrepancyNames finds the name of a type only while it
\* has not been deleted; the name of an item always.
SubmitItemsAnswer(expected, pieces, types) ==
  IF \E i \in Cited : ~ItemIsRead(i) THEN "error"
  ELSE LET off == Differing(ExpectedBreakdown, types)
       IN  IF off = {} /\ Differing(expected, pieces) = {} THEN "completed"
           ELSE IF \A t \in off : GetClothingTypeByID(t) THEN "requires_bypass"
           ELSE "error"

-----------------------------------------------------------------------------
(* Safety *)

\* An order costs its delivery fee and what its rows cost, whoever else was
\* recording it and however the prices moved meanwhile: a request that loses
\* leaves neither rows nor a total.  (ProcessOrder; the count of order_items
\* it starts with is no guard, only the UPDATE's status is.)
TotalMatchesItems ==
  IF arrived
    THEN orderItems = <<>> /\ orderTotal = 0
    ELSE orderTotal = Amount(orderItems) + 2 * DeliveryFee

ListedOnce == \A m, n \in 1..Len(orderItems) : orderItems[m].item = orderItems[n].item => m = n

\* When no item was listed twice, a station's count is accepted exactly when
\* it is right for every type recorded and every item counted by the piece,
\* whatever became of the items since; a wrong one asks for a bypass, except
\* that it is an error when a type counted wrong has been deleted.  (SubmitItems,
\* expectedItems, compareItems, fillDiscrepancyNames.)
StationJudgesCount ==
  ~arrived /\ ListedOnce =>
    \A pieces \in [Items -> {h \div 2 : h \in Halves} \cup {0}],
       types \in [ClothingTypes -> Halves \cup {0}], expected \in ExpectedSatuan :
      LET answer == SubmitItemsAnswer(expected, pieces, types)
          wrong == {t \in ClothingTypes : breakdown[t] \notin {NULL, types[t]}}
      IN  /\ answer = "completed" <=>
               /\ wrong = {}
               /\ \A r \in Range(orderItems) :
                    item[r.item].unit = "pcs" => pieces[r.item] = Pieces(r)
          /\ answer = "error" => \E t \in wrong : clothing[t].row = "deleted"
=============================================================================
