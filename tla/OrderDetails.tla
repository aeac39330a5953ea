----------------------------- MODULE OrderDetails -----------------------------
(***************************************************************************)
(* The page of one order (GetOrderDetail and GetOutletOrderDetail,         *)
(* internal/order/handler_order.go): order, items, breakdown, history,     *)
(* complaints and payment are read in statements of their own, outside any *)
(* transaction, while the order moves on as OrderLifecycle allows.         *)
(* Nothing on the page depends on complaints, which are left out.          *)
(***************************************************************************)
EXTENDS Naturals, Sequences, NullValue

CONSTANTS
  Viewed,     \* the order
  Viewers     \* bound: requests for its page, each of which may ask again

VARIABLES
  viewedStage,    \* the order's status
  viewedSettled,  \* whether its money has arrived
  paymentRow,     \* payments: whether the order has a row
  recorded,       \* what ProcessOrder recorded: total_weight_kg above 0, and a
                  \* line of order_item_breakdowns with a quantity above 0
  told,           \* order_status_histories: the statuses the order has had
  page            \* per request: the parts read so far and what they showed

detailVars == <<viewedStage, viewedSettled, paymentRow, recorded, told, page>>
storyVars == <<viewedStage, viewedSettled, paymentRow, recorded, told>>

Life == INSTANCE OrderLifecycle WITH
  Orders <- {Viewed},
  stage <- [o \in {Viewed} |-> viewedStage],
  settled <- [o \in {Viewed} |-> viewedSettled]

ViewedStages == DOMAIN Life!Successors

BeforeWashing ==
  {"none", "waiting_pickup_driver", "laundry_to_outlet", "laundry_arrived_outlet"}

AfterPayment ==
  {"ready_for_delivery", "delivery_to_customer", "received_by_customer", "completed"}

Recordings == [weight : BOOLEAN, breakdown : BOOLEAN]

\* What the page shows of the order's row.
OrderRows == [status : ViewedStages, weight : BOOLEAN]

NoPage == [parts |-> 0, order |-> NULL, items |-> NULL, breakdown |-> NULL,
           history |-> NULL, payment |-> NULL]

DetailTypeOK ==
  /\ viewedStage \in ViewedStages
  /\ {viewedSettled, paymentRow} \subseteq BOOLEAN
  /\ recorded \in Recordings
  /\ told \subseteq ViewedStages
  /\ page \in [Viewers -> [parts : 0..5, order : OrderRows \cup {NULL},
       items : BOOLEAN \cup {NULL}, breakdown : BOOLEAN \cup {NULL},
       history : (SUBSET ViewedStages) \cup {NULL}, payment : BOOLEAN \cup {NULL}]]

DetailInit ==
  /\ viewedStage = "waiting_pickup_driver"
  /\ viewedSettled = FALSE
  /\ paymentRow = FALSE
  /\ recorded = [weight |-> FALSE, breakdown |-> FALSE]
  /\ told = {"waiting_pickup_driver"}
  /\ page = [v \in Viewers |-> NoPage]

\* validateProcessOrderRequest: the orders that are weighed, and they only, are
\* broken down.
validateProcessOrderRequest(request) == request.weight <=> request.breakdown

\* Every transition writes its history row in its own transaction; that into
\* washing (ProcessOrder) writes the items, the breakdown and the weight too.
ViewedOrderMoves ==
  /\ viewedStage' \in Life!Successors[viewedStage]
  /\ UNCHANGED <<viewedSettled, paymentRow, page>>
  /\ Life!Advance(Viewed)
  /\ told' = told \cup {viewedStage'}
  /\ IF viewedStage' = "washing"
     THEN /\ recorded' \in Recordings
          /\ validateProcessOrderRequest(recorded')
     ELSE UNCHANGED recorded

\* CreateTransaction bills what ProcessOrder priced.
PaymentOpens ==
  /\ viewedStage \notin BeforeWashing
  /\ paymentRow' = TRUE
  /\ UNCHANGED <<viewedStage, viewedSettled, recorded, told, page>>

\* Money arrives for a transaction that a payments row names.
PaymentSettles ==
  /\ paymentRow
  /\ viewedSettled' = TRUE
  /\ UNCHANGED <<viewedStage, paymentRow, recorded, told, page>>

-----------------------------------------------------------------------------
(* Reading the page *)

\* Mutant: what goes with the order is read before the order itself.
OrderLast == <<"items", "breakdown", "history", "payment", "order">>

Parts == <<"order", "items", "breakdown", "history", "payment">>

Value(part) ==
  CASE part = "order"     -> [status |-> viewedStage, weight |-> recorded.weight]
    [] part = "items"     -> viewedStage \notin BeforeWashing
    [] part = "breakdown" -> recorded.breakdown
    [] part = "history"   -> told
    [] part = "payment"   -> paymentRow

AsksForPage(v) ==
  /\ page[v].parts \in {0, Len(Parts)}
  /\ page' = [page EXCEPT ![v] = [NoPage EXCEPT !.parts = 1, ![Parts[1]] = Value(Parts[1])]]
  /\ UNCHANGED storyVars

\* The next SELECT of the handler.
ReadsPart(v) ==
  /\ page[v].parts \in 1..Len(Parts) - 1
  /\ LET part == Parts[page[v].parts + 1]
     IN  page' = [page EXCEPT ![v].parts = @ + 1, ![v][part] = Value(part)]
  /\ UNCHANGED storyVars

PageFails(v) ==
  /\ page[v].parts \in 1..Len(Parts) - 1
  /\ page' = [page EXCEPT ![v] = NoPage]
  /\ UNCHANGED storyVars

DetailNext ==
  \/ ViewedOrderMoves
  \/ PaymentOpens
  \/ PaymentSettles
  \/ \E v \in Viewers : AsksForPage(v) \/ ReadsPart(v) \/ PageFails(v)

DetailSpec == DetailInit /\ [][DetailNext]_detailVars

-----------------------------------------------------------------------------
(* Safety *)

\* However far the order moves while its page is put together, no part of the
\* page lags behind one that makes it necessary: the status shown is in the
\* history shown; an order shown at or past washing comes with its items, and
\* with a breakdown exactly if a weight is shown; items or a breakdown come with
\* a history that reaches washing, and a history that reaches the delivery with
\* a payment.
DetailIsCoherent ==
  \A v \in Viewers : page[v].parts = Len(Parts) =>
    LET p == page[v]
    IN  /\ p.order.status \in p.history
        /\ p.order.status \notin BeforeWashing =>
             p.items /\ (p.breakdown <=> p.order.weight)
        /\ p.items \/ p.breakdown => "washing" \in p.history
        /\ p.history \cap AfterPayment # {} => p.payment
=============================================================================
