------------------------------ MODULE StationWork ------------------------------
(***************************************************************************)
(* The washing, ironing and packing stations and the bypass requests that  *)
(* override their item count (internal/order/handler_worker.go and         *)
(* handler_bypass.go).                                                     *)
(*                                                                         *)
(* Two handlers act on something they read earlier.  completeStationTx     *)
(* reads the payment of an order at packing with a plain SELECT, which     *)
(* locks nothing, and chooses the next status by it; CreateBypassRequest   *)
(* reads the order, its pending request and the number of its earlier ones *)
(* in three statements, and inserts long after them (it uploads photos in  *)
(* between).                                                               *)
(***************************************************************************)
EXTENDS OrderTables

CONSTANTS
  BypassWorkers,   \* station workers who file bypass requests
  MaxPackings,     \* bound: packing completions between SELECT and COMMIT
  MaxFilings       \* bound: bypass requests between their first read and INSERT

VARIABLES
  packings,   \* packing transactions that have read the payment
  filings     \* bypass requests on their way to the INSERT

stationVars == <<packings, filings>>

PackingTxs ==
  [order  : Orders,
   next   : {"waiting_payment", "ready_for_delivery"},
   bypass : BypassIds \cup {NULL}]

\* What a request does next, and the attempt number it has counted (0: none).
Filings ==
  [worker  : BypassWorkers,
   order   : Orders,
   station : Stations,
   at      : {"pending", "count", "insert"},
   attempt : 0..MaxBypassAttemptsPerStation]

StationTypeOK ==
  /\ packings \subseteq PackingTxs
  /\ filings \subseteq Filings
  /\ \A f \in filings : f.at = "insert" => f.attempt > 0

StationInit ==
  /\ packings = {}
  /\ filings = {}

-----------------------------------------------------------------------------
(* Completing a station *)

\* Mutant: only the payment handlers create delivery tasks.
CompleteStationTxWithoutTask(o, s, next) ==
  /\ UpdateOrderStatusIfCurrent(o, s, next)
  /\ CreateOrderStatusHistory(o, s, next)
  /\ UNCHANGED <<taskVars, billed, autoConfirm, payVars>>

\* completeStationTx: the guarded transition and, when the order was paid
\* before packing ended, its delivery task.
CompleteStationTx(o, s, next) ==
  /\ UpdateOrderStatusIfCurrent(o, s, next)
  /\ IF next = "ready_for_delivery"
       THEN CreateDriverTask(o, "delivery")
       ELSE UNCHANGED taskVars
  /\ CreateOrderStatusHistory(o, s, next)
  /\ UNCHANGED <<billed, autoConfirm, payVars>>

\* CompleteStation and SubmitItems with matching counts, at washing or
\* ironing: no payment is read, the transaction is one step.  (SubmitItems
\* with a mismatch answers requires_bypass and changes nothing.)
CompleteStation(o, s) ==
  /\ s # "packing"
  /\ CompleteStationTx(o, s, stationNextStatus[s])
  /\ UNCHANGED <<bypass, stationVars>>

\* The SELECT on payments of completeStationTx, for a plain completion
\* (b = NULL) or inside the approval of bypass request b.  The code makes it
\* for an order of any status.  Reads before washing find no payment, as one
\* at the start of washing does, and those after packing can only lose, so
\* reads while the order is at a station stand for all.
PackingReadsPayment(o, b) ==
  /\ Cardinality(packings) < MaxPackings
  /\ orderStatus[o] \in Stations
  /\ \/ b = NULL
     \/ /\ b \in BypassIds
        /\ bypass[b].status = "pending"
        /\ bypass[b].order = o
        /\ bypass[b].station = "packing"
  /\ packings' = packings \cup
       {[order  |-> o,
         next   |-> IF payStatus[o] = "paid" THEN "ready_for_delivery"
                                             ELSE stationNextStatus["packing"],
         bypass |-> b]}
  /\ UNCHANGED <<tableVars, filings>>

PackingCommit(p) ==
  /\ p \in packings
  /\ packings' = packings \ {p}
  /\ CompleteStationTx(p.order, "packing", p.next)
  /\ IF p.bypass = NULL
       THEN UNCHANGED bypass
       ELSE UpdateBypassIfPending(p.bypass, "approved")
  /\ UNCHANGED filings

\* 409 station_already_processed or bypass_already_reviewed: all rolls back.
PackingLost(p) ==
  /\ p \in packings
  /\ packings' = packings \ {p}
  /\ \/ orderStatus[p.order] # "packing"
     \/ p.bypass # NULL /\ bypass[p.bypass].status # "pending"
  /\ UNCHANGED <<tableVars, filings>>

-----------------------------------------------------------------------------
(* Bypass requests *)

\* CreateBypassRequest finds the order at its worker's station.
FileBypassRequest(w, o, s) ==
  /\ Cardinality(filings) < MaxFilings
  /\ orderStatus[o] = s
  /\ filings' = filings \cup
       {[worker |-> w, order |-> o, station |-> s, at |-> "pending", attempt |-> 0]}
  /\ UNCHANGED <<tableVars, packings>>

GoesOn(f, g) ==
  /\ filings' = (filings \ {f}) \cup {g}
  /\ UNCHANGED <<tableVars, packings>>

\* GetPendingBypassRequest finds none ...
PendingBypassChecked(f) ==
  /\ f.at = "pending"
  /\ PendingBypassRequests(f.order, f.station) = {}
  /\ GoesOn(f, [f EXCEPT !.at = "count"])

\* ... and CountNonPendingBypassRequests, another statement, gives the attempt
\* number: one more than the requests reviewed by now.
AttemptsCounted(f) ==
  LET previousCount == Cardinality(NonPendingBypassRequests(f.order, f.station))
  IN  /\ f.at = "count"
      /\ previousCount < MaxBypassAttemptsPerStation
      /\ GoesOn(f, [f EXCEPT !.at = "insert", !.attempt = previousCount + 1])

\* A check refuses the request, or a statement or an upload fails.
FilingEnds(f) ==
  /\ filings' = filings \ {f}
  /\ UNCHANGED <<tableVars, packings>>

\* The INSERT: nothing is checked again and no constraint refuses a second
\* pending request.
CreateBypassRequest(f, b) ==
  /\ f.at = "insert"
  /\ filings' = filings \ {f}
  /\ InsertBypassRequest(b, f.order, f.station, f.attempt)
  /\ UNCHANGED <<orderVars, taskVars, payVars, packings>>

\* ReviewBypassRequest with approve = false: the last attempt is approved
\* whatever the admin decides, so only an earlier one can be rejected.
RejectBypassRequest(b) ==
  /\ bypass[b].attempt < MaxBypassAttemptsPerStation
  /\ UpdateBypassIfPending(b, "rejected")
  /\ UNCHANGED <<orderVars, taskVars, payVars, stationVars>>

\* Mutant: the approval stands though the station's transition lost.
ApproveBypassRequestAnyway(b) ==
  /\ bypass[b].station \in Stations \ {"packing"}
  /\ UpdateBypassIfPending(b, "approved")
  /\ IF orderStatus[bypass[b].order] = bypass[b].station
       THEN CompleteStationTx(bypass[b].order, bypass[b].station,
                              stationNextStatus[bypass[b].station])
       ELSE UNCHANGED <<orderVars, taskVars, payVars>>
  /\ UNCHANGED stationVars

\* ReviewBypassRequest, approving at washing or ironing: the review and the
\* station's transition commit together or not at all.  (At packing:
\* PackingReadsPayment and PackingCommit.)
ApproveBypassRequest(b) ==
  /\ bypass[b].station \in Stations \ {"packing"}
  /\ UpdateBypassIfPending(b, "approved")
  /\ CompleteStationTx(bypass[b].order, bypass[b].station,
                       stationNextStatus[bypass[b].station])
  /\ UNCHANGED stationVars

StationNext ==
  \/ \E o \in Orders :
       \/ \E s \in Stations :
            \/ CompleteStation(o, s)
            \/ \E w \in BypassWorkers : FileBypassRequest(w, o, s)
       \/ \E b \in BypassIds \cup {NULL} : PackingReadsPayment(o, b)
  \/ \E p \in packings : PackingCommit(p) \/ PackingLost(p)
  \/ \E f \in filings :
       \/ PendingBypassChecked(f) \/ AttemptsCounted(f) \/ FilingEnds(f)
       \/ \E b \in BypassIds : CreateBypassRequest(f, b)
  \/ \E b \in BypassIds : RejectBypassRequest(b) \/ ApproveBypassRequest(b)
=============================================================================
