---------------------------- MODULE CompletionCron ----------------------------
(***************************************************************************)
(* The job of internal/cron that completes the orders whose 48 hours have  *)
(* passed, run hourly by the ticker's goroutine and on demand by an admin's*)
(* request.  A run reads its candidates once and then runs one guarded     *)
(* transaction per candidate, so an order may have been completed by its   *)
(* customer or by another run when its turn comes.                         *)
(***************************************************************************)
EXTENDS OrderIntake

CONSTANTS
  Sweepers,   \* the ticker's goroutine and the admins' requests
  Ticker      \* the former

ASSUME TickerAssumption == Ticker \in Sweepers

VARIABLE
  sweep   \* the candidates a run has read and not handled yet

CronTypeOK == sweep \in [Sweepers -> SUBSET Orders]

CronInit == sweep = [r \in Sweepers |-> {}]

\* The database clock passes auto_confirm_at.
AutoConfirmPasses(o) ==
  /\ autoConfirm[o] = "future"
  /\ autoConfirm' = [autoConfirm EXCEPT ![o] = "passed"]
  /\ UNCHANGED <<orderStatus, billed, history, taskVars, payVars, bypass, sweep>>

ReadyForAutoComplete ==
  {o \in Orders : orderStatus[o] = "received_by_customer" /\ autoConfirm[o] = "passed"}

\* A run begins when the one before it, on the same goroutine, has ended.
ListOrdersReadyForAutoComplete(r) ==
  /\ sweep[r] = {}
  /\ ReadyForAutoComplete # {}
  /\ sweep' = [sweep EXCEPT ![r] = ReadyForAutoComplete]
  /\ UNCHANGED tableVars

LeavesSweep(r, o) ==
  /\ o \in sweep[r]
  /\ sweep' = [sweep EXCEPT ![r] = @ \ {o}]

AutoCompleteOrder(r, o) ==
  /\ LeavesSweep(r, o)
  /\ FinishOrder(o)

\* The guarded UPDATE matched no row: the run skips the order.
AutoCompleteSkip(r, o) ==
  /\ LeavesSweep(r, o)
  /\ orderStatus[o] # "received_by_customer"
  /\ UNCHANGED tableVars

\* The transaction failed: the run logs it and goes on with the next order.
AutoCompleteFails(r, o) ==
  /\ LeavesSweep(r, o)
  /\ UNCHANGED tableVars

CronNext ==
  \/ \E o \in Orders : AutoConfirmPasses(o)
  \/ \E r \in Sweepers :
       \/ ListOrdersReadyForAutoComplete(r)
       \/ \E o \in Orders : \/ AutoCompleteOrder(r, o)
                            \/ AutoCompleteSkip(r, o)
                            \/ AutoCompleteFails(r, o)
=============================================================================
