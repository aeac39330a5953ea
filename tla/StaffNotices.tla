----------------------------- MODULE StaffNotices -----------------------------
(***************************************************************************)
(* Who at an outlet is told (internal/notification) while the admin hires, *)
(* moves and deletes its staff (internal/employee/handler_admin.go).       *)
(* NotifyOutletEmployees lists the recipients, then writes a row and sends *)
(* a live event for each: inside the transaction that confirms a payment,  *)
(* or statement by statement after the commit of what it tells of.  Its    *)
(* callers ignore the error it returns; a transaction in which a statement *)
(* failed cannot be committed all the same.                                *)
(***************************************************************************)
EXTENDS NullValue, Naturals

CONSTANTS
  Staff,          \* employees
  Workplaces,     \* outlets
  Tellings,       \* bound: calls of NotifyOutletEmployees
  Clerks,         \* bound: AssignEmployeeOutlet and UpdateEmployee in flight
  MaxStaffEdits   \* bound: changes of employees

ASSUME StaffAssumption == NULL \notin Workplaces \cup Staff /\ MaxStaffEdits \in Nat

VARIABLES
  staff,       \* employees: whether the row is there, role, outlet_id, is_active
  clerk,       \* per request: what it is about to write, having checked it
  staffEdits,  \* changes made so far
  notices,     \* employee_notifications, as committed
  announced,   \* live events sent: to whom, about what
  telling      \* per call: where it is, its transaction, recipients, rows to commit

staffVars == <<staff, clerk, staffEdits, notices, announced, telling>>
tellingVars == <<notices, announced, telling>>

Roles == {"outlet_admin", "driver", "worker"}
StaffRows ==
  [row : {"live", "deleted", "erased"}, role : Roles, outlet : Workplaces \cup {NULL},
   active : BOOLEAN]
Idling == [write |-> "nothing", employee |-> NULL, outlet |-> NULL, role |-> "worker"]
Untold == [at |-> "idle", tx |-> FALSE, listed |-> {}, todo |-> {}, rows |-> {}]

StaffTypeOK ==
  /\ staff \in [Staff -> StaffRows]
  /\ clerk \in [Clerks ->
       [write : {"nothing", "outlet", "role"}, employee : Staff \cup {NULL},
        outlet : Workplaces \cup {NULL}, role : Roles]]
  /\ staffEdits \in 0..MaxStaffEdits
  /\ notices \subseteq [to : Staff, about : Tellings, read : BOOLEAN]
  /\ announced \subseteq [to : Staff, about : Tellings]
  /\ \A c \in Tellings :
       /\ telling[c].at \in {"idle", "telling", "aborted", "done", "undone"}
       /\ telling[c].tx \in BOOLEAN
       /\ telling[c].todo \subseteq telling[c].listed /\ telling[c].listed \subseteq Staff
       /\ telling[c].rows \subseteq [to : Staff, about : {c}, read : {FALSE}]

\* The staff of one outlet, each in one of the roles; an invitation is open.
StaffInit ==
  /\ \E role \in [Staff -> Roles], outlet \in Workplaces, active \in [Staff -> BOOLEAN] :
       staff = [e \in Staff |->
         [row |-> "live", role |-> role[e], outlet |-> outlet, active |-> active[e]]]
  /\ clerk = [a \in Clerks |-> Idling]
  /\ staffEdits = 0
  /\ notices = {}
  /\ announced = {}
  /\ telling = [c \in Tellings |-> Untold]

-----------------------------------------------------------------------------
(* The admin.  Both updates check a row read earlier. *)

StaffEdit == staffEdits < MaxStaffEdits /\ staffEdits' = staffEdits + 1

AssignEmployeeOutlet(a, e, outlet) ==
  /\ clerk[a].write = "nothing"
  /\ staff[e].row = "live"
  /\ outlet = NULL => staff[e].role # "outlet_admin"
  /\ clerk' = [clerk EXCEPT ![a] =
       [Idling EXCEPT !.write = "outlet", !.employee = e, !.outlet = outlet]]
  /\ UNCHANGED <<staff, staffEdits, tellingVars>>

\* The UPDATE does not look at deleted_at.
UpdateEmployeeOutlet(a) ==
  LET e == clerk[a].employee
  IN  /\ clerk[a].write = "outlet"
      /\ StaffEdit
      /\ staff[e].row # "erased"
      /\ staff' = [staff EXCEPT ![e].outlet = clerk[a].outlet]
      /\ clerk' = [clerk EXCEPT ![a] = Idling]
      /\ UNCHANGED tellingVars

UpdateEmployeeChecks(a, e, role) ==
  /\ clerk[a].write = "nothing"
  /\ staff[e].row = "live"
  /\ role = "outlet_admin" => staff[e].outlet # NULL
  /\ clerk' = [clerk EXCEPT ![a] =
       [Idling EXCEPT !.write = "role", !.employee = e, !.role = role]]
  /\ UNCHANGED <<staff, staffEdits, tellingVars>>

UpdateEmployeeRole(a) ==
  LET e == clerk[a].employee
  IN  /\ clerk[a].write = "role"
      /\ StaffEdit
      /\ staff[e].row = "live"
      /\ staff' = [staff EXCEPT ![e].role = clerk[a].role]
      /\ clerk' = [clerk EXCEPT ![a] = Idling]
      /\ UNCHANGED tellingVars

ClerkFails(a) ==
  /\ clerk[a].write # "nothing"
  /\ clerk' = [clerk EXCEPT ![a] = Idling]
  /\ UNCHANGED <<staff, staffEdits, tellingVars>>

\* Setting the invited employee's password (see Sessions).
Activate(e) ==
  /\ staff[e].row = "live"
  /\ ~staff[e].active
  /\ staff' = [staff EXCEPT ![e].active = TRUE]
  /\ UNCHANGED <<clerk, staffEdits, tellingVars>>

DeleteSoftly(e) ==
  /\ StaffEdit
  /\ staff[e].row = "live"
  /\ staff' = [staff EXCEPT ![e].row = "deleted"]
  /\ UNCHANGED <<clerk, tellingVars>>

\* The employee's notifications go too; a transaction that has inserted one
\* and is still open holds the row until it ends.
HardDeleteEmployee(e) ==
  /\ StaffEdit
  /\ staff[e].row = "deleted"
  /\ \A c \in Tellings : \A n \in telling[c].rows : n.to # e
  /\ staff' = [staff EXCEPT ![e].row = "erased"]
  /\ notices' = {n \in notices : n.to # e}
  /\ UNCHANGED <<clerk, announced, telling>>

-----------------------------------------------------------------------------
(* Telling an outlet *)

ListEmployeesByOutletAndRole(outlet, roles) ==
  {e \in Staff : staff[e].row = "live" /\ staff[e].active
                   /\ staff[e].outlet = outlet /\ staff[e].role \in roles}

\* For a confirmed payment inside its transaction, for a bypass request or a
\* packed order after the commit.
NotifyOutletEmployees(c, outlet, tx) ==
  LET roles == IF tx THEN {"outlet_admin", "driver"} ELSE {"outlet_admin"}
      listed == ListEmployeesByOutletAndRole(outlet, roles)
  IN  /\ telling[c].at = "idle"
      /\ telling' = [telling EXCEPT ![c] =
           [at |-> "telling", tx |-> tx, listed |-> listed, todo |-> listed, rows |-> {}]]
      /\ UNCHANGED <<staff, clerk, staffEdits, notices, announced>>

\* The INSERT, which needs the employee's row, then the event.
NotifyEmployee(c, e) ==
  LET row == [to |-> e, about |-> c, read |-> FALSE]
  IN  /\ telling[c].at = "telling"
      /\ e \in telling[c].todo
      /\ staff[e].row # "erased"
      /\ telling' = [telling EXCEPT ![c].todo = @ \ {e},
           ![c].rows = IF telling[c].tx THEN @ \cup {row} ELSE @]
      /\ notices' = IF telling[c].tx THEN notices ELSE notices \cup {row}
      /\ announced' = announced \cup {[to |-> e, about |-> c]}
      /\ UNCHANGED <<staff, clerk, staffEdits>>

\* Mutant: the error that is ignored aborts nothing.
NotifySkips(c) ==
  /\ telling[c].at = "telling"
  /\ telling[c].todo # {}
  /\ telling' = [telling EXCEPT ![c].todo = {}]
  /\ UNCHANGED <<staff, clerk, staffEdits, notices, announced>>

\* An INSERT fails, for an erased employee or otherwise: the rest of the list
\* is not tried.
NotifyFails(c) ==
  /\ telling[c].at = "telling"
  /\ telling[c].todo # {}
  /\ telling' = [telling EXCEPT ![c].at = IF telling[c].tx THEN "aborted" ELSE "done"]
  /\ UNCHANGED <<staff, clerk, staffEdits, notices, announced>>

NotifyReturns(c) ==
  /\ telling[c].at = "telling"
  /\ telling[c].todo = {}
  /\ notices' = notices \cup telling[c].rows
  /\ telling' = [telling EXCEPT ![c].at = "done", ![c].rows = {}]
  /\ UNCHANGED <<staff, clerk, staffEdits, announced>>

\* COMMIT of an aborted transaction, an error before it, or a crash.
TellingRollsBack(c) ==
  /\ telling[c].tx
  /\ telling[c].at \in {"telling", "aborted"}
  /\ telling' = [telling EXCEPT ![c].at = "undone", ![c].rows = {}]
  /\ UNCHANGED <<staff, clerk, staffEdits, notices, announced>>

MarkEmployeeNotificationRead(n) ==
  /\ n \in notices
  /\ ~n.read
  /\ notices' = (notices \ {n}) \cup {[n EXCEPT !.read = TRUE]}
  /\ UNCHANGED <<staff, clerk, staffEdits, announced, telling>>

MarkAllEmployeeNotificationsRead(e) ==
  /\ notices' = {IF n.to = e THEN [n EXCEPT !.read = TRUE] ELSE n : n \in notices}
  /\ UNCHANGED <<staff, clerk, staffEdits, announced, telling>>

StaffNext ==
  \/ \E a \in Clerks :
       \/ \E e \in Staff :
            \/ \E outlet \in Workplaces \cup {NULL} : AssignEmployeeOutlet(a, e, outlet)
            \/ \E role \in Roles : UpdateEmployeeChecks(a, e, role)
       \/ UpdateEmployeeOutlet(a)
       \/ UpdateEmployeeRole(a)
       \/ ClerkFails(a)
  \/ \E e \in Staff :
       \/ Activate(e)
       \/ DeleteSoftly(e)
       \/ HardDeleteEmployee(e)
       \/ MarkAllEmployeeNotificationsRead(e)
  \/ \E c \in Tellings :
       \/ \E outlet \in Workplaces, tx \in BOOLEAN : NotifyOutletEmployees(c, outlet, tx)
       \/ \E e \in Staff : NotifyEmployee(c, e)
       \/ NotifyFails(c)
       \/ NotifyReturns(c)
       \/ TellingRollsBack(c)
  \/ \E n \in notices : MarkEmployeeNotificationRead(n)

StaffSpec == StaffInit /\ [][StaffNext]_staffVars

-----------------------------------------------------------------------------
(* Safety *)

Told(c) == {n.to : n \in {m \in notices : m.about = c}}

\* A payment is never confirmed with part of the outlet told: once the
\* transaction has committed, everyone on the list has the notification,
\* unless erased since, and was sent the event, though staff was being moved
\* and deleted and every error was ignored; if it did not commit, nobody has
\* it.  Whoever has one was on the list and was sent the event, and keeps one
\* row of it, read or unread.  (applyPaymentStatus, NotifyOutletEmployees.)
OutletIsTold ==
  \A c \in Tellings :
    /\ telling[c].tx /\ telling[c].at = "done" =>
         \A e \in telling[c].listed :
           /\ [to |-> e, about |-> c] \in announced
           /\ e \in Told(c) \/ staff[e].row = "erased"
    /\ telling[c].tx /\ telling[c].at # "done" => Told(c) = {}
    /\ Told(c) \subseteq telling[c].listed
    /\ \A n \in notices : n.about = c =>
         /\ [to |-> n.to, about |-> c] \in announced
         /\ [n EXCEPT !.read = ~n.read] \notin notices
=============================================================================
