------------------------------ MODULE Complaints ------------------------------
(***************************************************************************)
(* internal/order's complaints: a customer files one for an order that was *)
(* received, the outlet's admins work on it.  Every request checks what it *)
(* read and writes later, by the complaint's id; the write and the         *)
(* customer's notification are one transaction, which holds the row's lock *)
(* from its UPDATE on.  The notification carries the time its transaction  *)
(* began, before it waited for the lock, and customers' lists are sorted   *)
(* by that time.  The live event of the notification is left out.          *)
(***************************************************************************)
EXTENDS NullValue, Naturals, FiniteSets

CONSTANTS
  Orders,
  Admins,
  MaxRequests,   \* bound: complaints and reviews in flight
  MaxReviews     \* bound: reviews made

VARIABLES
  order,         \* what the pipeline makes of the order
  complaint,     \* complaints: per order (one_complaint_per_order), status and resolved_by
  filings,       \* CreateComplaint requests past their checks
  reviews,       \* UpdateComplaintStatus requests past their checks
  writing,       \* per order, the transaction that holds the complaint's row
  notifications, \* customer_notifications about the order's complaint
  made,          \* reviews made so far
  begins         \* now(): transactions of reviews begun so far

complaintVars ==
  <<order, complaint, filings, reviews, writing, notifications, made, begins>>

Statuses == {"open", "in_progress", "resolved", "rejected"}
Terminal == {"resolved", "rejected"}

validComplaintTransitions ==
  [open        |-> {"in_progress", "rejected"},
   in_progress |-> {"resolved", "rejected"},
   resolved    |-> {},
   rejected    |-> {}]

NoComplaint == [status |-> "none", resolvedBy |-> NULL]

\* A review, and when its transaction began (0: not yet).
Reviews == [order : Orders, admin : Admins, status : Statuses, begun : Nat]

\* begun is created_at; upto, which no column keeps, is now() at the commit.
Notices == [status : Statuses, begun : Nat, upto : Nat]

ASSUME ComplaintAssumption ==
  /\ MaxRequests \in Nat /\ MaxReviews \in Nat
  /\ NULL \notin Admins /\ NULL \notin Reviews

ComplaintTypeOK ==
  /\ order \in [Orders -> {"delivery_to_customer", "received_by_customer", "completed"}]
  /\ complaint \in [Orders -> [status : Statuses \cup {"none"}, resolvedBy : Admins \cup {NULL}]]
  /\ filings \in SUBSET Orders
  /\ reviews \in SUBSET Reviews
  /\ writing \in [Orders -> Reviews \cup {NULL}]
  /\ notifications \in [Orders -> SUBSET Notices]
  /\ made \in 0..MaxReviews
  /\ begins \in Nat

ComplaintInit ==
  /\ order = [o \in Orders |-> "delivery_to_customer"]
  /\ complaint = [o \in Orders |-> NoComplaint]
  /\ filings = {} /\ reviews = {}
  /\ writing = [o \in Orders |-> NULL]
  /\ notifications = [o \in Orders |-> {}]
  /\ made = 0 /\ begins = 0

-----------------------------------------------------------------------------
\* The pipeline, which knows nothing of complaints, moves the order on.
OrderMoves(o) ==
  /\ \/ order[o] = "delivery_to_customer" /\ order' = [order EXCEPT ![o] = "received_by_customer"]
     \/ order[o] = "received_by_customer" /\ order' = [order EXCEPT ![o] = "completed"]
  /\ UNCHANGED <<complaint, filings, reviews, writing, notifications, made, begins>>

\* CreateComplaint up to the upload of the photos ...
CreateComplaintCheck(o) ==
  /\ Cardinality(filings) + Cardinality(reviews) < MaxRequests
  /\ order[o] = "received_by_customer"
  /\ filings' = filings \cup {o}
  /\ UNCHANGED <<order, complaint, reviews, writing, notifications, made, begins>>

\* ... and the INSERT, which the unique index refuses for a second complaint.
CreateComplaint(o) ==
  /\ o \in filings
  /\ \/ /\ complaint[o].status = "none"
        /\ complaint' = [complaint EXCEPT ![o].status = "open"]
        /\ filings' = filings \ {o}
     \/ /\ complaint[o].status # "none"
        /\ filings' = filings \ {o}
        /\ UNCHANGED complaint
  /\ UNCHANGED <<order, reviews, writing, notifications, made, begins>>

\* UpdateComplaintStatus up to the transaction: the transition is checked
\* against the status read here.
UpdateComplaintCheck(o, a, status) ==
  /\ Cardinality(filings) + Cardinality(reviews) < MaxRequests
  /\ made < MaxReviews
  /\ complaint[o].status # "none"
  /\ status \in validComplaintTransitions[complaint[o].status]
  /\ reviews' = reviews \cup {[order |-> o, admin |-> a, status |-> status, begun |-> 0]}
  /\ made' = made + 1
  /\ UNCHANGED <<order, complaint, filings, writing, notifications, begins>>

\* The transaction begins, which fixes its now() ...
UpdateBegins(r) ==
  /\ r.begun = 0
  /\ begins' = begins + 1
  /\ reviews' = (reviews \ {r}) \cup {[r EXCEPT !.begun = begins']}
  /\ UNCHANGED <<order, complaint, filings, writing, notifications, made>>

\* ... the UPDATE waits for the row and locks it until the end ...
UpdateLocks(r) ==
  /\ r.begun > 0
  /\ writing[r.order] = NULL
  /\ reviews' = reviews \ {r}
  /\ writing' = [writing EXCEPT ![r.order] = r]
  /\ UNCHANGED <<order, complaint, filings, notifications, made, begins>>

\* ... or the request ends before.
UpdateGivenUp(r) ==
  /\ reviews' = reviews \ {r}
  /\ UNCHANGED <<order, complaint, filings, writing, notifications, made, begins>>

\* Mutant: an UPDATE that keeps who resolved the complaint when it has no one.
KeepResolver(c, r) ==
  [status |-> r.status,
   resolvedBy |-> IF r.status \in Terminal THEN r.admin ELSE c.resolvedBy]

\* Mutant: the ids of the request are passed in the wrong order.
WrongResolver(c, r) ==
  [status |-> r.status,
   resolvedBy |-> IF r.status \in Terminal THEN r.order ELSE NULL]

\* resolved_by is written in any case, as NULL unless the review ends it.
Written(c, r) ==
  [status |-> r.status,
   resolvedBy |-> IF r.status \in Terminal THEN r.admin ELSE NULL]

Notice(r) == [status |-> r.status, begun |-> r.begun, upto |-> begins]

\* Mutant: the notification is a best effort after the commit.
CommitWithoutNotice(o) ==
  /\ writing[o] # NULL
  /\ complaint' = [complaint EXCEPT ![o] = Written(@, writing[o])]
  /\ \/ notifications' = [notifications EXCEPT ![o] = @ \cup {Notice(writing[o])}]
     \/ UNCHANGED notifications
  /\ writing' = [writing EXCEPT ![o] = NULL]
  /\ UNCHANGED <<order, filings, reviews, made, begins>>

\* NotifyCustomer inserts the notification; both become visible.
UpdateCommits(o) ==
  /\ writing[o] # NULL
  /\ complaint' = [complaint EXCEPT ![o] = Written(@, writing[o])]
  /\ notifications' = [notifications EXCEPT ![o] = @ \cup {Notice(writing[o])}]
  /\ writing' = [writing EXCEPT ![o] = NULL]
  /\ UNCHANGED <<order, filings, reviews, made, begins>>

\* The commit fails, or the server stops: everything is undone.
UpdateRollsBack(o) ==
  /\ writing[o] # NULL
  /\ writing' = [writing EXCEPT ![o] = NULL]
  /\ UNCHANGED <<order, complaint, filings, reviews, notifications, made, begins>>

ComplaintNext ==
  \/ \E o \in Orders :
       \/ OrderMoves(o)
       \/ CreateComplaintCheck(o) \/ CreateComplaint(o)
       \/ \E a \in Admins, status \in Statuses : UpdateComplaintCheck(o, a, status)
       \/ UpdateCommits(o) \/ UpdateRollsBack(o)
  \/ \E r \in reviews : UpdateBegins(r) \/ UpdateLocks(r) \/ UpdateGivenUp(r)

ComplaintSpec == ComplaintInit /\ [][ComplaintNext]_complaintVars

-----------------------------------------------------------------------------
\* Whichever reviews commit in whichever order, a notification tells the
\* complaint's status, and a new complaint has none.  It is the newest of the
\* customer's list, but for those of reviews whose transactions began while
\* its own waited for the row, or held it.
NewestNoticeIsStatus ==
  \A o \in Orders :
    IF complaint[o].status \in {"none", "open"}
    THEN notifications[o] = {}
    ELSE \E n \in notifications[o] :
           /\ n.status = complaint[o].status
           /\ \A m \in notifications[o] : m.begun > n.begun => m.begun <= n.upto

\* Somebody answers for a complaint that has ended, and nobody for one that is
\* being worked on (again).
ResolverMatchesStatus ==
  \A o \in Orders : complaint[o].resolvedBy # NULL <=> complaint[o].status \in Terminal

=============================================================================
