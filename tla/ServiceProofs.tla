---------------------------- MODULE ServiceProofs ----------------------------
(***************************************************************************)
(* Complaints, addresses and live events, for any orders, admins, requests *)
(* and streams, and that MCServices, which TLC runs, composes them with    *)
(* MCWorkday.                                                              *)
(***************************************************************************)
EXTENDS MCServices, WorkdayProofs, FiniteSetTheorems, WellFoundedInduction, TLAPS

-----------------------------------------------------------------------------
(* Complaints.  Whatever order the reviews of a complaint commit in, the   *)
(* last of them has left the notification that tells its status, and its   *)
(* resolver is set exactly when it has ended: no review on its way would   *)
(* reopen it as "open", which the check established long before the write, *)
(* and none that committed before began after.                             *)

ReviewsMoveOn ==
  /\ \A r \in reviews : r.status # "open"
  /\ \A o \in Orders : writing[o] # NULL => writing[o].status # "open"

\* Nothing began in the future.
BegunByNow ==
  /\ \A r \in reviews : r.begun <= begins
  /\ \A o \in Orders : writing[o] # NULL => writing[o].begun <= begins
  /\ \A o \in Orders : \A m \in notifications[o] : m.begun <= begins

ComplaintInv ==
  /\ ComplaintTypeOK
  /\ ReviewsMoveOn
  /\ BegunByNow
  /\ NewestNoticeIsStatus
  /\ ResolverMatchesStatus

\* The check of a review never lets a request for "open" through.
LEMMA NeverBackToOpen ==
  ASSUME NEW s \in Statuses, NEW t \in validComplaintTransitions[s]
  PROVE  t \in Statuses /\ t # "open"
BY DEF validComplaintTransitions, Statuses

\* What a commit writes is a complaint, resolved by somebody iff it has ended.
LEMMA WrittenType ==
  ASSUME NEW c, NEW r \in Reviews
  PROVE  /\ Written(c, r) \in [status : Statuses \cup {"none"}, resolvedBy : Admins \cup {NULL}]
         /\ Written(c, r).status = r.status
         /\ Written(c, r).resolvedBy # NULL <=> r.status \in Terminal
BY ComplaintAssumption DEF Written, Reviews

LEMMA ComplaintInitInv == ComplaintInit => ComplaintInv
BY ComplaintAssumption DEF ComplaintInit, ComplaintInv, ComplaintTypeOK, ReviewsMoveOn,
   BegunByNow, NewestNoticeIsStatus, ResolverMatchesStatus, NoComplaint, Terminal, Reviews

LEMMA ComplaintStepInv == ComplaintInv /\ [ComplaintNext]_complaintVars => ComplaintInv'
<1> SUFFICES ASSUME ComplaintInv, [ComplaintNext]_complaintVars PROVE ComplaintInv'
  OBVIOUS
<1> USE ComplaintAssumption
<1> USE DEF ComplaintInv
\* A step that leaves complaints and notifications alone.
<1>0. ASSUME ComplaintTypeOK', ReviewsMoveOn', BegunByNow', UNCHANGED <<complaint, notifications>>
      PROVE  ComplaintInv'
  BY <1>0 DEF NewestNoticeIsStatus, ResolverMatchesStatus
<1>1. ASSUME NEW o \in Orders, OrderMoves(o) PROVE ComplaintInv'
  BY <1>0, <1>1 DEF OrderMoves, ComplaintTypeOK, ReviewsMoveOn, BegunByNow
<1>2. ASSUME NEW o \in Orders, CreateComplaintCheck(o) PROVE ComplaintInv'
  BY <1>0, <1>2 DEF CreateComplaintCheck, ComplaintTypeOK, ReviewsMoveOn, BegunByNow
<1>3. ASSUME NEW o \in Orders, CreateComplaint(o) PROVE ComplaintInv'
  <2>1. CASE complaint[o].status = "none"
    <3> DEFINE d == [complaint[o] EXCEPT !.status = "open"]
    <3>1. /\ d \in [status : Statuses \cup {"none"}, resolvedBy : Admins \cup {NULL}]
          /\ d.status = "open" /\ d.resolvedBy = complaint[o].resolvedBy
      BY DEF Statuses, ComplaintTypeOK
    <3>2. complaint' = [complaint EXCEPT ![o] = d]
      BY <1>3, <2>1 DEF CreateComplaint
    <3>3. /\ filings' = filings \ {o}
          /\ UNCHANGED <<order, reviews, writing, notifications, made, begins>>
      BY <1>3 DEF CreateComplaint
    <3> HIDE DEF d
    <3>4. complaint'[o] = d /\ \A p \in Orders \ {o} : complaint'[p] = complaint[p]
      BY <3>2 DEF ComplaintTypeOK
    <3>5. ComplaintTypeOK'
      BY <3>1, <3>2, <3>3 DEF ComplaintTypeOK
    <3>6. ReviewsMoveOn' /\ BegunByNow'
      BY <3>3 DEF ReviewsMoveOn, BegunByNow
    <3>7. NewestNoticeIsStatus'
      BY <2>1, <3>1, <3>3, <3>4 DEF NewestNoticeIsStatus
    <3>8. ResolverMatchesStatus'
      BY ZenonT(40), <2>1, <3>1, <3>4 DEF ResolverMatchesStatus, Terminal
    <3> QED BY <3>5, <3>6, <3>7, <3>8
  <2>2. CASE complaint[o].status # "none"
    BY <1>0, <1>3, <2>2 DEF CreateComplaint, ComplaintTypeOK, ReviewsMoveOn, BegunByNow
  <2> QED BY <2>1, <2>2
<1>4. ASSUME NEW o \in Orders, NEW a \in Admins, NEW s \in Statuses,
             UpdateComplaintCheck(o, a, s)
      PROVE  ComplaintInv'
  <2> DEFINE r == [order |-> o, admin |-> a, status |-> s, begun |-> 0]
  <2>1. s # "open"
    <3>1. complaint[o].status \in Statuses
      BY <1>4 DEF UpdateComplaintCheck, ComplaintTypeOK, validComplaintTransitions
    <3> QED
      BY <1>4, <3>1, NeverBackToOpen DEF UpdateComplaintCheck
  <2>2. /\ r \in Reviews /\ r.status # "open" /\ r.begun <= begins
        /\ reviews' = reviews \cup {r}
        /\ UNCHANGED <<order, complaint, filings, writing, notifications, begins>>
    BY <1>4, <2>1 DEF UpdateComplaintCheck, Reviews, ComplaintTypeOK
  <2> HIDE DEF r
  <2>3. ComplaintTypeOK'
    BY <1>4, <2>2 DEF UpdateComplaintCheck, ComplaintTypeOK
  <2>4. ReviewsMoveOn' /\ BegunByNow'
    BY <2>2 DEF ReviewsMoveOn, BegunByNow
  <2> QED BY <1>0, <2>2, <2>3, <2>4
<1>5. ASSUME NEW r \in reviews, UpdateBegins(r) PROVE ComplaintInv'
  <2> DEFINE b == [r EXCEPT !.begun = begins + 1]
  <2>1. r \in Reviews /\ begins \in Nat
    BY DEF ComplaintTypeOK
  <2>2. /\ b \in Reviews /\ b.status = r.status /\ b.begun = begins + 1
        /\ begins' = begins + 1 /\ reviews' = (reviews \ {r}) \cup {b}
        /\ UNCHANGED <<order, complaint, filings, writing, notifications, made>>
    BY <1>5, <2>1 DEF UpdateBegins, Reviews
  <2> HIDE DEF b
  <2>3. ComplaintTypeOK'
    BY <2>1, <2>2 DEF ComplaintTypeOK
  <2>4. ReviewsMoveOn'
    BY <2>2 DEF ReviewsMoveOn
  <2>5. \A n \in Nat : n <= begins => n <= begins + 1
    BY <2>1
  <2>6. /\ \A x \in reviews : x.begun \in Nat
        /\ \A o \in Orders : writing[o] # NULL => writing[o].begun \in Nat
        /\ \A o \in Orders : \A m \in notifications[o] : m.begun \in Nat
    BY DEF ComplaintTypeOK, Reviews, Notices
  <2>7. BegunByNow'
    BY <2>1, <2>2, <2>5, <2>6 DEF BegunByNow
  <2> QED BY <1>0, <2>2, <2>3, <2>4, <2>7
<1>6. ASSUME NEW r \in reviews, UpdateLocks(r) PROVE ComplaintInv'
  <2>1. r \in Reviews /\ r.order \in Orders
    BY DEF Reviews, ComplaintTypeOK
  <2>2. ComplaintTypeOK'
    BY <1>6, <2>1 DEF UpdateLocks, ComplaintTypeOK
  <2>3. ReviewsMoveOn' /\ BegunByNow'
    BY <1>6, <2>1 DEF UpdateLocks, ReviewsMoveOn, BegunByNow, ComplaintTypeOK
  <2> QED BY <1>0, <1>6, <2>2, <2>3 DEF UpdateLocks
<1>7. ASSUME NEW r \in reviews, UpdateGivenUp(r) PROVE ComplaintInv'
  BY <1>0, <1>7 DEF UpdateGivenUp, ComplaintTypeOK, ReviewsMoveOn, BegunByNow
<1>8. ASSUME NEW o \in Orders, UpdateCommits(o) PROVE ComplaintInv'
  <2> DEFINE r == writing[o]
             n == Notice(r)
  <2>1. r \in Reviews /\ r.status \in Statuses /\ r.status # "open" /\ r.begun <= begins
    BY <1>8 DEF UpdateCommits, Reviews, ReviewsMoveOn, BegunByNow, ComplaintTypeOK
  <2>2. complaint' = [complaint EXCEPT ![o] = Written(complaint[o], r)]
    BY <1>8 DEF UpdateCommits
  <2>3. /\ complaint'[o] = Written(complaint[o], r)
        /\ \A p \in Orders \ {o} : complaint'[p] = complaint[p]
    BY <2>2 DEF ComplaintTypeOK
  <2>4. /\ notifications' = [notifications EXCEPT ![o] = @ \cup {n}]
        /\ writing' = [writing EXCEPT ![o] = NULL]
        /\ UNCHANGED <<order, filings, reviews, made, begins>>
    BY <1>8 DEF UpdateCommits
  <2>5. /\ n \in Notices /\ n.status = r.status /\ n.begun = r.begun /\ n.upto = begins
    BY <2>1 DEF Notice, Notices, Reviews, ComplaintTypeOK
  <2> HIDE DEF r, n
  <2>6. /\ notifications'[o] = notifications[o] \cup {n}
        /\ \A p \in Orders \ {o} : notifications'[p] = notifications[p]
    BY <2>4 DEF ComplaintTypeOK
  <2>7. ComplaintTypeOK'
    <3>1. Written(complaint[o], r) \in [status : Statuses \cup {"none"}, resolvedBy : Admins \cup {NULL}]
      BY <2>1, WrittenType
    <3>2. complaint' \in [Orders -> [status : Statuses \cup {"none"}, resolvedBy : Admins \cup {NULL}]]
      BY <2>2, <3>1 DEF ComplaintTypeOK
    <3>3. notifications' \in [Orders -> SUBSET Notices]
      BY <2>4, <2>5 DEF ComplaintTypeOK
    <3> QED BY <2>4, <3>2, <3>3 DEF ComplaintTypeOK
  <2>8. ReviewsMoveOn'
    BY <2>4 DEF ReviewsMoveOn
  <2>9. BegunByNow'
    BY <2>1, <2>4, <2>5, <2>6 DEF BegunByNow
  <2>10. NewestNoticeIsStatus'
    <3>1. complaint'[o].status = n.status /\ n.status \notin {"none", "open"}
      BY <2>1, <2>3, <2>5, WrittenType DEF Statuses
    <3>2. n \in notifications'[o] /\ \A m \in notifications'[o] : m.begun <= n.upto
      BY <2>1, <2>5, <2>6 DEF BegunByNow
    <3>3. \A p \in Orders \ {o} : /\ complaint'[p] = complaint[p]
                                  /\ notifications'[p] = notifications[p]
      BY <2>3, <2>6
    <3> QED BY <3>1, <3>2, <3>3 DEF NewestNoticeIsStatus
  <2>11. ResolverMatchesStatus'
    BY <2>1, <2>3, WrittenType DEF ResolverMatchesStatus
  <2> QED BY <2>7, <2>8, <2>9, <2>10, <2>11
<1>9. ASSUME NEW o \in Orders, UpdateRollsBack(o) PROVE ComplaintInv'
  BY <1>0, <1>9 DEF UpdateRollsBack, ComplaintTypeOK, ReviewsMoveOn, BegunByNow
<1>10. CASE UNCHANGED complaintVars
  BY <1>0, <1>10 DEF complaintVars, ComplaintTypeOK, ReviewsMoveOn, BegunByNow
<1> QED
  BY <1>1, <1>2, <1>3, <1>4, <1>5, <1>6, <1>7, <1>8, <1>9, <1>10 DEF ComplaintNext

LEMMA ComplaintInvHolds == ComplaintSpec => []ComplaintInv
BY ComplaintInitInv, ComplaintStepInv, PTL DEF ComplaintSpec

\* Complaints, requests and notices keep their types.
THEOREM ComplaintTypeCorrect == ComplaintSpec => []ComplaintTypeOK
BY ComplaintInvHolds, PTL DEF ComplaintInv

\* A notification tells the complaint's status (UpdateComplaintStatus and
\* NotifyCustomer, in one transaction), and only reviews that overlapped its
\* own are listed above it.
THEOREM NewestNoticeIsStatusHolds == ComplaintSpec => []NewestNoticeIsStatus
BY ComplaintInvHolds, PTL DEF ComplaintInv

\* A complaint has a resolver exactly while it is resolved or rejected, even if
\* a late review reopens it.
THEOREM ResolverMatchesStatusHolds == ComplaintSpec => []ResolverMatchesStatus
BY ComplaintInvHolds, PTL DEF ComplaintInv
-----------------------------------------------------------------------------
(* Addresses.  However requests overlap and stop half-way, the unique index *)
(* leaves a customer one primary address at most.                          *)

RequestRows == [at : Phases \cup {"idle"}, id : Ids \cup {NULL}, flag : BOOLEAN, seen : SUBSET Ids]

AddressInv ==
  /\ addresses \subseteq Ids /\ primary \subseteq addresses
  /\ \A x, y \in primary : x = y
  /\ created \in 0..MaxAddresses /\ failures \in 0..MaxFailures
  /\ request \in [Requests -> RequestRows]
  /\ \A r \in Requests : request[r].at = "idle" => request[r] = None

\* Of some addresses one is the last: what is not before it grows with each
\* that comes before.
LEMMA MostRecentIsOne ==
  ASSUME addresses \subseteq Ids, addresses # {}
  PROVE  GetMostRecentAddress \in addresses
<1> DEFINE After == {a..MaxAddresses : a \in addresses}
           R == StrictSubsetOrdering(Nat)
<1>1. After \subseteq FiniteSubsetsOf(Nat) /\ After # {}
  <2>1. \A a \in addresses : IsFiniteSet(a..MaxAddresses) /\ a..MaxAddresses \subseteq Nat
    BY FS_Interval, AddressAssumption DEF Ids
  <2> QED
    BY <2>1 DEF FiniteSubsetsOf
<1> HIDE DEF After
<1>2. PICK b \in After : \A c \in After : ~ (<<c, b>> \in R)
  BY <1>1, FS_StrictSubsetOrderingWellFounded, WFMin
<1>3. PICK a \in addresses : b = a..MaxAddresses
  BY <1>2 DEF After
<1>4. ASSUME NEW d \in addresses PROVE d <= a
  <2>1. SUFFICES ASSUME a < d PROVE FALSE
    BY AddressAssumption DEF Ids
  <2>2. d..MaxAddresses \in After
    BY DEF After
  <2>3. d..MaxAddresses \subseteq a..MaxAddresses /\ d..MaxAddresses # a..MaxAddresses
    BY <2>1, AddressAssumption DEF Ids
  <2>4. d..MaxAddresses \subseteq Nat /\ a..MaxAddresses \subseteq Nat
    BY AddressAssumption DEF Ids
  <2>5. <<d..MaxAddresses, b>> \in R
    BY <1>3, <2>3, <2>4 DEF StrictSubsetOrdering
  <2> QED
    BY <1>2, <2>2, <2>5
<1> QED
  BY <1>4 DEF GetMostRecentAddress

LEMMA RequestGoes ==
  ASSUME AddressInv, NEW r \in Requests, NEW at \in Phases, NEW id \in Ids \cup {NULL},
         NEW flag \in BOOLEAN, NEW seen \in SUBSET Ids, Goes(r, at, id, flag, seen)
  PROVE  /\ request' \in [Requests -> RequestRows]
         /\ \A q \in Requests : request'[q].at = "idle" => request'[q] = None
<1>1. [at |-> at, id |-> id, flag |-> flag, seen |-> seen] \in RequestRows /\ at # "idle"
  BY DEF RequestRows, Phases
<1> QED
  BY <1>1 DEF AddressInv, Goes

LEMMA RequestEnds ==
  ASSUME AddressInv, NEW r \in Requests, Ends(r)
  PROVE  /\ request' \in [Requests -> RequestRows]
         /\ \A q \in Requests : request'[q].at = "idle" => request'[q] = None
<1>1. None \in RequestRows
  BY DEF None, RequestRows
<1> QED
  BY <1>1 DEF AddressInv, Ends

LEMMA AddressStepInv == AddressInv /\ [AddressNext]_addressVars => AddressInv'
<1> SUFFICES ASSUME AddressInv, [AddressNext]_addressVars PROVE AddressInv'
  OBVIOUS
<1> DEFINE RowsKept == /\ request' \in [Requests -> RequestRows]
                       /\ \A q \in Requests : request'[q].at = "idle" => request'[q] = None
<1>1. CASE UNCHANGED addressVars
  BY <1>1 DEF addressVars, AddressInv
<1>2. ASSUME NEW r \in Requests,
             \/ CreateAddressCheck(r)
             \/ \E a \in Ids : SetPrimaryCheck(r, a) \/ DeleteAddressCheck(r, a)
             \/ UnsetPrimaryAddresses(r)
      PROVE  AddressInv'
  <2>1. {} \in SUBSET Ids /\ primary \in SUBSET Ids /\ request[r].id \in Ids \cup {NULL}
    BY DEF AddressInv, RequestRows
  <2>2. UNCHANGED <<addresses, primary, created, failures>>
    BY <1>2 DEF CreateAddressCheck, SetPrimaryCheck, DeleteAddressCheck, UnsetPrimaryAddresses
  <2>3. CASE CreateAddressCheck(r)
    <3>1. Goes(r, "insert", NULL, addresses = {}, {}) /\ (addresses = {}) \in BOOLEAN /\ "insert" \in Phases
      BY <2>3 DEF CreateAddressCheck, Phases
    <3>2. RowsKept
      BY <2>1, <3>1, RequestGoes
    <3> QED
      BY <2>2, <3>2 DEF AddressInv
  <2>4. ASSUME NEW a \in Ids, SetPrimaryCheck(r, a) PROVE AddressInv'
    <3>1. Goes(r, "promote", a, FALSE, {}) /\ "promote" \in Phases
      BY <2>4 DEF SetPrimaryCheck, Phases
    <3>2. RowsKept
      BY <2>1, <3>1, RequestGoes
    <3> QED
      BY <2>2, <3>2 DEF AddressInv
  <2>5. ASSUME NEW a \in Ids, DeleteAddressCheck(r, a) PROVE AddressInv'
    <3>1. Goes(r, "delete", a, a \in primary, {}) /\ (a \in primary) \in BOOLEAN /\ "delete" \in Phases
      BY <2>5 DEF DeleteAddressCheck, Phases
    <3>2. RowsKept
      BY <2>1, <3>1, RequestGoes
    <3> QED
      BY <2>2, <3>2 DEF AddressInv
  <2>6. CASE UnsetPrimaryAddresses(r)
    <3>1. Goes(r, "set", request[r].id, FALSE, primary) /\ "set" \in Phases
      BY <2>6 DEF UnsetPrimaryAddresses, Phases
    <3>2. RowsKept
      BY <2>1, <3>1, RequestGoes
    <3> QED
      BY <2>2, <3>2 DEF AddressInv
  <2> QED
    BY <1>2, <2>3, <2>4, <2>5, <2>6
<1>3. ASSUME NEW r \in Requests, CreateAddressReadFails(r) \/ RequestFails(r) PROVE AddressInv'
  <2>1. failures' \in 0..MaxFailures /\ UNCHANGED <<addresses, primary, created>>
    <3>1. /\ failures < MaxFailures /\ failures' = failures + 1
          /\ UNCHANGED <<addresses, primary, created>>
      BY <1>3 DEF CreateAddressReadFails, RequestFails
    <3> QED
      BY <3>1, AddressAssumption DEF AddressInv
  <2>2. RowsKept
    <3>1. "insert" \in Phases /\ {} \in SUBSET Ids
      BY DEF Phases
    <3> QED
      BY <1>3, <3>1, RequestGoes, RequestEnds DEF CreateAddressReadFails, RequestFails
  <2> QED
    BY <2>1, <2>2 DEF AddressInv
<1>4. ASSUME NEW r \in Requests, NEW isPrimary \in BOOLEAN, InsertAddress(r, isPrimary)
      PROVE  AddressInv'
  <2>1. created' \in 0..MaxAddresses /\ created + 1 \in Ids /\ addresses' = addresses \cup {created + 1}
    BY <1>4, AddressAssumption DEF InsertAddress, AddressInv, Ids
  <2>2. UNCHANGED failures /\ (primary' = {created + 1} \/ UNCHANGED primary)
    BY <1>4 DEF InsertAddress
  <2>3. RowsKept
    <3>1. "promote" \in Phases /\ {} \in SUBSET Ids
      BY DEF Phases
    <3>2. Ends(r) \/ Goes(r, "promote", created + 1, FALSE, {})
      BY <1>4 DEF InsertAddress
    <3> QED
      BY <2>1, <3>1, <3>2, RequestGoes, RequestEnds
  <2> QED
    BY <2>1, <2>2, <2>3 DEF AddressInv
<1>5. ASSUME NEW r \in Requests, InsertRefused(r) \/ PromoteRollsBack(r) PROVE AddressInv'
  <2>1. RowsKept
    BY <1>5, RequestEnds DEF InsertRefused, PromoteRollsBack
  <2> QED
    BY <1>5, <2>1 DEF InsertRefused, PromoteRollsBack, AddressInv
<1>6. ASSUME NEW r \in Requests, PromoteCommits(r) PROVE AddressInv'
  <2>1. RowsKept
    BY <1>6, RequestEnds DEF PromoteCommits
  <2> QED
    BY <1>6, <2>1 DEF PromoteCommits, AddressInv
<1>7. ASSUME NEW r \in Requests, DeleteAddress(r) PROVE AddressInv'
  <2>1. RowsKept
    <3>1. "pick" \in Phases /\ {} \in SUBSET Ids
      BY DEF Phases
    <3>2. Ends(r) \/ Goes(r, "pick", NULL, FALSE, {})
      BY <1>7 DEF DeleteAddress
    <3> QED
      BY <3>1, <3>2, RequestGoes, RequestEnds
  <2> QED
    BY <1>7, <2>1 DEF DeleteAddress, AddressInv
<1>8. ASSUME NEW r \in Requests, PickSuccessor(r) PROVE AddressInv'
  <2>1. RowsKept
    <3>1. "promote" \in Phases /\ {} \in SUBSET Ids
      BY DEF Phases
    <3>2. CASE addresses = {}
      BY <1>8, <3>2, RequestEnds DEF PickSuccessor
    <3>3. CASE addresses # {}
      <4>1. GetMostRecentAddress \in Ids
        BY <3>3, MostRecentIsOne DEF AddressInv
      <4>2. Goes(r, "promote", GetMostRecentAddress, FALSE, {})
        BY <1>8, <3>3 DEF PickSuccessor
      <4> HIDE DEF RowsKept
      <4> QED
        BY <3>1, <4>1, <4>2, RequestGoes DEF RowsKept
    <3> QED
      BY <3>2, <3>3
  <2> QED
    BY <1>8, <2>1 DEF PickSuccessor, AddressInv
<1> QED
  BY <1>1, <1>2, <1>3, <1>4, <1>5, <1>6, <1>7, <1>8 DEF AddressNext

\* Whatever requests of a customer overlap, fail or stop: one of the addresses
\* at most is the primary one, it is there, and every request under way is at a
\* step of its own with the id of an address.
THEOREM AddressTypeCorrect == AddressSpec => []AddressTypeOK
<1>1. AddressInit => AddressInv
  <2>1. None \in RequestRows
    BY DEF None, RequestRows
  <2> QED
    BY <2>1, AddressAssumption DEF AddressInit, AddressInv
<1>2. AddressInv => AddressTypeOK
  <2> SUFFICES ASSUME AddressInv PROVE AddressTypeOK
    OBVIOUS
  <2>1. Cardinality(primary) <= 1
    <3>1. CASE primary = {}
      BY <3>1, FS_EmptySet
    <3>2. CASE primary # {}
      <4>1. PICK x \in primary : primary = {x}
        <5>1. PICK x \in primary : TRUE
          BY <3>2
        <5>2. primary = {x}
          BY <5>1 DEF AddressInv
        <5> QED
          BY <5>2
      <4> QED
        BY <4>1, FS_Singleton
    <3> QED
      BY <3>1, <3>2
  <2>2. ASSUME NEW r \in Requests
        PROVE  request[r] \in {None} \cup
                 [at : Phases, id : Ids \cup {NULL}, flag : BOOLEAN, seen : SUBSET Ids]
    <3>1. CASE request[r].at = "idle"
      BY <3>1 DEF AddressInv
    <3>2. CASE request[r].at # "idle"
      BY <3>2 DEF AddressInv, RequestRows
    <3> QED
      BY <3>1, <3>2
  <2> QED
    BY <2>1, <2>2 DEF AddressTypeOK, AddressInv
<1> QED
  BY <1>1, <1>2, AddressStepInv, PTL DEF AddressSpec

\* Of the statements that write the primary address, only a deletion leaves none,
\* and that of a request whose row has been chosen before deletes that row only.
THEOREM PrimaryLostByDeletionOnlyHolds == AddressSpec => PrimaryLostByDeletionOnly
<1>1. [AddressNext]_addressVars =>
        [primary # {} /\ primary' = {} => primary \cap addresses' = {}]_addressVars
  <2> SUFFICES ASSUME AddressNext, primary # {}, primary' = {} PROVE primary \cap addresses' = {}
    OBVIOUS
  <2>1. PICK r \in Requests : DeleteAddress(r)
    BY DEF AddressNext, CreateAddressCheck, CreateAddressReadFails, InsertAddress, InsertRefused,
       SetPrimaryCheck, DeleteAddressCheck, UnsetPrimaryAddresses, PromoteCommits,
       PromoteRollsBack, PickSuccessor, RequestFails
  <2> QED
    BY <2>1 DEF DeleteAddress
<1> QED
  BY <1>1, PTL DEF AddressSpec, PrimaryLostByDeletionOnly

-----------------------------------------------------------------------------
(* Live events.  No event is sent on a closed Go channel, although a       *)
(* stream closes its channels after it has given the lock back: a          *)
(* broadcaster that is sending keeps every writer out, so its receivers    *)
(* are still registered, and a registered channel has not been closed.     *)

\* Readers and the writer exclude each other, and a broadcast under way still
\* has only registered receivers.
ReadersFreeze ==
  \A b \in Readers :
    /\ writer = NULL
    /\ broadcast[b].todo \subseteq subs[broadcast[b].channel]

\* A stream is registered only for channels it still has to leave while it
\* leaves, and for none before it connects and after it has gone.
LeaversAreListed ==
  \A s \in Streams, c \in Channels : s \in subs[c] =>
    /\ stream[s].at \in {"subscribing", "reading", "leaving"}
    /\ stream[s].at = "leaving" => c \in stream[s].todo

\* A registered channel is open and not about to be closed; a stream that has
\* not begun to leave has closed nothing.
RegisteredIsOpen ==
  \A s \in Streams :
    /\ \A c \in Channels : s \in subs[c] => c \notin closed[s] /\ closing[s] # c
    /\ stream[s].at \in {"off", "subscribing", "reading"} => closed[s] = {} /\ closing[s] = NULL

EventInv == EventTypeOK /\ ReadersFreeze /\ LeaversAreListed /\ RegisteredIsOpen

\* What an event read or sent makes of a buffer.
LEMMA TailOfBuffer ==
  ASSUME NEW n \in Nat, NEW q \in Seq(1..n), q # <<>>
  PROVE  Tail(q) \in Seq(1..n)
OBVIOUS

LEMMA AppendToBuffer ==
  ASSUME NEW n \in Nat, NEW q \in Seq(1..n), NEW x \in 1..n
  PROVE  Append(q, x) \in Seq(1..n)
OBVIOUS

LEMMA UpdateBuffer ==
  ASSUME NEW f \in [Streams -> [Channels -> Seq(1..MaxEvents)]],
         NEW s \in Streams, NEW c \in Channels, NEW q \in Seq(1..MaxEvents),
         NEW g, g = [f EXCEPT ![s] = [f[s] EXCEPT ![c] = q]]
  PROVE  g \in [Streams -> [Channels -> Seq(1..MaxEvents)]]
OBVIOUS

\* Where a stream may be, and what a broadcaster may be doing.
Positions == [at : {"off", "subscribing", "reading", "leaving", "gone"}, todo : SUBSET Channels]
Sendings == [at : {"locking", "sending"}, channel : Channels, event : 1..MaxEvents,
             todo : SUBSET Streams]

\* One stream moves, or one broadcaster.
LEMMA MoveStream ==
  ASSUME NEW f \in [Streams -> Positions], NEW s \in Streams, NEW p \in Positions
  PROVE  [f EXCEPT ![s] = p] \in [Streams -> Positions]
OBVIOUS

LEMMA MoveBroadcast ==
  ASSUME NEW f \in [Broadcasters -> {Silent} \cup Sendings], NEW b \in Broadcasters,
         NEW p \in Sendings
  PROVE  [f EXCEPT ![b] = p] \in [Broadcasters -> {Silent} \cup Sendings]
OBVIOUS

LEMMA InitEventInv == EventInit => EventInv
BY BroadcasterAssumption
DEF EventInit, EventInv, EventTypeOK, ReadersFreeze, LeaversAreListed, RegisteredIsOpen, Readers, Silent

LEMMA StepEventInv == EventInv /\ [EventNext]_eventVars => EventInv'
<1> SUFFICES ASSUME EventInv, [EventNext]_eventVars PROVE EventInv'
  OBVIOUS
<1> USE BroadcasterAssumption DEF EventInv
<1>1. ASSUME NEW s \in Streams, NEW channels \in SUBSET Channels, Connect(s, channels)
      PROVE  EventInv'
  BY <1>1 DEF Connect, lockVars, EventTypeOK, ReadersFreeze, LeaversAreListed, RegisteredIsOpen, Readers
<1>2. ASSUME NEW s \in Streams, Leave(s) PROVE EventInv'
  BY <1>2 DEF Leave, lockVars, EventTypeOK, ReadersFreeze, LeaversAreListed, RegisteredIsOpen, Readers
<1>3. ASSUME NEW s \in Streams, WaitForLock(s) PROVE EventInv'
  BY <1>3 DEF WaitForLock, EventTypeOK, ReadersFreeze, LeaversAreListed, RegisteredIsOpen, Readers
<1>4. ASSUME NEW s \in Streams, Lock(s) PROVE EventInv'
  BY <1>4 DEF Lock, EventTypeOK, ReadersFreeze, LeaversAreListed, RegisteredIsOpen, Readers
<1>5. ASSUME NEW s \in Streams, Close(s) PROVE EventInv'
  <2> DEFINE at == IF stream[s].todo = {} THEN "gone" ELSE stream[s].at
  <2>1. /\ closing[s] \in Channels
        /\ stream[s].at \in {"leaving", "gone"}
    BY <1>5 DEF Close, EventTypeOK, RegisteredIsOpen
  <2> DEFINE next == [stream[s] EXCEPT !.at = at]
  <2>2. stream[s] \in Positions
    BY DEF EventTypeOK, Positions
  <2>3. next \in Positions /\ next.at \in {"leaving", "gone"}
    <3> HIDE DEF EventInv
    <3> QED BY <2>1, <2>2 DEF Positions
  <2>4. stream' = [stream EXCEPT ![s] = next]
    BY <1>5 DEF Close
  <2> HIDE DEF next
  <2>5. EventTypeOK'
    <3>1. stream' \in [Streams -> Positions]
      BY <2>3, <2>4, MoveStream DEF EventTypeOK, Positions
    <3>2. \A c \in Channels : \A u \in subs'[c] : stream'[u].at \notin {"off", "gone"}
      BY <1>5, <2>1, <2>2, <2>4 DEF Close, EventTypeOK, LeaversAreListed, next, Positions
    <3>3. /\ closed' \in [Streams -> SUBSET Channels]
          /\ closing' \in [Streams -> Channels \cup {NULL}]
      BY <1>5, <2>1 DEF Close, EventTypeOK
    <3>4. UNCHANGED <<subs, buffer, broadcast, lockVars, events>>
      BY <1>5 DEF Close
    <3> QED
      BY ZenonT(40), <3>1, <3>2, <3>3, <3>4 DEF lockVars, EventTypeOK, Positions
  <2>6. ReadersFreeze'
    BY <1>5 DEF Close, lockVars, ReadersFreeze, Readers
  <2>7. RegisteredIsOpen'
    BY <1>5, <2>1, <2>3, <2>4 DEF Close, lockVars, EventTypeOK, RegisteredIsOpen
  <2>8. LeaversAreListed'
    BY <1>5, <2>1, <2>2, <2>4 DEF Close, EventTypeOK, LeaversAreListed, next, Positions
  <2> QED
    BY <2>5, <2>6, <2>7, <2>8
<1>6. ASSUME NEW s \in Streams, NEW c \in Channels, Subscribe(s, c) PROVE EventInv'
  BY <1>6 DEF Subscribe, EventTypeOK, ReadersFreeze, LeaversAreListed, RegisteredIsOpen, Readers
<1>7. ASSUME NEW s \in Streams, NEW c \in Channels, Unsubscribe(s, c) PROVE EventInv'
  BY <1>7 DEF Unsubscribe, EventTypeOK, ReadersFreeze, LeaversAreListed, RegisteredIsOpen, Readers
<1>8. ASSUME NEW s \in Streams, NEW c \in Channels, Receive(s, c) PROVE EventInv'
  <2> DEFINE q == Tail(buffer[s][c])
  <2>1. buffer[s][c] \in Seq(1..MaxEvents) /\ buffer[s][c] # <<>>
    BY <1>8 DEF Receive, EventTypeOK
  <2>2. q \in Seq(1..MaxEvents)
    <3>1. MaxEvents \in Nat
      OBVIOUS
    <3> HIDE DEF EventInv
    <3> QED BY <2>1, <3>1, TailOfBuffer
  <2>3. buffer' = [buffer EXCEPT ![s] = [buffer[s] EXCEPT ![c] = q]]
    BY <1>8 DEF Receive
  <2> HIDE DEF q
  <2>4. buffer' \in [Streams -> [Channels -> Seq(1..MaxEvents)]]
    BY <2>2, <2>3, UpdateBuffer DEF EventTypeOK
  <2> QED
    BY <1>8, <2>4 DEF Receive, lockVars, EventTypeOK, ReadersFreeze, LeaversAreListed, RegisteredIsOpen, Readers
<1>9. ASSUME NEW b \in Broadcasters, NEW c \in Channels, Broadcast(b, c) PROVE EventInv'
  BY <1>9 DEF Broadcast, lockVars, EventTypeOK, ReadersFreeze, LeaversAreListed, RegisteredIsOpen, Readers, Silent
<1>10. ASSUME NEW b \in Broadcasters, RLock(b) PROVE EventInv'
  <2> DEFINE next == [broadcast[b] EXCEPT !.at = "sending", !.todo = subs[broadcast[b].channel]]
  <2>1. /\ broadcast[b] # Silent
        /\ broadcast[b].channel \in Channels /\ broadcast[b].event \in 1..MaxEvents
    BY <1>10 DEF RLock, EventTypeOK, Silent
  <2>2. broadcast' = [broadcast EXCEPT ![b] = next]
    BY <1>10 DEF RLock
  <2>3. /\ next \in Sendings
        /\ next.channel = broadcast[b].channel
        /\ next.todo = subs[broadcast[b].channel]
    BY ZenonT(40), <1>10, <2>1 DEF RLock, EventTypeOK, Sendings
  <2> HIDE DEF next
  <2>4. EventTypeOK'
    <3>1. broadcast' \in [Broadcasters -> {Silent} \cup Sendings]
      BY <2>2, <2>3, MoveBroadcast DEF EventTypeOK, Sendings
    <3> QED
      BY <1>10, <3>1 DEF RLock, lockVars, EventTypeOK, Sendings
  <2>5. ReadersFreeze'
    BY <1>10, <2>2, <2>3 DEF RLock, lockVars, EventTypeOK, ReadersFreeze, Readers
  <2>6. RegisteredIsOpen'
    BY <1>10 DEF RLock, RegisteredIsOpen
  <2>7. LeaversAreListed'
    BY <1>10 DEF RLock, LeaversAreListed
  <2> QED
    BY <2>4, <2>5, <2>6, <2>7
<1>11. ASSUME NEW b \in Broadcasters, RUnlock(b) PROVE EventInv'
  BY <1>11 DEF RUnlock, lockVars, EventTypeOK, ReadersFreeze, LeaversAreListed, RegisteredIsOpen, Readers, Silent
<1>12. ASSUME NEW b \in Broadcasters, NEW s \in Streams, Send(b, s) PROVE EventInv'
  <2> DEFINE c == broadcast[b].channel
             next == [broadcast[b] EXCEPT !.todo = @ \ {s}]
  <2>1. /\ broadcast[b].at = "sending"
        /\ c \in Channels /\ broadcast[b].event \in 1..MaxEvents
    BY <1>12 DEF Send, EventTypeOK, Silent
  <2>2. broadcast' = [broadcast EXCEPT ![b] = next]
    BY <1>12 DEF Send
  <2>3. /\ next \in Sendings
        /\ next.at = "sending" /\ next.channel = c
        /\ next.todo \subseteq broadcast[b].todo
    <3>1. broadcast[b] \in Sendings
      BY <2>1 DEF EventTypeOK, Silent, Sendings
    <3> QED
      BY <2>1, <3>1 DEF Sendings
  <2> HIDE DEF next
  <2>4. buffer' \in [Streams -> [Channels -> Seq(1..MaxEvents)]]
    <3> DEFINE q == Append(buffer[s][c], broadcast[b].event)
               more == [buffer EXCEPT ![s] = [buffer[s] EXCEPT ![c] = q]]
    <3>1. buffer' = more \/ buffer' = buffer
      BY <1>12 DEF Send
    <3>2. q \in Seq(1..MaxEvents)
      <4>1. MaxEvents \in Nat /\ buffer[s][c] \in Seq(1..MaxEvents)
        BY <2>1 DEF EventTypeOK
      <4> HIDE DEF EventInv, c
      <4> QED BY <2>1, <4>1, AppendToBuffer
    <3> HIDE DEF q
    <3>3. CASE buffer' = more
      BY <2>1, <3>2, <3>3, UpdateBuffer DEF EventTypeOK
    <3>4. CASE buffer' = buffer
      BY <3>4 DEF EventTypeOK
    <3> QED
      BY <3>1, <3>3, <3>4
  <2>5. EventTypeOK'
    <3>1. broadcast' \in [Broadcasters -> {Silent} \cup Sendings]
      BY <2>2, <2>3, MoveBroadcast DEF EventTypeOK, Sendings
    <3> QED
      BY <1>12, <2>4, <3>1 DEF Send, lockVars, EventTypeOK, Sendings
  <2>6. ReadersFreeze'
    BY <1>12, <2>1, <2>2, <2>3 DEF Send, lockVars, EventTypeOK, ReadersFreeze, Readers
  <2>7. RegisteredIsOpen'
    BY <1>12 DEF Send, RegisteredIsOpen
  <2>8. LeaversAreListed'
    BY <1>12 DEF Send, LeaversAreListed
  <2> QED
    BY <2>5, <2>6, <2>7, <2>8
<1>13. CASE UNCHANGED eventVars
  BY <1>13 DEF eventVars, EventTypeOK, ReadersFreeze, LeaversAreListed, RegisteredIsOpen, Readers
<1> QED
  BY <1>1, <1>2, <1>3, <1>4, <1>5, <1>6, <1>7, <1>8, <1>9, <1>10, <1>11, <1>12, <1>13
  DEF EventNext, StreamStep, BroadcastStep

LEMMA EventInvariant == EventSpec => []EventInv
BY InitEventInv, StepEventInv, PTL DEF EventSpec

\* Every stream, buffer, broadcast and lock keeps its type; in particular
\* no stream that has gone is still registered for a channel.
THEOREM EventTypeCorrect == EventSpec => []EventTypeOK
BY EventInvariant, PTL DEF EventInv

\* Broadcast never sends on a Go channel that Unsubscribe has closed.
THEOREM NoSendOnClosedHolds == EventSpec => []NoSendOnClosed
<1>1. EventInv => NoSendOnClosed
  BY DEF EventInv, EventTypeOK, ReadersFreeze, RegisteredIsOpen, NoSendOnClosed, Readers, Silent
<1> QED
  BY <1>1, EventInvariant, PTL

-----------------------------------------------------------------------------
(* The composition.  A behaviour of ServicesSpec is one of each component: *)
(* each starts as it does alone, and a step of another leaves it as it is. *)

THEOREM ServicesAreTheirParts ==
  ServicesSpec => ScheduledSpec /\ ComplaintSpec /\ AddressSpec /\ EventSpec
<1>1. ServicesInit => ScheduledInit /\ ComplaintInit /\ AddressInit /\ EventInit
  BY DEF ServicesInit
<1>2. ASSUME [ServicesNext]_servicesVars
      PROVE  /\ [ScheduledNext]_vars /\ [ComplaintNext]_complaintVars
             /\ [AddressNext]_addressVars /\ [EventNext]_eventVars
  <2>1. CASE UNCHANGED servicesVars
    BY <2>1 DEF servicesVars
  <2>2. CASE WorkdayMoves
    BY <2>2 DEF WorkdayMoves
  <2>3. CASE ComplaintsMove
    BY <2>3 DEF ComplaintsMove
  <2>4. CASE AddressesMove
    BY <2>4 DEF AddressesMove
  <2>5. CASE EventsMove
    BY <2>5 DEF EventsMove
  <2> QED
    BY <1>2, <2>1, <2>2, <2>3, <2>4, <2>5 DEF ServicesNext
<1> QED
  BY <1>1, <1>2, PTL DEF ServicesSpec, ScheduledSpec, ComplaintSpec, AddressSpec, EventSpec

\* What is proved of each component holds of ServicesSpec, which TLC runs.
THEOREM ServicesSafe ==
  ServicesSpec => /\ [](/\ TypeOK /\ SweptHaveRows /\ SweepSeesSchedule
                        /\ ComplaintTypeOK /\ NewestNoticeIsStatus /\ ResolverMatchesStatus
                        /\ AddressTypeOK /\ EventTypeOK /\ NoSendOnClosed)
                  /\ ImplementsLedger /\ PrimaryLostByDeletionOnly
BY ServicesAreTheirParts, ScheduledSafe, ComplaintTypeCorrect, NewestNoticeIsStatusHolds,
   ResolverMatchesStatusHolds, AddressTypeCorrect, PrimaryLostByDeletionOnlyHolds,
   EventTypeCorrect, NoSendOnClosedHolds, PTL

=============================================================================
