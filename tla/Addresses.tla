------------------------------ MODULE Addresses ------------------------------
(***************************************************************************)
(* internal/customer's addresses of one customer (every statement is       *)
(* scoped by customer_id, so customers do not meet), one of which should   *)
(* be the primary one.  A request reads, writes and promotes in statements *)
(* and transactions of its own; requests interleave between them and may   *)
(* stop after any of them.                                                 *)
(***************************************************************************)
EXTENDS NullValue, Naturals, FiniteSets

CONSTANTS
  Requests,      \* bound: requests in flight
  MaxAddresses,  \* bound: addresses ever created; ids are in order of created_at
  MaxFailures    \* bound: statements that fail and requests that stop half-way

ASSUME AddressAssumption ==
  /\ MaxAddresses \in Nat /\ MaxFailures \in Nat
  /\ NULL \notin Nat

VARIABLES
  addresses,  \* the ids of the customer's rows
  primary,    \* those with is_primary
  created,    \* how many have been created
  request,    \* per request: where it is and what it knows
  failures    \* failed requests so far

addressVars == <<addresses, primary, created, request, failures>>

Ids == 1..MaxAddresses
None == [at |-> "idle", id |-> NULL, flag |-> FALSE, seen |-> {}]
Phases == {"insert", "promote", "set", "delete", "pick"}

AddressTypeOK ==
  /\ addresses \in SUBSET Ids
  /\ primary \in SUBSET addresses
  /\ Cardinality(primary) <= 1
  /\ created \in 0..MaxAddresses
  /\ request \in [Requests -> {None} \cup
       [at : Phases, id : Ids \cup {NULL}, flag : BOOLEAN, seen : SUBSET Ids]]
  /\ failures \in 0..MaxFailures

AddressInit ==
  /\ addresses = {} /\ primary = {} /\ created = 0
  /\ request = [r \in Requests |-> None]
  /\ failures = 0

GetMostRecentAddress == CHOOSE a \in addresses : \A b \in addresses : b <= a

\* The request goes on: at, with the address id and what it remembers.
Goes(r, at, id, flag, seen) ==
  request' = [request EXCEPT ![r] = [at |-> at, id |-> id, flag |-> flag, seen |-> seen]]
Ends(r) == request' = [request EXCEPT ![r] = None]

-----------------------------------------------------------------------------
\* CreateAddress: the first address is to be primary, another one may ask to
\* become it (flag).
CreateAddressCheck(r) ==
  /\ request[r] = None
  /\ Goes(r, "insert", NULL, addresses = {}, {})
  /\ UNCHANGED <<addresses, primary, created, failures>>

\* A read that fails counts as "there are other addresses".
CreateAddressReadFails(r) ==
  /\ request[r] = None
  /\ failures < MaxFailures
  /\ failures' = failures + 1
  /\ Goes(r, "insert", NULL, FALSE, {})
  /\ UNCHANGED <<addresses, primary, created>>

\* Mutant: the insert without one_primary_per_customer.
InsertUnchecked(r, isPrimary) ==
  /\ request[r].at = "insert"
  /\ created < MaxAddresses
  /\ primary' = IF request[r].flag THEN primary \cup {created + 1} ELSE primary
  /\ IF isPrimary /\ ~request[r].flag
     THEN Goes(r, "promote", created + 1, FALSE, {}) ELSE Ends(r)
  /\ created' = created + 1
  /\ addresses' = addresses \cup {created + 1}
  /\ UNCHANGED failures

InsertAddress(r, isPrimary) ==
  /\ request[r].at = "insert"
  /\ created < MaxAddresses
  /\ \/ /\ request[r].flag /\ primary = {}
        /\ primary' = {created + 1}
        /\ Ends(r)
     \/ /\ ~request[r].flag
        /\ UNCHANGED primary
        /\ IF isPrimary THEN Goes(r, "promote", created + 1, FALSE, {}) ELSE Ends(r)
  /\ created' = created + 1
  /\ addresses' = addresses \cup {created + 1}
  /\ UNCHANGED failures

\* one_primary_per_customer refuses a second primary address.
InsertRefused(r) ==
  /\ request[r].at = "insert"
  /\ request[r].flag /\ primary # {}
  /\ Ends(r)
  /\ UNCHANGED <<addresses, primary, created, failures>>

\* SetPrimaryAddress, and UpdateAddress with is_primary: the row is there.
SetPrimaryCheck(r, a) ==
  /\ request[r] = None
  /\ a \in addresses
  /\ Goes(r, "promote", a, FALSE, {})
  /\ UNCHANGED <<addresses, primary, created, failures>>

\* setPrimaryAddress, UnsetPrimaryAddresses: the rows its snapshot shows.  It
\* waits for whoever has locked them and then passes those no longer primary.
UnsetPrimaryAddresses(r) ==
  /\ request[r].at = "promote"
  /\ Goes(r, "set", request[r].id, FALSE, primary)
  /\ UNCHANGED <<addresses, primary, created, failures>>

\* Mutant: setPrimaryAddress that goes on when SetAddressPrimary finds no row.
PromoteMaybe(r) ==
  /\ request[r].at = "set"
  /\ primary \ {request[r].id} \subseteq request[r].seen
  /\ primary' = addresses \cap {request[r].id}
  /\ Ends(r)
  /\ UNCHANGED <<addresses, created, failures>>

\* SetAddressPrimary and the commit.
PromoteCommits(r) ==
  /\ request[r].at = "set"
  /\ request[r].id \in addresses
  /\ primary \ {request[r].id} \subseteq request[r].seen
  /\ primary' = {request[r].id}
  /\ Ends(r)
  /\ UNCHANGED <<addresses, created, failures>>

\* The row is gone, or another address became primary after the snapshot and
\* the unique index refuses this one: everything is rolled back.
PromoteRollsBack(r) ==
  /\ request[r].at = "set"
  /\ \/ request[r].id \notin addresses
     \/ ~(primary \ {request[r].id} \subseteq request[r].seen)
  /\ Ends(r)
  /\ UNCHANGED <<addresses, primary, created, failures>>

\* DeleteAddress reads whether the row is primary (flag) ...
DeleteAddressCheck(r, a) ==
  /\ request[r] = None
  /\ a \in addresses
  /\ Goes(r, "delete", a, a \in primary, {})
  /\ UNCHANGED <<addresses, primary, created, failures>>

\* Mutant: nobody takes the deleted primary address's place.
DeleteOnly(r) ==
  /\ request[r].at = "delete"
  /\ addresses' = addresses \ {request[r].id}
  /\ primary' = primary \ {request[r].id}
  /\ Ends(r)
  /\ UNCHANGED <<created, failures>>

\* ... deletes it ...
DeleteAddress(r) ==
  /\ request[r].at = "delete"
  /\ addresses' = addresses \ {request[r].id}
  /\ primary' = primary \ {request[r].id}
  /\ IF request[r].flag THEN Goes(r, "pick", NULL, FALSE, {}) ELSE Ends(r)
  /\ UNCHANGED <<created, failures>>

\* ... and promotes the most recent of the others.
PickSuccessor(r) ==
  /\ request[r].at = "pick"
  /\ IF addresses = {} THEN Ends(r) ELSE Goes(r, "promote", GetMostRecentAddress, FALSE, {})
  /\ UNCHANGED <<addresses, primary, created, failures>>

\* A statement fails (an order still names the address) or the server stops.
RequestFails(r) ==
  /\ request[r] # None
  /\ failures < MaxFailures
  /\ failures' = failures + 1
  /\ Ends(r)
  /\ UNCHANGED <<addresses, primary, created>>

AddressNext ==
  \E r \in Requests :
    \/ CreateAddressCheck(r) \/ CreateAddressReadFails(r)
    \/ \E isPrimary \in BOOLEAN : InsertAddress(r, isPrimary)
    \/ InsertRefused(r)
    \/ \E a \in Ids : SetPrimaryCheck(r, a) \/ DeleteAddressCheck(r, a)
    \/ UnsetPrimaryAddresses(r) \/ PromoteCommits(r) \/ PromoteRollsBack(r)
    \/ DeleteAddress(r) \/ PickSuccessor(r)
    \/ RequestFails(r)

AddressSpec == AddressInit /\ [][AddressNext]_addressVars

-----------------------------------------------------------------------------
\* A customer who has a primary address loses it only by deleting that very
\* address: a swap that fails half-way, or loses to another one, leaves the old.
PrimaryLostByDeletionOnly ==
  [][primary # {} /\ primary' = {} => primary \cap addresses' = {}]_addressVars

\* "so the customer never ends up with zero or multiple primaries": when no
\* request is under way, a customer with addresses has a primary one.
NeverWithoutPrimary ==
  (\A r \in Requests : request[r] = None) /\ addresses # {} => primary # {}
=============================================================================
