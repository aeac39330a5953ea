------------------------------- MODULE MCPeople -------------------------------
(***************************************************************************)
(* Customers' accounts, the sessions of one account, the login attempts of *)
(* one client, the notifications of an outlet's staff, and what an order   *)
(* is made of: its outlet, its item counts and its page.  They share no    *)
(* state, so a behaviour moves one of them, which it chooses at the start: *)
(* every state of each is reached, not their product.                      *)
(***************************************************************************)
EXTENDS Accounts, Sessions, RateLimit, StaffNotices, Outlets, ItemCounts, OrderDetails, TLC

\* Customers, addresses and roles are interchangeable; so are requests, devices and
\* tokens, but more permutations cost more than they save.
Interchangeable ==
  Permutations(Customers) \cup Permutations(Emails) \cup Permutations(EmployeeRoles)

VARIABLE moving   \* the component that moves

peopleVars == <<accountVars, sessionVars, limitVars, staffVars>>
makingVars == <<outletVars, countVars, catalogueVars, detailVars>>

FirstOutlet == CHOOSE o \in OutletIds : TRUE

\* The components that start in several states start in one of them unless
\* they move.
PeopleInit ==
  /\ moving \in {"accounts", "sessions", "attempts", "staff", "outlets", "counts", "page"}
  /\ AccountInit /\ LimitInit /\ DetailInit
  /\ SessionInit
  /\ moving # "sessions" => account.staff /\ account.password
  /\ StaffInit
  /\ moving # "staff" => \A e \in Staff : staff[e].role = "worker" /\ staff[e].active
  /\ OutletInit
  /\ moving # "outlets" =>
       /\ address = 0
       /\ outlet[FirstOutlet].row = "live"
       /\ outlet[FirstOutlet].place = 0 /\ outlet[FirstOutlet].radius = 1
  /\ CountInit
  /\ moving # "counts" => \A i \in Items : item[i].row = "none" /\ item[i].price = 2

AccountsMove ==
  /\ moving = "accounts"
  /\ AccountNext
  /\ UNCHANGED <<sessionVars, limitVars, staffVars, makingVars, moving>>

SessionsMove ==
  /\ moving = "sessions"
  /\ SessionNext
  /\ UNCHANGED <<accountVars, limitVars, staffVars, makingVars, moving>>

AttemptsMove ==
  /\ moving = "attempts"
  /\ LimitNext
  /\ UNCHANGED <<accountVars, sessionVars, staffVars, makingVars, moving>>

StaffMoves ==
  /\ moving = "staff"
  /\ StaffNext
  /\ UNCHANGED <<accountVars, sessionVars, limitVars, makingVars, moving>>

OutletsMove ==
  /\ moving = "outlets"
  /\ OutletNext
  /\ UNCHANGED <<peopleVars, countVars, catalogueVars, detailVars, moving>>

CountsMove ==
  /\ moving = "counts"
  /\ CountNext
  /\ UNCHANGED <<peopleVars, outletVars, detailVars, moving>>

PageMoves ==
  /\ moving = "page"
  /\ DetailNext
  /\ UNCHANGED <<peopleVars, outletVars, countVars, catalogueVars, moving>>

PeopleNext ==
  \/ AccountsMove \/ SessionsMove \/ AttemptsMove \/ StaffMoves
  \/ OutletsMove \/ CountsMove \/ PageMoves

PeopleSpec == PeopleInit /\ [][PeopleNext]_<<peopleVars, makingVars, moving>>

\* Every component keeps to its types, whichever of them moves.
PeopleTypeOK ==
  /\ AccountTypeOK /\ SessionTypeOK /\ LimitTypeOK /\ StaffTypeOK
  /\ OutletTypeOK /\ CountTypeOK /\ DetailTypeOK
=============================================================================
