------------------------------ MODULE MCServices ------------------------------
(***************************************************************************)
(* The working days of MCWorkday, complaints, addresses and live events.   *)
(* They share no state, so a behaviour moves one of them, which it chooses *)
(* at the start: every state of each is reached, not their product.        *)
(***************************************************************************)
EXTENDS MCWorkday, Complaints, Addresses, EventBroadcaster

VARIABLE turn   \* the component that moves

servicesVars == <<vars, complaintVars, addressVars, eventVars, turn>>

\* The shift in force is a morning's or a night's: it ends in the first slot of
\* its day, after which there is time to check out twice, or of the next day.
ServicesInit ==
  /\ turn \in {"workday", "complaints", "addresses", "events"}
  /\ ScheduledInit /\ ComplaintInit /\ AddressInit /\ EventInit
  /\ turn = "workday" => workShift[TheShift].times.end = 0
  /\ turn # "workday" => workShift[TheShift].times = [start |-> 0, end |-> 0]

\* Streams are interchangeable, and so are broadcasters; the first to move is
\* always the same (TLC's symmetry is not for liveness).
FirstStream == CHOOSE s \in Streams : TRUE
FirstBroadcaster == CHOOSE b \in Broadcasters : TRUE
InOrder ==
  /\ (\E s \in Streams : stream'[s].at # "off") => stream'[FirstStream].at # "off"
  /\ (\A b \in Broadcasters : broadcast[b] = Silent) =>
       \A b \in Broadcasters \ {FirstBroadcaster} : broadcast'[b] = Silent

WorkdayMoves ==
  /\ turn = "workday" /\ ScheduledNext
  /\ UNCHANGED <<complaintVars, addressVars, eventVars, turn>>
ComplaintsMove ==
  /\ turn = "complaints" /\ ComplaintNext
  /\ UNCHANGED <<vars, addressVars, eventVars, turn>>
AddressesMove ==
  /\ turn = "addresses" /\ AddressNext
  /\ UNCHANGED <<vars, complaintVars, eventVars, turn>>
EventsMove ==
  /\ turn = "events" /\ EventNext /\ InOrder
  /\ UNCHANGED <<vars, complaintVars, addressVars, turn>>

ServicesNext == WorkdayMoves \/ ComplaintsMove \/ AddressesMove \/ EventsMove

ServicesSpec == ServicesInit /\ [][ServicesNext]_servicesVars /\ EventFairness
=============================================================================
