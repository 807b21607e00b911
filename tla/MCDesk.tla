------------------------------- MODULE MCDesk -------------------------------
(***************************************************************************)
(* What is done at the desk, on small instances, each for itself: forms    *)
(* held and sent again (OfflineQueue); parts bought (Supply), in three:    *)
(* what is asked for, how a request of two is ordered, and what comes and  *)
(* goes back once there is an order behind it; and the people of the shop  *)
(* (Staff), in two: three of whom give each other roles and switch each    *)
(* other off, and two who sign in and out and clock in while one of them   *)
(* is switched off, or the workshop is.                                    *)
(***************************************************************************)
EXTENDS MCOfflineQueue, Supply, Staff

CONSTANT Shown   \* the parts a run looks at

VARIABLE part

deskvars == <<part, vars, supplyvars, staffvars>>
Alike    == Symmetry \cup Permutations(Clerks)

SomeRows == [need |-> 2, came |-> 2, order |-> 1, eta |-> 2, receipt |-> 2, back |-> 2]

InitOrdered ==
  /\ need = <<[asked |-> 2, ended |-> "no"]>> /\ came = <<>>
  /\ order = <<[ref |-> NoRef, cancelled |-> FALSE, confirmed |-> FALSE]>>
  /\ oline = <<[order |-> 1, need |-> 1, part |-> TRUE, cancelled |-> FALSE, etas |-> <<>>]>>
  /\ receipt = <<>> /\ back = <<>> /\ onhand = 0
  /\ clerk = [c \in Clerks |-> AtDesk]

\* A request nothing is ordered for yet.
InitAsked ==
  /\ need = <<[asked |-> 2, ended |-> "no"]>> /\ came = <<>> /\ order = <<>> /\ oline = <<>>
  /\ receipt = <<>> /\ back = <<>> /\ onhand = 0
  /\ clerk = [c \in Clerks |-> AtDesk]

TheRoles == {{"owner"}, {"admin", "technician"}}

\* Parts look at one module each: the others stand as they are.
StaffStands ==
  /\ person = [u \in People |-> [there |-> FALSE, active |-> FALSE, roles |-> {"admin", "technician"}]]
  /\ session = [b \in Browsers |-> NoSession] /\ signing = [b \in Browsers |-> NoSession]
  /\ workshop = TRUE /\ clock = {} /\ act = [t \in Doors |-> NoAct]

InitDesk ==
  /\ Init /\ part \in Shown
  /\ CASE part = "owners" -> InitStaff /\ \A u \in Keys : person[u].there
       [] part = "doors"  -> InitStaff /\ Keys = {u \in People : person[u].there}
       [] OTHER           -> StaffStands
  /\ CASE part = "coming"   -> InitOrdered
       [] part = "ordering" -> InitAsked
       [] OTHER             -> InitSupply

OnQueue  == part = "queue" /\ UNCHANGED <<part, supplyvars, staffvars>>
OnSupply(p) == part = p /\ UNCHANGED <<part, vars, staffvars>>
OnPeople(p) == part = p /\ UNCHANGED <<part, vars, supplyvars>>

\* bound: what came and what goes back are together at most three.
FewRows == Len(receipt') + Len(back') <= 3

NextDesk ==
  \/ OnQueue /\ Next
  \/ OnSupply("asking") /\ RequestSteps
  \/ OnSupply("ordering") /\ OrderSteps
  \/ OnSupply("ordering") /\ CancelPartRequest(1)
  \/ OnSupply("coming") /\ CancelPartRequest(1)
  \/ OnSupply("coming") /\ (\E c \in Clerks : DeliverySteps(c)) /\ FewRows
  \/ OnSupply("coming") /\ (\E c \in Clerks : ReturnSteps(c)) /\ FewRows
  \/ OnPeople("owners") /\ OwnerSteps
  \/ OnPeople("doors") /\ DoorSteps

SpecDesk == InitDesk /\ [][NextDesk]_deskvars
=============================================================================
