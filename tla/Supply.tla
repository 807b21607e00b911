------------------------------- MODULE Supply -------------------------------
(***************************************************************************)
(* Parts bought outside the program (supply.go, handover.go): what was     *)
(* asked for, the orders that answer it, what came of them, onto the shelf *)
(* or straight onto a car, and what goes back.                             *)
(*                                                                         *)
(* A handler that reads and then writes is two steps here.  Where it locks *)
(* a row and reads in statements after that, the row is locked between the *)
(* two.  Where one statement locks a row and sums other rows, the sum is   *)
(* of its snapshot, taken before it waits for the lock, and only what the  *)
(* row itself says is looked at again: such a handler reads in the first   *)
(* step and locks in the second.                                           *)
(*                                                                         *)
(* One catalogue part is enough, since nothing compares two.  The states   *)
(* of jobs are WorkOrder's; costs, notes and words are left out, and of a  *)
(* credit everything but that it came.                                     *)
(***************************************************************************)
EXTENDS Integers, Sequences, FiniteSets, Functions

CONSTANTS
  Clerks,     \* people at the parts desk
  References, \* of orders and of delivery notes
  NoRef,      \* none given
  Days,       \* when something is expected
  MaxQty,     \* bound: how many of a thing
  MaxRows     \* bound: how many rows of each kind

ASSUME NoRefIsNone == NoRef \notin References
ASSUME QuantitiesAreCounted == MaxQty \in Nat

VARIABLES
  need,     \* part_requests: [asked, ended]
  came,     \* part_request_receipts: [need, qty, receipt, or 0 if by hand]
  order,    \* supplier_orders: [ref, cancelled, confirmed]
  oline,    \* supplier_order_lines: [order, need or 0, part, cancelled, etas]
  receipt,  \* supplier_receipts: [line, qty, note, route, substitute]
  back,     \* supplier_returns: [receipt, qty, gone, credited]
  onhand,   \* what the shelf's ledger says, of what suppliers brought
  clerk     \* [Clerks -> what each is in the middle of]

supplyvars == <<need, came, order, oline, receipt, back, onhand, clerk>>
asked      == <<need, came>>
ordered    == <<order, oline>>

Quantities == 1..MaxQty
\* What the customer brought goes the way of what goes straight onto the car.
Routes  == {"stock", "direct"}
AtDesk  == [does |-> "nothing"]

InitSupply ==
  /\ need = <<>> /\ came = <<>> /\ order = <<>> /\ oline = <<>> /\ receipt = <<>> /\ back = <<>>
  /\ onhand = 0
  /\ clerk = [c \in Clerks |-> AtDesk]

-----------------------------------------------------------------------------
(* What is asked for.                                                      *)

Total(rows, S) == SumFunctionOnSet([i \in DOMAIN rows |-> rows[i].qty], S)
Got(n)         == Total(came, {i \in DOMAIN came : came[i].need = n})
Waits(n)       == need[n].ended = "no"

\* requestPartsTx.
Ask(q) == Append(need, [asked |-> q, ended |-> "no"])

RequestParts(q) ==
  /\ Len(need) < MaxRows.need
  /\ need' = Ask(q)
  /\ UNCHANGED <<came, ordered, receipt, back, onhand, clerk>>

\* got is what the statement that locked the request had seen come of it.
Finishes(n, got, q) == got + q >= need[n].asked

\* receiveRequestTx, once the request is locked and still waits.
Arrives(n, got, q, from) ==
  /\ came' = Append(came, [need |-> n, qty |-> q, receipt |-> from])
  /\ need' = [need EXCEPT ![n].ended = IF Finishes(n, got, q) THEN "arrived" ELSE @]

Says(c, what) == clerk' = [clerk EXCEPT ![c] = what]
Ends(c)       == Says(c, AtDesk)
OnlyClerks    == UNCHANGED <<asked, ordered, receipt, back, onhand>>

LookAtRequest(c, n, q) ==
  /\ clerk[c] = AtDesk /\ Waits(n) /\ Len(came) < MaxRows.came
  /\ Says(c, [does |-> "receive", row |-> <<"nothing">>, need |-> n, got |-> Got(n), qty |-> q])
  /\ OnlyClerks

\* Zero is whatever is still owed; a receipt of nothing is refused by its table.
ReceivePart(c) ==
  /\ clerk[c].does = "receive"
  /\ LET n == clerk[c].need
         q == IF clerk[c].qty = 0 THEN need[n].asked - clerk[c].got ELSE clerk[c].qty
     IN  IF Waits(n) /\ q > 0 THEN Arrives(n, clerk[c].got, q, 0) ELSE UNCHANGED asked
  /\ Ends(c)
  /\ UNCHANGED <<ordered, receipt, back, onhand>>

CancelPartRequest(n) ==
  /\ Waits(n)
  /\ need' = [need EXCEPT ![n].ended = "cancelled"]
  /\ UNCHANGED <<came, ordered, receipt, back, onhand, clerk>>

-----------------------------------------------------------------------------
(* What is ordered.  Rows are locked by <<kind, number>>.                  *)

\* A mutant: nothing is locked.
UnlockedAnyway(row) == TRUE
Unlocked(row) == \A c \in Clerks : clerk[c] # AtDesk => clerk[c].row # row

\* The reference is read without a lock; the unique index has the last word.
RecordOrder(ref, n, part, eta) ==
  /\ Len(order) < MaxRows.order
  /\ ref # NoRef => \A o \in DOMAIN order : order[o].ref # ref
  /\ n # 0 => Waits(n)
  /\ order' = Append(order, [ref |-> ref, cancelled |-> FALSE, confirmed |-> FALSE])
  /\ oline' = Append(oline, [order |-> Len(order) + 1, need |-> n, part |-> part, cancelled |-> FALSE, etas |-> eta])
  /\ UNCHANGED <<asked, receipt, back, onhand, clerk>>

CancelOrder(o) ==
  /\ ~order[o].cancelled
  /\ \A l \in DOMAIN oline : oline[l].order = o => Unlocked(<<"line", l>>)
  /\ order' = [order EXCEPT ![o].cancelled = TRUE]
  /\ oline' = [l \in DOMAIN oline |-> IF oline[l].order = o THEN [oline[l] EXCEPT !.cancelled = TRUE] ELSE oline[l]]
  /\ UNCHANGED <<asked, receipt, back, onhand, clerk>>

ConfirmSupplierCancellation(o) ==
  /\ order[o].cancelled /\ ~order[o].confirmed
  /\ order' = [order EXCEPT ![o].confirmed = TRUE]
  /\ UNCHANGED <<asked, oline, receipt, back, onhand, clerk>>

LastETA(l) == IF oline[l].etas = <<>> THEN 0 ELSE oline[l].etas[Len(oline[l].etas)]

LookAtETA(c, l, day) ==
  /\ clerk[c] = AtDesk /\ Len(oline[l].etas) < MaxRows.eta
  /\ LastETA(l) # day
  /\ Says(c, [does |-> "eta", row |-> <<"nothing">>, line |-> l, day |-> day])
  /\ OnlyClerks

ChangeETA(c) ==
  /\ clerk[c].does = "eta" /\ Unlocked(<<"line", clerk[c].line>>)
  /\ oline' = [oline EXCEPT ![clerk[c].line].etas = Append(@, clerk[c].day)]
  /\ Ends(c)
  /\ UNCHANGED <<asked, order, receipt, back, onhand>>

-----------------------------------------------------------------------------
(* What comes.                                                             *)

NoteKnown(l, note) == note # NoRef /\ \E r \in DOMAIN receipt : receipt[r].line = l /\ receipt[r].note = note
Writing(S) == Cardinality({c \in Clerks : clerk[c].does \in S})

\* The request a line is for, if it waits, and what has come of it.
For(l) ==
  LET n == oline[l].need IN IF n # 0 /\ Waits(n) THEN [need |-> n, got |-> Got(n)] ELSE [need |-> 0, got |-> 0]
Nothing == [need |-> 0, got |-> 0]

HoldDelivered(c, l, q, note, route, substitute) ==
  /\ clerk[c] = AtDesk /\ Unlocked(<<"line", l>>)
  /\ Len(receipt) + Writing({"deliver"}) < MaxRows.receipt /\ Len(came) < MaxRows.came
  /\ substitute => route # "stock"
  /\ route = "stock" => oline[l].part
  /\ ~NoteKnown(l, note)
  /\ Says(c, [does |-> "deliver", row |-> <<"line", l>>, reaches |-> IF substitute THEN Nothing ELSE For(l),
        new |-> [line |-> l, qty |-> q, note |-> note, route |-> route, substitute |-> IF substitute THEN "pending" ELSE "no"]])
  /\ OnlyClerks

\* What was waited for when it was read, and no longer is.
Late(c) == clerk[c].reaches.need # 0 /\ ~Waits(clerk[c].reaches.need)

\* bookDeliveryTx, as far as the request.
Reaches(c, r) ==
  IF clerk[c].reaches.need = 0 THEN UNCHANGED asked
  ELSE Arrives(clerk[c].reaches.need, clerk[c].reaches.got, receipt'[r].qty, r)

ReceiveDelivery(c) ==
  /\ clerk[c].does = "deliver" /\ ~Late(c)
  /\ receipt' = Append(receipt, clerk[c].new)
  /\ onhand' = onhand + IF clerk[c].new.route = "stock" THEN clerk[c].new.qty ELSE 0
  /\ Reaches(c, Len(receipt) + 1)
  /\ Ends(c)
  /\ UNCHANGED <<ordered, back>>

HoldSubstitute(c, r, does) ==
  /\ clerk[c] = AtDesk /\ Unlocked(<<"receipt", r>>) /\ receipt[r].substitute = "pending"
  /\ Len(came) < MaxRows.came /\ Len(back) + Writing({"plan", "reject"}) < MaxRows.back
  /\ Says(c, [does |-> does, row |-> <<"receipt", r>>, reaches |-> IF does = "accept" THEN For(receipt[r].line) ELSE Nothing])
  /\ OnlyClerks

AcceptSubstitute(c) ==
  /\ clerk[c].does = "accept" /\ ~Late(c)
  /\ LET r == clerk[c].row[2] IN
       /\ receipt' = [receipt EXCEPT ![r].substitute = "accepted", ![r].route = "direct"]
       /\ Reaches(c, r)
  /\ Ends(c)
  /\ UNCHANGED <<ordered, back, onhand>>

\* The whole transaction is refused.
Refuse(c) ==
  /\ clerk[c].does \in {"deliver", "accept"} /\ Late(c)
  /\ Ends(c) /\ OnlyClerks

-----------------------------------------------------------------------------
(* What goes back.                                                         *)

GoesBack(r, q) == Append(back, [receipt |-> r, qty |-> q, gone |-> FALSE, credited |-> FALSE])
Planned(r)     == Total(back, {b \in DOMAIN back : back[b].receipt = r})

RejectSubstitute(c) ==
  /\ clerk[c].does = "reject"
  /\ LET r == clerk[c].row[2] IN
       /\ receipt' = [receipt EXCEPT ![r].substitute = "rejected"]
       /\ back' = GoesBack(r, receipt[r].qty)
  /\ Ends(c)
  /\ UNCHANGED <<asked, ordered, onhand>>

LookAtReceipt(c, r, q, again) ==
  /\ clerk[c] = AtDesk /\ Len(back) + Writing({"plan", "reject"}) < MaxRows.back
  /\ Planned(r) + q <= receipt[r].qty
  /\ again => oline[receipt[r].line].need # 0 /\ Len(need) < MaxRows.need
  /\ Says(c, [does |-> "plan", row |-> <<"nothing">>, receipt |-> r, qty |-> q, again |-> again])
  /\ OnlyClerks

PlanReturn(c) ==
  /\ clerk[c].does = "plan" /\ Unlocked(<<"receipt", clerk[c].receipt>>)
  /\ IF receipt[clerk[c].receipt].substitute = "pending" THEN UNCHANGED <<back, need>>
     ELSE /\ back' = GoesBack(clerk[c].receipt, clerk[c].qty)
          /\ need' = IF clerk[c].again THEN Ask(clerk[c].qty) ELSE need
  /\ Ends(c)
  /\ UNCHANGED <<came, ordered, receipt, onhand>>

HoldReturned(c, b) ==
  /\ clerk[c] = AtDesk /\ Unlocked(<<"return", b>>) /\ ~back[b].gone
  /\ Says(c, [does |-> "return", row |-> <<"return", b>>])
  /\ OnlyClerks

\* What went onto the shelf comes off it.
MarkReturned(c) ==
  /\ clerk[c].does = "return"
  /\ LET b == clerk[c].row[2] IN
       /\ back' = [back EXCEPT ![b].gone = TRUE]
       /\ onhand' = onhand - IF receipt[back[b].receipt].route = "stock" THEN back[b].qty ELSE 0
  /\ Ends(c)
  /\ UNCHANGED <<asked, ordered, receipt>>

ConfirmCredit(b) ==
  /\ ~back[b].credited /\ Unlocked(<<"return", b>>)
  /\ back' = [back EXCEPT ![b].credited = TRUE]
  /\ UNCHANGED <<asked, ordered, receipt, onhand, clerk>>

-----------------------------------------------------------------------------
RequestSteps ==
  \/ \E q \in Quantities : RequestParts(q)
  \/ \E n \in DOMAIN need : CancelPartRequest(n) \/ \E c \in Clerks, q \in 0..MaxQty : LookAtRequest(c, n, q)
  \/ \E c \in Clerks : ReceivePart(c)
OrderSteps ==
  \/ \E ref \in References \cup {NoRef}, n \in 0..Len(need), part \in BOOLEAN, eta \in {<<>>} \cup {<<d>> : d \in Days} :
       RecordOrder(ref, n, part, eta)
  \/ \E o \in DOMAIN order : CancelOrder(o) \/ ConfirmSupplierCancellation(o)
  \/ \E c \in Clerks : ChangeETA(c) \/ \E l \in DOMAIN oline, d \in Days : LookAtETA(c, l, d)
DeliverySteps(c) ==
  \/ \E l \in DOMAIN oline, q \in Quantities, note \in References \cup {NoRef}, route \in Routes, s \in BOOLEAN :
       HoldDelivered(c, l, q, note, route, s)
  \/ \E r \in DOMAIN receipt, does \in {"accept", "reject"} : HoldSubstitute(c, r, does)
  \/ ReceiveDelivery(c) \/ AcceptSubstitute(c) \/ RejectSubstitute(c) \/ Refuse(c)
ReturnSteps(c) ==
  \/ \E r \in DOMAIN receipt, q \in Quantities, again \in BOOLEAN : LookAtReceipt(c, r, q, again)
  \/ \E b \in DOMAIN back : HoldReturned(c, b) \/ ConfirmCredit(b)
  \/ PlanReturn(c) \/ MarkReturned(c)

NextSupply == RequestSteps \/ OrderSteps \/ \E c \in Clerks : DeliverySteps(c) \/ ReturnSteps(c)

-----------------------------------------------------------------------------
(* What is promised.                                                       *)

\* supply.go:223-226, 551-556: the shelf holds what was put on it less what was
\* taken off to be sent back, each once, however often and by how many it is
\* entered; and what goes straight onto a car never touches it.
ShelfMatchesDeliveries ==
  onhand = Total(receipt, {r \in DOMAIN receipt : receipt[r].route = "stock"})
         - Total(back, {b \in DOMAIN back : back[b].gone /\ receipt[back[b].receipt].route = "stock"})

\* A delivery counts once against its request, and a substitute only when
\* somebody has said it will do; a delivery note counts once for its line.
DeliveriesCountOnce ==
  /\ \A r \in DOMAIN receipt :
       LET C == {i \in DOMAIN came : came[i].receipt = r} IN
         /\ Cardinality(C) <= IF receipt[r].substitute \in {"no", "accepted"} THEN 1 ELSE 0
         /\ \A i \in C : came[i].qty = receipt[r].qty
  /\ \A r, s \in DOMAIN receipt :
       r # s /\ receipt[r].line = receipt[s].line /\ receipt[r].note # NoRef => receipt[r].note # receipt[s].note

\* handover.go:183-186: no request is finished, and its job sent back to work,
\* because something turned up.
NotFinishedEarly == \A n \in DOMAIN need : need[n].ended = "arrived" => Got(n) >= need[n].asked

SupplyIsTrue == ShelfMatchesDeliveries /\ DeliveriesCountOnce /\ NotFinishedEarly

-----------------------------------------------------------------------------
(* What is said and is not so.                                             *)

\* handover.go:183: "The request is finished when everything asked for has
\* come": of two halves booked at once each is taken for the first.
FinishedWhenAllCame ==
  \A n \in DOMAIN need : Got(n) >= need[n].asked => ~Waits(n)
=============================================================================
