-------------------------- MODULE MCPaymentsParts --------------------------
(***************************************************************************)
(* Money in small parts, each for itself: of Payments, a deposit is held,  *)
(* and settling, overpaying, applying, refunding and reversing follow; the *)
(* same without a deposit, in cash; and requests with a key, sent again    *)
(* while the first is still under way.  Of RentalMoney, damage and the     *)
(* deposit, and what is charged and invoiced.                              *)
(***************************************************************************)
EXTENDS MCPayments, RentalMoney

CONSTANT Shown   \* the parts a run looks at

VARIABLE part

OfRental == {"charges", "claim"}

Unkeyed(r)  == \/ r.does \in {"nothing", "reverse"}
               \/ r.does \in {"pay", "receive", "apply", "refund"} /\ r.key = NoKey

\* Every damage comes to the same.
Cheap    == damage.settled <= 1 /\ \A b \in DOMAIN bills : bills[b].credited <= 1
\* The rental is not called off, and nothing is credited.
UnderWay == stay \notin {"cancelled", "no_show"} /\ \A b \in DOMAIN bills : Standing(b)

\* It says something where much was paid over before.
SureReturn(r) == r.does = "pay" /\ r.amount < 0 /\ r.sure

OfInvoice(r) == r.does \in {"nothing", "pay", "refund", "reverse"}

Fits ==
  \/ /\ part = "settling" /\ \A i \in Invoices : credited[i] < Total
     /\ \A t \in Txs : Unkeyed(tx[t].req) /\ (Does(t, "pay") => ~tx[t].req.cash)
     /\ Len(rows) < 4 => \A t \in Txs : ~SureReturn(tx[t].req)
     /\ Len(rows) = 4 => \A t, u \in Txs : t # u /\ tx[t].at # "idle" /\ tx[u].at # "idle" =>
                           {tx[t].req.does, tx[u].req.does} = {"pay", "reverse"}
  \/ /\ part = "cash" /\ \A t \in Txs : Unkeyed(tx[t].req) /\ OfInvoice(tx[t].req)
     /\ \A t \in Txs : Len(rows) + Len(tx[t].rows) <= 3
  \/ part = "keys" /\ (\A i \in Invoices : ~here[i]) /\ \A t \in Txs : ~SureReturn(tx[t].req) /\ Len(rows) + Len(tx[t].rows) <= 2
  \/ /\ part = "charges" /\ ~deposit.asked /\ Cheap /\ damage.objects = "not said"
     /\ (stay = "out" => damage = NoCase) /\ (fine.paid \/ ~fine.during => charges = <<>>)
     /\ \A c \in DOMAIN charges : charges[c].key # NoRequest => charges[c].kind # "damage"
  \/ /\ part = "claim" /\ UnderWay /\ fine.during /\ fine.decision = "none" /\ ~fine.paid
     /\ Len(bills) <= 1 /\ (deposit.hold => charges = <<>>)
     /\ Len(charges) <= 1 /\ \A c \in DOMAIN charges : charges[c].kind = "damage" /\ charges[c].key = NoRequest

InPart == part \notin OfRental /\ part' = part /\ UNCHANGED rentalvars /\ Fits'
OnRental == part \in OfRental /\ part' = part /\ UNCHANGED vars /\ Fits'

NextOfParts ==
  \/ \E t \in Txs :
       \/ Pay(t) /\ InPart
       \/ Receive(t) /\ InPart
       \/ PayOut(t) /\ InPart
       \/ Apply(t) /\ InPart
       \/ DecideApply(t) /\ InPart
       \/ Look(t) /\ InPart
       \/ LockDeposit(t) /\ InPart
       \/ DecideRefund(t) /\ InPart
       \/ DecideReverse(t) /\ InPart
       \/ Insert(t) /\ InPart
       \/ Close(t) /\ InPart
       \/ Commit(t) /\ InPart
       \/ Leave(t) /\ InPart
  \/ \E i \in Invoices :
       \/ Credit(i) /\ InPart
       \/ Collect(i) /\ InPart
       \/ part = "cash" /\ BringBack(i) /\ InPart
       \/ CloseByHand(i) /\ InPart
  \/ ClaimSteps /\ OnRental
  \/ BillSteps /\ OnRental
  \/ DepositSteps /\ OnRental

InitOfParts ==
  /\ part \in Shown /\ IF part = "settling" THEN InitPaidIn ELSE Init
  /\ InitRental /\ (part \notin OfRental => fine.during) /\ Fits
  /\ part \in OfRental => here = [i \in Invoices |-> FALSE]

SpecOfParts == InitOfParts /\ [][NextOfParts]_<<vars, rentalvars, part>>

\* Every piece of state of both is of its kind.
MoneyTypeOK == TypeOK /\ RentalTypeOK
============================================================================
