----------------------------- MODULE RentalMoney -----------------------------
(***************************************************************************)
(* What one rental comes to once it is over: its damage case, the charges  *)
(* a person confirms, a fine that came for the car, the invoices, and the  *)
(* deposit that settles damage on them (rental_damage.go,                  *)
(* rental_charges.go, rental_fines.go, rental_invoices.go,                 *)
(* rental_deposits.go).                                                    *)
(*                                                                         *)
(* Every handler takes an advisory lock of the booking, of its deposit or  *)
(* of the fine, or the lock of the unit, and reads after it in statements  *)
(* of their own what only its holders change: one handler is one step.     *)
(* What an application to an invoice reads of the invoice and of the       *)
(* deposit is under the locks of Payments, which has them, the keys of     *)
(* such requests, and the payments of an invoice that are no deposit.      *)
(* Where the booking is has Fleet; rates, VAT and words are left out.      *)
(***************************************************************************)
EXTENDS Integers, Sequences, FiniteSets, Functions

CONSTANTS
  Sums,        \* what a damage, a payment or a part of a credit may come to
  Requests,    \* keys of the requests that confirm a charge
  NoRequest,
  MaxCharges,  \* bound: charges confirmed
  MaxBills,    \* bound: invoices issued
  MaxUses,     \* bound: applications of the deposit
  MaxMoney     \* bound: what is paid into the deposit

ASSUME SumsAreMoney == Sums \subseteq Nat \ {0}
ASSUME NoRequestIsNone == NoRequest \notin Requests

VARIABLES
  stay,     \* the booking's state
  damage,   \* its damage case since it was last opened; told is what was settled when the customer was last told
  charges,  \* rental_charges, with their events
  fine,     \* a charge from an authority: whether it arose during the rental, what was decided, whether it is paid
  bills,    \* invoices of the rental: what is on each, what it comes to, what was credited of it
  deposit,  \* asked for, a hold on the card, money paid in and given back
  uses      \* rental_deposit_applications: of what invoice, how much, undone

rentalvars == <<stay, damage, charges, fine, bills, deposit, uses>>
claims == <<damage, charges, fine>>
money  == <<bills, deposit, uses>>

Rent   == 0        \* the booking's own lines, among what an invoice charges
Priced == 1        \* what the rent, a fine and any charge but damage come to
NoCase == [settled |-> 0, told |-> 0, objects |-> "not said", answer |-> "none", outcome |-> "none"]

InitRental ==
  /\ stay = "confirmed"
  /\ damage = NoCase
  /\ charges = <<>>
  /\ fine \in [during : BOOLEAN, decision : {"none"}, charge : {0}, paid : {FALSE}]
  /\ bills = <<>>
  /\ deposit = [asked |-> FALSE, hold |-> FALSE, received |-> 0, back |-> 0]
  /\ uses = <<>>

\* The handovers, and what ends a booking that was not collected.
Stays ==
  /\ \/ stay = "confirmed" /\ stay' \in {"out", "cancelled", "no_show"}
     \/ stay = "out" /\ stay' = "returned"
  /\ UNCHANGED <<claims, money>>

-----------------------------------------------------------------------------
(* The damage case.                                                        *)

Closed     == damage.outcome # "none"
Chargeable == damage.settled # 0 /\ damage.told # 0

\* TakeDamageStep.  What is said of liability changes nothing here.
AmountSettled(a) ==
  /\ ~Closed /\ damage' = [damage EXCEPT !.settled = a]
CustomerInformed(objects) ==
  /\ ~Closed /\ damage.settled # 0
  /\ damage' = [damage EXCEPT !.told = damage.settled, !.objects = objects]
CustomerResponse(answer) ==
  /\ ~Closed /\ damage.told # 0
  /\ damage' = [damage EXCEPT !.answer = answer]
Outcome(outcome) ==
  /\ ~Closed /\ outcome # "not owed" => Chargeable
  /\ damage' = [damage EXCEPT !.outcome = outcome]
Reopened == Closed /\ damage' = NoCase

TakeDamageStep ==
  /\ stay \in {"out", "returned"}
  /\ \/ \E a \in Sums : AmountSettled(a)
     \/ \E objects \in {"not said", "may"} : CustomerInformed(objects)
     \/ \E answer \in {"none", "accepted", "disputed"} : CustomerResponse(answer)
     \/ \E outcome \in {"invoiced", "set_against_deposit", "not owed"} : Outcome(outcome)
     \/ Reopened
  /\ UNCHANGED <<stay, charges, fine, money>>

\* The last day to object passes.
TimeToObjectPasses ==
  /\ damage.objects = "may" /\ damage' = [damage EXCEPT !.objects = "no more"]
  /\ UNCHANGED <<stay, charges, fine, money>>

-----------------------------------------------------------------------------
(* Charges.                                                                *)

Confirmed(c)  == ~charges[c].withdrawn
DamageCharges == {c \in DOMAIN charges : charges[c].kind = "damage"}

DamageIsOwed ==
  /\ Chargeable /\ \A c \in DamageCharges : charges[c].withdrawn
  /\ damage.outcome \in {"none", "invoiced", "set_against_deposit"}
  /\ damage.answer = "disputed" => damage.outcome # "none"

ComesAfter(kind) ==
  CASE kind = "cancellation_fee" -> stay = "cancelled"
    [] kind = "no_show_fee"      -> stay = "no_show"
    [] OTHER                     -> stay = "returned"

\* confirmChargeTx.  The same request again finds its charge, and changes nothing.
Confirm(kind, key) ==
  /\ Len(charges) < MaxCharges
  /\ key # NoRequest => \A c \in DOMAIN charges : charges[c].key # key
  /\ ComesAfter(kind)
  /\ kind = "damage" => DamageIsOwed
  /\ charges' = Append(charges, [kind |-> kind, gross |-> IF kind = "damage" THEN damage.settled ELSE Priced,
                                 told |-> FALSE, withdrawn |-> FALSE, key |-> key])

ConfirmCharge(kind, key) == Confirm(kind, key) /\ UNCHANGED <<stay, damage, fine, money>>

InformCharge(c) ==
  /\ Confirmed(c) /\ ~charges[c].told
  /\ charges' = [charges EXCEPT ![c].told = TRUE]
  /\ UNCHANGED <<stay, damage, fine, money>>

WithdrawCharge(c) ==
  /\ Confirmed(c)
  /\ charges' = [charges EXCEPT ![c].withdrawn = TRUE]
  /\ UNCHANGED <<stay, damage, fine, money>>

\* PassFineToRenter, to the rental that matching finds had the car.
PassFineToRenter ==
  /\ fine.decision = "none" /\ fine.during
  /\ Confirm("parking_tolls", NoRequest)
  /\ fine' = [fine EXCEPT !.decision = "renter", !.charge = Len(charges) + 1]
  /\ UNCHANGED <<stay, damage, money>>

KeepFine == /\ fine.decision = "none" /\ fine' = [fine EXCEPT !.decision = "shop"]
            /\ UNCHANGED <<stay, damage, charges, money>>
FinePaid == /\ ~fine.paid /\ fine' = [fine EXCEPT !.paid = TRUE]
            /\ UNCHANGED <<stay, damage, charges, money>>

-----------------------------------------------------------------------------
(* Invoices.                                                               *)

\* An invoice stands until a credit note is made of it, of however much.
Standing(b)   == bills[b].credited = 0
StandsOn(it)  == {b \in DOMAIN bills : Standing(b) /\ it \in bills[b].items}
Gross(items)  == SumFunctionOnSet([it \in items |-> IF it = Rent THEN Priced ELSE charges[it].gross], items)

\* A mutant: what stands on an invoice is not looked for.
BilledOrNot == (IF stay = "returned" THEN {Rent} ELSE {}) \cup {c \in DOMAIN charges : Confirmed(c)}
\* openRentalItemsTx.
OpenItems ==
  {it \in (IF stay = "returned" THEN {Rent} ELSE {}) \cup {c \in DOMAIN charges : Confirmed(c)} : StandsOn(it) = {}}

IssueRentalInvoice ==
  /\ Len(bills) < MaxBills
  /\ stay \in {"returned", "cancelled", "no_show"}
  /\ \A c \in DOMAIN charges : Confirmed(c) => charges[c].told
  /\ OpenItems # {}
  /\ bills' = Append(bills, [items |-> OpenItems, gross |-> Gross(OpenItems), credited |-> 0])
  /\ UNCHANGED <<stay, claims, deposit, uses>>

\* CreditInvoice: of a part or of what is left.
CreditRentalInvoice(b, a) ==
  /\ a <= bills[b].gross - bills[b].credited
  /\ bills' = [bills EXCEPT ![b].credited = @ + a]
  /\ UNCHANGED <<stay, claims, deposit, uses>>

-----------------------------------------------------------------------------
(* The deposit.                                                            *)

Uses(S)   == SumFunctionOnSet([u \in DOMAIN uses |-> uses[u].amount], {u \in S : ~uses[u].undone})
Used      == Uses(DOMAIN uses)
InDeposit == deposit.received - deposit.back - Used
OwedOn(b) == bills[b].gross - bills[b].credited - Uses({u \in DOMAIN uses : uses[u].bill = b})
OnDeposit == UNCHANGED <<stay, claims, bills>>

RequireRentalDeposit ==
  /\ ~deposit.asked /\ deposit' = [deposit EXCEPT !.asked = TRUE] /\ UNCHANGED uses /\ OnDeposit
HoldRentalDeposit ==
  /\ deposit.asked /\ ~deposit.hold /\ deposit' = [deposit EXCEPT !.hold = TRUE] /\ UNCHANGED uses /\ OnDeposit
ReleaseRentalDepositHold ==
  /\ deposit.hold /\ deposit' = [deposit EXCEPT !.hold = FALSE] /\ UNCHANGED uses /\ OnDeposit

\* RecordDepositPayment and RefundPayment.
ReceiveDeposit(a) ==
  /\ deposit.asked /\ deposit.received + a <= MaxMoney
  /\ deposit' = [deposit EXCEPT !.received = @ + a] /\ UNCHANGED uses /\ OnDeposit
GiveBackDeposit(a) ==
  /\ a <= InDeposit /\ deposit' = [deposit EXCEPT !.back = @ + a] /\ UNCHANGED uses /\ OnDeposit

\* claimOpenTx: that the case may be settled by the deposit, and what is left of it.
ClaimOpen ==
  /\ Chargeable
  /\ IF damage.answer = "disputed" THEN damage.outcome = "set_against_deposit"
     ELSE damage.answer = "accepted" \/ damage.objects = "no more"
\* The limit is of what stands of it: what was undone may be taken again.
ClaimLeft(a) == Used + a <= damage.settled

ApplyRentalDeposit(b, a) ==
  /\ Len(uses) < MaxUses
  /\ deposit.asked /\ ClaimOpen /\ ClaimLeft(a)
  /\ a <= InDeposit /\ a <= OwedOn(b)
  /\ uses' = Append(uses, [bill |-> b, amount |-> a, undone |-> FALSE])
  /\ UNCHANGED deposit /\ OnDeposit

\* ReversePayment of an application, both its halves.
UndoUse(u) ==
  /\ ~uses[u].undone /\ uses' = [uses EXCEPT ![u].undone = TRUE]
  /\ UNCHANGED deposit /\ OnDeposit

-----------------------------------------------------------------------------
Kinds == {"damage", "late", "cancellation_fee", "no_show_fee"}

ClaimSteps ==
  \/ Stays \/ TakeDamageStep \/ TimeToObjectPasses
  \/ \E kind \in Kinds, key \in Requests \cup {NoRequest} : ConfirmCharge(kind, key)
  \/ \E c \in DOMAIN charges : InformCharge(c) \/ WithdrawCharge(c)
  \/ PassFineToRenter \/ KeepFine \/ FinePaid
BillSteps ==
  \/ IssueRentalInvoice
  \/ \E b \in DOMAIN bills, a \in Sums : CreditRentalInvoice(b, a)
DepositSteps ==
  \/ RequireRentalDeposit \/ HoldRentalDeposit \/ ReleaseRentalDepositHold
  \/ \E a \in Sums : ReceiveDeposit(a) \/ GiveBackDeposit(a)
  \/ \E b \in DOMAIN bills, a \in Sums : ApplyRentalDeposit(b, a)
  \/ \E u \in DOMAIN uses : UndoUse(u)

NextRental == ClaimSteps \/ BillSteps \/ DepositSteps

-----------------------------------------------------------------------------
(* What holds of a rental's money.                                         *)

RentalTypeOK ==
  /\ stay \in {"confirmed", "out", "returned", "cancelled", "no_show"}
  /\ damage \in [settled : {0} \cup Sums, told : {0} \cup Sums, objects : {"not said", "may", "no more"},
                 answer : {"none", "accepted", "disputed"},
                 outcome : {"none", "invoiced", "set_against_deposit", "not owed"}]
  /\ charges \in Seq([kind : Kinds \cup {"parking_tolls"}, gross : Nat, told : BOOLEAN, withdrawn : BOOLEAN,
                      key : Requests \cup {NoRequest}])
  /\ fine \in [during : BOOLEAN, decision : {"none", "renter", "shop"}, charge : Nat, paid : BOOLEAN]
  /\ bills \in Seq([items : SUBSET Nat, gross : Nat, credited : Nat])
  /\ deposit \in [asked : BOOLEAN, hold : BOOLEAN, received : Nat, back : Nat]
  /\ uses \in Seq([bill : Nat, amount : Nat, undone : BOOLEAN])

\* "Each line and charge is invoiced at most once while its invoice stands"
\* (rental_invoices.go:19), however often it was credited, withdrawn and
\* charged anew; the customer was told of all that is on an invoice; and what
\* is asked of them for one damage, or one fine, is asked in one charge.
RentalBilledOnce ==
  /\ \A it \in {Rent} \cup DOMAIN charges : Cardinality(StandsOn(it)) <= 1
  /\ \A b \in DOMAIN bills : \A it \in bills[b].items \ {Rent} : charges[it].told
  /\ Cardinality({c \in DamageCharges : Confirmed(c)}) <= 1
  /\ {c \in DOMAIN charges : charges[c].kind = "parking_tolls"} = IF fine.decision = "renter" THEN {fine.charge} ELSE {}

-----------------------------------------------------------------------------
(* What is said and is not so.                                             *)

\* "applied only to a damage case ... whose amount is settled, the customer
\* told, and the customer either accepted it or let the time to object pass"
\* (rental_deposits.go:30-32): of a customer who disputes nothing it takes no
\* more than they were last told of.
DepositTakesWhatWasTold ==
  [][\A u \in DOMAIN uses' \ DOMAIN uses :
       damage.answer # "disputed" => uses'[u].amount <= damage.told]_rentalvars

\* "damage is charged from a damage case of this rental, settled and told,
\* once" (rental_charges.go:135): a case is on one invoice that stands.
DamageBilledOnce ==
  Cardinality({b \in DOMAIN bills : Standing(b) /\ bills[b].items \cap DamageCharges # {}}) <= 1
=============================================================================
