-------------------------------- MODULE Deals --------------------------------
(***************************************************************************)
(* The sale of one car in stock: its reservations, the deals on it, the    *)
(* contract, the invoice, a car traded in, and the delivery                *)
(* (dealer_sales.go, dealer_reservations.go, dealer_delivery.go,           *)
(* dealer_tradeins.go, dealer_consignment.go).                             *)
(*                                                                         *)
(* Changes to a deal hold its advisory lock, changes to the car's status   *)
(* its row: one handler is one step.  Two are not: an invoice reads how    *)
(* the car was assessed and what is held for the sale, and a trade-in      *)
(* whether the sale is invoiced, with no lock between them.                *)
(*                                                                         *)
(* Money is counted in parts of a price: a sale costs Price, a deposit and *)
(* a trade-in are 1 each.  The lead a deal came from, the ownership filing *)
(* and the documents' texts are left out, and so is what may be booked on  *)
(* the car and keep it in stock (Fleet).  A cancelled deal's terms are     *)
(* forgotten: nothing reads them again.                                    *)
(***************************************************************************)
EXTENDS Naturals, FiniteSets, Sequences

CONSTANTS
  Sales,       \* deals
  People,      \* who may buy and reserve
  NoSale,
  Price,       \* what the car costs
  Offers,      \* the terms that may be agreed: to whom (a consumer or not), how taxed, whether a car is traded in
  MaxTerms,    \* bound: versions of a deal's terms
  MaxDefects,  \* bound: defects known of a deal
  MaxHolds     \* bound: reservations of the car

VARIABLES
  car,         \* its status, the sale it points at, whether it is consigned
  eligible,    \* its purchase's assessment allows the margin scheme
  holds,       \* its reservations, the last one last
  deal,        \* [Sales -> the deal, its terms and its newest contract]
  answer,      \* [Sales -> [defects -> [People -> the newest answer]]]
  invoice,     \* [Sales -> the invoice that stands, and what is owed on it]
  issuing,     \* the sale whose invoice is being made, its lock held
  trade,       \* [Sales -> where its trade-in is]
  deposit,     \* [first reservations and sales with a deposit -> what is held]
  handedOver   \* the sales delivered

salevars == <<car, eligible, holds, deal, answer, invoice, issuing, trade, deposit, handedOver>>

Defects == 1 .. MaxDefects
AnyTerms == [buyers : SUBSET People \ {{}}, consumer : BOOLEAN, tax : {"unset", "scheme", "ordinary"}, trade : BOOLEAN]

ASSUME OffersAreTerms == Offers \subseteq AnyTerms
ASSUME BoundsAreNumbers == Price \in Nat \ {0} /\ MaxTerms \in Nat /\ MaxDefects \in Nat /\ MaxHolds \in Nat
ASSUME NoSaleIsNone == NoSale \notin Sales

NoTerms    == [buyers |-> {}, consumer |-> FALSE, tax |-> "unset", trade |-> FALSE]
NoContract == [made |-> FALSE, terms |-> 0, defects |-> 0, parties |-> {}, signed |-> {}, complete |-> FALSE]
NoDeal     == [state |-> "none", version |-> 0, terms |-> NoTerms, defects |-> 0, contract |-> NoContract]
NoAnswer   == [d \in Defects |-> [p \in People |-> "none"]]
NoInvoice  == [stands |-> FALSE, ever |-> FALSE, version |-> 0, scheme |-> FALSE, owed |-> 0, from |-> {}]

InitDeals ==
  /\ car \in [status : {"preparation"}, sale : {NoSale}, consigned : {"no", "standing"}]
  /\ eligible \in {car.consigned = "no", FALSE}
  /\ holds = <<>>
  /\ deal = [s \in Sales |-> NoDeal]
  /\ answer = [s \in Sales |-> NoAnswer]
  /\ invoice = [s \in Sales |-> NoInvoice]
  /\ issuing = NoSale
  /\ trade = [s \in Sales |-> "none"]
  /\ deposit = <<>>
  /\ handedOver = {}

Lesser(a, b) == IF a < b THEN a ELSE b

\* What is held, once that for x is v.
Holding(x, v) == [y \in {x} \cup DOMAIN deposit |-> IF y = x THEN v ELSE deposit[y]]

-----------------------------------------------------------------------------
(* The car's status, its reservations, and what it is consigned for.       *)

Standing == {h \in DOMAIN holds : holds[h].end = "no"}

StockMoves ==
  {<<"preparation", "for sale">>, <<"preparation", "closed">>,
   <<"for sale", "preparation">>, <<"for sale", "reserved">>, <<"for sale", "sold">>, <<"for sale", "closed">>,
   <<"reserved", "for sale">>, <<"reserved", "sold">>, <<"reserved", "closed">>,
   <<"sold", "for sale">>, <<"sold", "delivered">>}

ByStock == UNCHANGED <<eligible, deal, answer, invoice, issuing, trade, handedOver>>

\* A mutant: a reservation that stands is not looked for.
MovesOnAnyway(to) == <<car.status, to>> \in StockMoves
\* moveStockUnitTx: a car reserved moves on once its reservation has ended.
MovesOn(to) == <<car.status, to>> \in StockMoves /\ (car.status = "reserved" => Standing = {})

\* MoveStockUnit, from the car's page; any end without a sale is "closed".
MoveStockUnit(to) ==
  /\ MovesOn(to)
  /\ car' = [car EXCEPT !.status = to]
  /\ UNCHANGED <<holds, deposit>> /\ ByStock

Reserve(p) ==
  /\ car.status = "for sale" /\ Len(holds) < MaxHolds
  /\ holds' = Append(holds, [holder |-> p, root |-> Len(holds) + 1, end |-> "no"])
  /\ car' = [car EXCEPT !.status = "reserved"]
  /\ UNCHANGED deposit /\ ByStock

\* One that ran out stands until somebody ends it, as one that did not.
ExtendReservation(h) ==
  /\ h \in Standing /\ Len(holds) < MaxHolds
  /\ holds' = Append([holds EXCEPT ![h].end = "extended"], holds[h])
  /\ UNCHANGED <<car, deposit>> /\ ByStock

\* EndReservation, cancelled or lapsed: the deposit is decided on, and given
\* back apart from this.
EndReservation(h) ==
  /\ h \in Standing
  /\ holds' = [holds EXCEPT ![h].end = "ended"]
  /\ car' = [car EXCEPT !.status = IF @ = "reserved" THEN "for sale" ELSE @]
  /\ UNCHANGED deposit /\ ByStock

\* RecordReservationDeposit: held against the first of the extensions.
RecordReservationDeposit(h) ==
  /\ h \in Standing /\ holds[h].root \notin DOMAIN deposit
  /\ deposit' = Holding(holds[h].root, 1)
  /\ UNCHANGED <<car, holds>> /\ ByStock

\* What is held is given back.
RefundDeposit(x) ==
  /\ deposit[x] > 0
  /\ deposit' = [deposit EXCEPT ![x] = 0]
  /\ UNCHANGED <<car, holds>> /\ ByStock

\* EndConsignment: the car goes back to its principal.
EndConsignment ==
  /\ car.consigned = "standing"
  /\ \/ car.status = "closed"
     \/ car.status # "reserved" /\ MovesOn("closed")
  /\ car' = [car EXCEPT !.status = "closed", !.consigned = "ended"]
  /\ UNCHANGED <<holds, deposit>> /\ ByStock

\* CorrectVATEligibility: not once the sale the car points at was invoiced.
CorrectVATEligibility ==
  /\ car.consigned = "no"
  /\ car.sale # NoSale => ~invoice[car.sale].ever
  /\ eligible' = ~eligible
  /\ UNCHANGED <<car, holds, deal, answer, invoice, issuing, trade, deposit, handedOver>>

-----------------------------------------------------------------------------
(* A deal: its terms, its defects and its contract.                        *)

Live(s)   == deal[s].state \in {"draft", "contracted"}
Locked(s) == issuing = s
ByTerms   == UNCHANGED <<car, eligible, holds, invoice, issuing, trade, deposit, handedOver>>

\* What a contract states: the terms and the known defects (Deal.Basis).
StatesItAll(s) ==
  LET c == deal[s].contract IN c.made /\ c.terms = deal[s].version /\ c.defects = deal[s].defects

Completed(s) == deal[s].state = "contracted" /\ deal[s].contract.complete /\ StatesItAll(s)

Accepted(s) == \A d \in 1 .. deal[s].defects, p \in deal[s].terms.buyers : answer[s][d][p] = "accepted"

\* Deal.Missing is empty.
NothingMissing(s) ==
  /\ deal[s].terms.tax # "unset"
  /\ StatesItAll(s) /\ deal[s].contract.signed = deal[s].contract.parties
  /\ deal[s].terms.consumer => Accepted(s)

\* insertTermsTx.
MayAgree(t) == t.tax = "scheme" => eligible

\* CreateDeal: under the car's lock, one deal at a time.
CreateDeal(s, t) ==
  /\ deal[s].state = "none" /\ \A x \in Sales : ~Live(x)
  /\ car.status \in {"for sale", "reserved"}
  /\ MayAgree(t)
  /\ deal' = [deal EXCEPT ![s] = [NoDeal EXCEPT !.state = "draft", !.version = 1, !.terms = t]]
  /\ UNCHANGED answer /\ ByTerms

\* A mutant: an invoiced deal is revised as any other.
RevisedAnyway(s) == Live(s)
MayRevise(s) == Live(s) /\ ~invoice[s].stands

ReviseDeal(s, t) ==
  /\ MayRevise(s) /\ ~Locked(s) /\ deal[s].version < MaxTerms /\ MayAgree(t)
  /\ deal' = [deal EXCEPT ![s].version = @ + 1, ![s].terms = t]
  /\ UNCHANGED answer /\ ByTerms

AddDefect(s) ==
  /\ Live(s) /\ ~Locked(s) /\ deal[s].defects < MaxDefects
  /\ deal' = [deal EXCEPT ![s].defects = @ + 1]
  /\ UNCHANGED answer /\ ByTerms

\* AnswerDefect: the newest answer stands.
AnswerDefect(s, d, p, a) ==
  /\ Live(s) /\ ~Locked(s) /\ d <= deal[s].defects /\ p \in deal[s].terms.buyers
  /\ answer' = [answer EXCEPT ![s][d][p] = a]
  /\ UNCHANGED deal /\ ByTerms

ProduceSalesContract(s) ==
  /\ Live(s) /\ ~Locked(s) /\ ~Completed(s)
  /\ deal' = [deal EXCEPT ![s].contract =
                [made |-> TRUE, terms |-> deal[s].version, defects |-> deal[s].defects,
                 parties |-> deal[s].terms.buyers, signed |-> {}, complete |-> FALSE]]
  /\ UNCHANGED answer /\ ByTerms

\* A signature on the newest contract, which takes no lock of the deal's.
SignContract(s, p) ==
  /\ p \in deal[s].contract.parties \ deal[s].contract.signed
  /\ deal' = [deal EXCEPT ![s].contract.signed = @ \cup {p}]
  /\ UNCHANGED answer /\ ByTerms

\* endReservationOnSaleTx: a car reserved is sold to its holder.
SoldToHolder(s) == \A h \in Standing : holds[h].holder \in deal[s].terms.buyers

\* A mutant: the reservation is left as it was.
LeftStanding == holds
SoldHolds == [h \in DOMAIN holds |-> IF h \in Standing THEN [holds[h] EXCEPT !.end = "sold"] ELSE holds[h]]

\* CompleteDeal: sold already, or delivered since, the car stays where it is.
CompleteDeal(s) ==
  /\ Live(s) /\ ~Locked(s) /\ ~Completed(s) /\ NothingMissing(s)
  /\ deal' = [deal EXCEPT ![s].state = "contracted", ![s].contract.complete = TRUE]
  /\ IF car.status \in {"sold", "delivered"}
     THEN car' = [car EXCEPT !.sale = s] /\ UNCHANGED holds
     ELSE /\ <<car.status, "sold">> \in StockMoves /\ SoldToHolder(s)
          /\ holds' = SoldHolds
          /\ car' = [car EXCEPT !.status = "sold", !.sale = s,
                                !.consigned = IF @ = "standing" THEN "ended" ELSE @]
  /\ UNCHANGED <<eligible, answer, invoice, issuing, trade, deposit, handedOver>>

LetsGo(s) == IF car.sale = s THEN NoSale ELSE car.sale

\* CancelDeal: not while an invoice stands, nor once the car is delivered.
CancelDeal(s) ==
  /\ Live(s) /\ ~Locked(s) /\ ~invoice[s].stands /\ car.status # "delivered"
  /\ deal' = [deal EXCEPT ![s] = [NoDeal EXCEPT !.state = "cancelled", !.terms.trade = deal[s].terms.trade]]
  /\ answer' = [answer EXCEPT ![s] = NoAnswer]
  /\ car' = [car EXCEPT !.sale = LetsGo(s),
                        !.status = IF deal[s].state = "contracted" /\ @ = "sold" THEN "for sale" ELSE @]
  /\ UNCHANGED <<eligible, holds, invoice, issuing, trade, deposit, handedOver>>

-----------------------------------------------------------------------------
(* The invoice, the trade-in, and what is held for the sale.               *)

ByMoney == UNCHANGED <<car, eligible, holds, deal, answer, handedOver>>

\* IssueDealInvoice, with the deal's lock: what it reads ...
ReadDealToInvoice(s) ==
  /\ issuing = NoSale /\ Completed(s) /\ ~invoice[s].stands
  /\ deal[s].terms.tax = "scheme" => eligible
  /\ issuing' = s
  /\ UNCHANGED <<invoice, trade, deposit>> /\ ByMoney

\* applyReservationDepositTx: of the last reservation that ended as sold.
SoldWithDeposit == {h \in DOMAIN holds : holds[h].end = "sold" /\ holds[h].root \in DOMAIN deposit}
Last(H)         == CHOOSE h \in H : \A g \in H : g <= h

\* ... and what it writes: the invoice, and what is held applied to it.
IssueDealInvoice(s) ==
  LET traded   == {x \in {s} \cap DOMAIN deposit : deposit[x] > 0}
      left     == Price - Cardinality(traded)
      reserved == IF SoldWithDeposit = {} \/ left = 0 THEN {}
                  ELSE {x \in {holds[Last(SoldWithDeposit)].root} : deposit[x] > 0}
  IN
  /\ Locked(s)
  /\ issuing' = NoSale
  /\ deposit' = [x \in DOMAIN deposit |-> IF x \in traded \cup reserved THEN 0 ELSE deposit[x]]
  /\ invoice' = [invoice EXCEPT ![s] =
       [stands |-> TRUE, ever |-> TRUE, version |-> deal[s].version, scheme |-> deal[s].terms.tax = "scheme",
        owed |-> left - Cardinality(reserved), from |-> {holds[x].holder : x \in reserved}]]
  /\ UNCHANGED trade /\ ByMoney

\* A payment of what is owed.
PayInvoice(s) ==
  /\ invoice[s].stands /\ invoice[s].owed > 0
  /\ invoice' = [invoice EXCEPT ![s].owed = 0]
  /\ UNCHANGED <<issuing, trade, deposit>> /\ ByMoney

\* Credited in full, the invoice no longer stands.
CreditInvoice(s) ==
  /\ invoice[s].stands
  /\ invoice' = [invoice EXCEPT ![s] = [NoInvoice EXCEPT !.ever = TRUE]]
  /\ UNCHANGED <<issuing, trade, deposit>> /\ ByMoney

\* ReceiveTradeIn: what the terms say is read first ...
HandOverTradeIn(s) ==
  /\ deal[s].state = "contracted" /\ deal[s].terms.trade /\ trade[s] = "none"
  /\ trade' = [trade EXCEPT ![s] = "taking"]
  /\ UNCHANGED <<invoice, issuing, deposit>> /\ ByMoney

\* ... and the purchase and its receipt are recorded by what was read.
ReceiveTradeIn(s) ==
  /\ trade[s] = "taking"
  /\ trade' = [trade EXCEPT ![s] = "received"]
  /\ UNCHANGED <<invoice, issuing, deposit>> /\ ByMoney

\* The checks before money leaves pass.
ChecksPass(s) ==
  /\ trade[s] = "received"
  /\ trade' = [trade EXCEPT ![s] = "clear"]
  /\ UNCHANGED <<invoice, issuing, deposit>> /\ ByMoney

\* creditTradeInTx, of a trade-in whose sale is invoiced; again, it applies
\* what was held since.
CreditTradeIn(s) ==
  LET held   == IF trade[s] = "clear" THEN 1 ELSE deposit[s]
      amount == Lesser(held, invoice[s].owed)
  IN
  /\ trade[s] \in {"clear", "credited"} /\ deal[s].terms.trade /\ invoice[s].stands
  /\ trade' = [trade EXCEPT ![s] = "credited"]
  /\ deposit' = Holding(s, held - amount)
  /\ invoice' = [invoice EXCEPT ![s].owed = @ - amount]
  /\ UNCHANGED issuing /\ ByMoney

\* creditTradeInTx, of one it reads no invoice of: held, and seen once it commits.
HoldTradeIn(s) ==
  /\ trade[s] = "clear" /\ deal[s].terms.trade /\ ~invoice[s].stands
  /\ trade' = [trade EXCEPT ![s] = "crediting"]
  /\ UNCHANGED <<invoice, issuing, deposit>> /\ ByMoney

CommitTradeIn(s) ==
  /\ trade[s] = "crediting"
  /\ trade' = [trade EXCEPT ![s] = "credited"]
  /\ deposit' = Holding(s, 1)
  /\ UNCHANGED <<invoice, issuing>> /\ ByMoney

-----------------------------------------------------------------------------
(* Delivery.                                                               *)

\* DeliverCar: whoever runs the shop may let it go before it is paid, on a
\* contract that is complete all the same.
DeliverCar(s, override) ==
  /\ Live(s) /\ ~Locked(s) /\ s \notin handedOver /\ Completed(s)
  /\ override \/ (invoice[s].stands /\ invoice[s].owed = 0)
  /\ car.status \in {"sold", "delivered"}
  /\ handedOver' = handedOver \cup {s}
  /\ car' = [car EXCEPT !.status = "delivered"]
  /\ UNCHANGED <<eligible, holds, deal, answer, invoice, issuing, trade, deposit>>

-----------------------------------------------------------------------------
NextStock ==
  \/ \E to \in {"preparation", "for sale", "reserved", "sold", "delivered", "closed"} : MoveStockUnit(to)
  \/ \E p \in People : Reserve(p)
  \/ \E h \in DOMAIN holds :
       ExtendReservation(h) \/ RecordReservationDeposit(h) \/ EndReservation(h)
  \/ \E x \in DOMAIN deposit : RefundDeposit(x)
  \/ EndConsignment \/ CorrectVATEligibility

NextTerms ==
  \E s \in Sales :
    \/ \E t \in Offers : CreateDeal(s, t) \/ ReviseDeal(s, t)
    \/ AddDefect(s)
    \/ \E d \in Defects, p \in People, a \in {"accepted", "refused"} : AnswerDefect(s, d, p, a)
    \/ ProduceSalesContract(s) \/ CompleteDeal(s) \/ CancelDeal(s)
    \/ \E p \in People : SignContract(s, p)

NextMoney ==
  \E s \in Sales :
    \/ ReadDealToInvoice(s) \/ IssueDealInvoice(s) \/ PayInvoice(s) \/ CreditInvoice(s)
    \/ HandOverTradeIn(s) \/ ReceiveTradeIn(s) \/ ChecksPass(s)
    \/ CreditTradeIn(s) \/ HoldTradeIn(s) \/ CommitTradeIn(s)
    \/ \E override \in BOOLEAN : DeliverCar(s, override)

NextDeals == NextStock \/ NextTerms \/ NextMoney

SpecDeals == InitDeals /\ [][NextDeals]_salevars

-----------------------------------------------------------------------------
(* Properties.                                                             *)

Contracts == [made : BOOLEAN, terms : Nat, defects : Nat, parties : SUBSET People, signed : SUBSET People, complete : BOOLEAN]

\* Every piece of state is of its kind.
DealsTypeOK ==
  /\ car \in [status : {"preparation", "for sale", "reserved", "sold", "delivered", "closed"},
              sale : Sales \cup {NoSale}, consigned : {"no", "standing", "ended"}]
  /\ eligible \in BOOLEAN
  /\ holds \in Seq([holder : People, root : Nat, end : {"no", "extended", "ended", "sold"}])
  /\ deal \in [Sales -> [state : {"none", "draft", "contracted", "cancelled"}, version : Nat,
                          terms : AnyTerms \cup [buyers : {{}}, consumer : {FALSE}, tax : {"unset"}, trade : BOOLEAN],
                          defects : Nat, contract : Contracts]]
  /\ answer \in [Sales -> [Defects -> [People -> {"none", "accepted", "refused"}]]]
  /\ invoice \in [Sales -> [stands : BOOLEAN, ever : BOOLEAN, version : Nat, scheme : BOOLEAN, owed : 0 .. Price, from : SUBSET People]]
  /\ issuing \in Sales \cup {NoSale}
  /\ trade \in [Sales -> {"none", "taking", "received", "clear", "crediting", "credited"}]
  /\ \A x \in DOMAIN deposit : x \in Sales \cup DOMAIN holds /\ deposit[x] \in {0, 1}
  /\ handedOver \subseteq Sales

\* The car and its sale agree, whatever was moved by hand meanwhile: it
\* points at the one deal that is contracted, and nothing else; and a car
\* handed over stays that deal's, delivered.  A reservation that stands keeps
\* the car: there is one, the last that was made, and the car is reserved --
\* not sold, offered again or gone.
CarFollowsItsSale ==
  /\ \A s \in Sales : car.sale = s <=> deal[s].state = "contracted"
  /\ \A s \in handedOver : car.sale = s /\ car.status = "delivered"
  /\ \A h \in Standing : Standing = {h} /\ h = Len(holds) /\ car.status = "reserved"

\* An invoice that stands charges the terms as they stand, of a deal that
\* was contracted, and is taxed as they say -- although a defect may have
\* been found, and the contract made again, since.
InvoicedTermsStand ==
  \A s \in Sales : invoice[s].stands =>
    /\ deal[s].state = "contracted" /\ invoice[s].version = deal[s].version
    /\ invoice[s].scheme = (deal[s].terms.tax = "scheme")

\* "what is held of the deposit of the reservation the sale ended"
\* (dealer_reservations.go:555): a buyer's deposit, not somebody else's.
DepositsPayTheirOwnSale ==
  \A s \in Sales : invoice[s].from \subseteq deal[s].terms.buyers

\* "DeliverCar ... refused unless the contract stands signed with every
\* defect accepted" (dealer_delivery.go:90).
DeliveredWithDefectsAccepted ==
  [][\A s \in handedOver' \ handedOver : deal[s].terms.consumer => Accepted(s)]_salevars

\* "applied to the sale's invoice as a payment already received -- whichever
\* comes first, the invoice or the car" (dealer_tradeins.go:26).
TradeInIsApplied ==
  \A s \in Sales :
    invoice[s].stands /\ trade[s] = "credited" => deposit[s] = 0 \/ invoice[s].owed = 0

\* "one made since that refuses it wins, before anything is issued"
\* (dealer_sales.go:1410): no invoice under the scheme against the assessment.
SchemeAsAssessed ==
  \A s \in Sales : invoice[s].stands /\ invoice[s].scheme => eligible
=============================================================================
