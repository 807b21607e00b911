------------------------------- MODULE MCYard -------------------------------
(***************************************************************************)
(* Fleet, Deals and WorkOrder, side by side: a run looks at several small  *)
(* parts of them, each for itself.  What a part is not about does not      *)
(* change in it.                                                           *)
(***************************************************************************)
EXTENDS Fleet, Deals, WorkOrder, TLC

CONSTANTS
  anna, reda,   \* people
  Shown         \* the parts a run looks at

VARIABLE part

yardvars == <<part, vars, salevars, workvars>>

\* A configuration gives Lines the values of Keys, and Tasks and Orders those of
\* Jobs: no part has both in it, and there are fewer permutations to try.
Symmetry == Permutations(Keys) \cup Permutations(Jobs)

\* What may be agreed: by one or the other, or by one in every way.
TwoBuyers == [buyers : {{anna}, {reda}}, consumer : {TRUE}, tax : {"ordinary"}, trade : {FALSE}]
OneBuyer  == [buyers : {{anna}}, consumer : {FALSE}, tax : {"scheme", "ordinary"}, trade : {TRUE}]
Together  == [buyers : {{anna, reda}}, consumer : {TRUE}, tax : {"unset", "ordinary"}, trade : {FALSE}]
SomeOffers == TwoBuyers \cup OneBuyer \cup Together

OneBooked == Cardinality({k \in Keys : rental[k] # NoBooking} \cup {ask[a].key : a \in {b \in Asks : ask[b].at # "idle"}}) <= 1
OneAsked  == Cardinality({a \in Asks : ask[a].at # "idle"}) <= 1
OneHeld   == Cardinality({k \in Keys : rental[k].hold > 0}) <= 1
NoRental  == \A k \in Keys, a \in Asks : rental[k] = NoBooking /\ ask[a].at = "idle"
NoWork    == \A j \in Jobs : job[j] = "none"
NoDrives  == \A d \in Drives : drive[d] = NoDrive
Short     == now < End /\ \A k \in Keys : rental[k].hold = 0 /\ rental[k].to < End
Dealt     == {s \in Sales : deal[s].state # "none"}
Agrees(O) == \A s \in Sales : Live(s) => deal[s].terms \in O
\* Where no sale is under the margin scheme, its assessment says nothing.
Unassessed == eligible = (car.consigned = "no")
NoDefects == \A s \in Sales : deal[s].defects = 0
Simple    == NoDefects /\ \A s \in Sales : deal[s].version <= 1

Used      == {l \in Lines : line[l].there}
NoTasks   == \A t \in Tasks : task[t].status = "none"
NoOrders  == \A r \in Orders : request[r] = "none"
NoClocks  == \A m \in Mechanics : starting[m] = "none" /\ clock[m] = "never"
OnlyLabour == ~fitted.ever /\ \A l \in Used : line[l].kind = "labour"
Cheap     == \A l \in Used : line[l].price = 1
OneEnded  == Cardinality({l \in Used : line[l].withdrawn \/ line[l].performed}) <= 1
NoneWithdrawn == \A l \in Used : ~line[l].withdrawn
OneDear   == Cardinality({l \in Used : line[l].price > 1 \/ \E n \in DOMAIN quotes : l \in DOMAIN quotes[n].price /\ quotes[n].price[l] > 1}) <= 1
Early     == state \notin {"in_progress", "awaiting_parts", "ready", "invoiced", "closed", "cancelled"}

\* How far each part goes.
Fits ==
  CASE part = "bookings"  -> OneAsked /\ OneHeld /\ NoWork /\ NoDrives /\ stock = <<>>
    [] part = "requests"  -> OneBooked /\ Short /\ NoWork /\ NoDrives
    [] part = "work"      -> OneBooked /\ OneAsked /\ Short /\ NoDrives /\ stock = <<>>
    [] part = "drives"    -> Short /\ NoRental /\ Cardinality({j \in Jobs : job[j] # "none"}) <= 1
    [] part = "two sales" -> Agrees(TwoBuyers) /\ Simple /\ Unassessed /\ car.consigned = "no"
    [] part = "trade-in"  -> Agrees(OneBuyer) /\ NoDefects /\ Cardinality(Dealt) <= 1 /\ Len(holds) = 0 /\ car.consigned = "no"
    [] part = "buyers"    -> Agrees(Together) /\ Cardinality(Dealt) <= 1 /\ Len(holds) = 0 /\ Unassessed
    [] part = "quotes"    -> Early /\ OnlyLabour /\ OneDear /\ OneEnded /\ NoTasks /\ NoOrders /\ NoClocks /\ away.status = "none"
    [] part = "work list" -> /\ OnlyLabour /\ Cheap /\ NoOrders /\ NoClocks /\ away.status = "none" /\ Len(quotes) <= 1
                             /\ NoneWithdrawn /\ state \notin {"closed", "awaiting_parts"}
    [] part = "waiting"   -> Cheap /\ Cardinality(Used) <= 1 /\ NoneWithdrawn /\ quotes = <<>> /\ NoTasks /\ away.status = "none"
                             /\ (NoClocks \/ Cardinality({r \in Orders : request[r] # "none"}) <= 1)
    [] part = "supplier"  -> /\ OnlyLabour /\ Cheap /\ Cardinality(Used) <= 1 /\ NoOrders /\ NoClocks /\ Len(quotes) <= 1
                             /\ Cardinality({t \in Tasks : task[t].status # "none"}) <= 1 /\ state \notin {"closed", "awaiting_parts"}
                             /\ away.required \/ away.status = "none" \/ quotes = <<>>

OfFleet == {"bookings", "requests", "work", "drives"}
OfDeals == {"two sales", "trade-in", "buyers"}

InitYard ==
  /\ Init /\ InitDeals /\ InitWork /\ part \in Shown
  /\ part \notin OfDeals => car.consigned = "no" /\ eligible
  /\ part \in {"two sales", "trade-in"} => car.consigned = "no"

\* Steps of the one leave the others alone.
OnFleet == part \in OfFleet /\ UNCHANGED <<part, salevars, workvars>>
OnDeals == part \in OfDeals /\ UNCHANGED <<part, vars, workvars>>
OnWork == part \notin OfFleet \cup OfDeals /\ UNCHANGED <<part, vars, salevars>>

NextYard ==
  \/ OnFleet /\ Tick /\ Fits'
  \/ OnFleet /\ Fleets /\ Fits'
  \/ OnFleet /\ Stocks /\ Fits'
  \/ OnFleet /\ Works /\ Fits'
  \/ OnFleet /\ Requests /\ Fits'
  \/ OnFleet /\ Rentals /\ Fits'
  \/ OnFleet /\ TestDrives /\ Fits'
  \/ OnDeals /\ NextStock /\ Fits'
  \/ OnDeals /\ NextTerms /\ Fits'
  \/ OnDeals /\ NextMoney /\ Fits'
  \/ OnWork /\ StateMoves /\ Fits'
  \/ OnWork /\ LineChanges /\ Fits'
  \/ OnWork /\ Declines /\ Fits'
  \/ OnWork /\ QuoteSteps /\ Fits'
  \/ OnWork /\ TaskSteps /\ Fits'
  \/ OnWork /\ PartSteps /\ Fits'
  \/ OnWork /\ ClockSteps /\ Fits'
  \/ OnWork /\ SupplierSteps /\ Fits'

SpecYard == InitYard /\ [][NextYard]_yardvars

\* Every piece of state of the three is of its kind.
YardTypeOK == TypeOK /\ DealsTypeOK /\ WorkTypeOK
=============================================================================
