-------------------------------- MODULE Fleet --------------------------------
(***************************************************************************)
(* One car and its time: the ledger of what it is taken for (resources.go, *)
(* 0070, 0073), written by rentals, test drives and the workshop's jobs,   *)
(* and the periods it is in the rental fleet or in stock for sale.         *)
(*                                                                         *)
(* Whoever writes to a car's time locks its row in resources first, so     *)
(* what a transaction does after that is one step.  What is read before    *)
(* the lock is a step of its own: a request's key (BookRental), and where  *)
(* the car stands in stock (BookTestDrive).                                *)
(*                                                                         *)
(* Time is whole numbers; periods are half-open, as tstzrange's are.  The  *)
(* exclusion constraint resource_blocks_no_overlap is left out: NoOverlap  *)
(* shows that it never has to refuse anything.  A refusal changes nothing  *)
(* and is a step that cannot be taken, except a booking's, which has to    *)
(* find out first whether its own request made the booking in the way.     *)
(*                                                                         *)
(* A job that a merge of two records brings to this car (0073:63,          *)
(* merge.go:542) is one that opens; none leaves it that way (0073:51), for *)
(* a car that is a resource is not merged away (merge.go:498).  Left out   *)
(* are blocks written, confirmed, released and moved by hand               *)
(* (BookResource, ConfirmBlock, ReleaseBlock, OverrideBlock), which        *)
(* nothing calls.                                                          *)
(***************************************************************************)
EXTENDS Naturals, FiniteSets, Sequences

CONSTANTS
  Keys,      \* request keys of rentals; a booking is known by its request's
  Asks,      \* copies of booking requests that can be under way at once
  Drives,    \* test drives
  Jobs,      \* the workshop's jobs on this car
  Holds,     \* bound: when a hold may run out, and 0 for a booking that is no hold
  End,       \* bound: the last moment
  Buffer,    \* a unit's cleaning buffer
  MaxSpells  \* bound: periods in the fleet, and cycles in stock

ASSUME TimesAreNumbers == End \in Nat /\ Buffer \in Nat /\ Holds \subseteq Nat

VARIABLES
  now,
  use,       \* whether the car is a resource: "none", "in use" or "retired"
  unit,      \* it has been made a unit to rent
  rental,    \* [Keys -> a booking, its last event, and its block]
  ask,       \* [Asks -> a booking request under way]
  protocol,  \* [Keys -> the handover whose protocol is under way]
  drive,     \* [Drives -> a test drive and its block]
  job,       \* [Jobs -> where it is]
  shop,      \* the workshop's blocks, with the jobs that share each
  fleet,     \* the periods the car is in the fleet
  stock      \* the cycles it is in stock, the last one last

rents == <<rental, ask, protocol>>
vars  == <<now, use, unit, rents, drive, job, shop, fleet, stock>>

Open   == End + Buffer + 2      \* the end of what has no end yet
Times  == 0 .. End
Active == {"held", "confirmed"}

Span(a, b)      == [from |-> a, to |-> b]
Overlap(p, q)   == p.from < q.to /\ q.from < p.to
Within(p, q)    == q.from <= p.from /\ p.to <= q.to
Block(s, a, b)  == [status |-> s, from |-> a, to |-> b]
Ahead           == Span(now, Open)

NoBlock   == Block("none", 0, 0)
NoBooking == [state |-> "none", from |-> 0, to |-> 0, hold |-> 0, out |-> 0, block |-> NoBlock]
NoDrive   == [state |-> "none", cycle |-> 0, from |-> 0, to |-> 0, block |-> NoBlock]
Idle      == [at |-> "idle"]

Init ==
  /\ now = 0
  /\ use = "none" /\ unit = FALSE
  /\ rental = [k \in Keys |-> NoBooking]
  /\ ask = [a \in Asks |-> Idle]
  /\ protocol = [k \in Keys |-> "none"]
  /\ drive = [d \in Drives |-> NoDrive]
  /\ job = [j \in Jobs |-> "none"]
  /\ shop = {} /\ fleet = {} /\ stock = <<>>

-----------------------------------------------------------------------------
(* The ledger.                                                             *)

HoldRanOut(b) == b.block.status = "held" /\ b.hold <= now

\* rentalState: the last event, and a hold that ran out read as such.
State(k) ==
  LET b == rental[k] IN
    IF b.state = "held" /\ (b.block.status = "expired" \/ HoldRanOut(b)) THEN "hold_expired" ELSE b.state

\* release_expired_holds: holds over p that have run out are let go.
Released(p) ==
  [k \in Keys |-> IF HoldRanOut(rental[k]) /\ Overlap(rental[k].block, p)
                  THEN [rental[k] EXCEPT !.block.status = "expired"] ELSE rental[k]]

RentalBlocks(r, except) == {r[k].block : k \in Keys \ except}
DriveBlocks == {drive[d].block : d \in Drives}
ShopBlocks  == {Block("confirmed", s.from, s.to) : s \in shop}
\* A mutant: the workshop's jobs are forgotten.
LedgerWithoutShop(r, except) == RentalBlocks(r, except) \cup DriveBlocks
Ledger(r, except) == RentalBlocks(r, except) \cup DriveBlocks \cup ShopBlocks

\* freeTx: nothing that blocks is over p, the holds that ran out let go.
Free(p, except) == \A b \in Ledger(Released(p), except) : b.status \in Active => ~Overlap(b, p)

\* vehicleResourceTx, for a car bought or rented out: made, or back in use.
BringIntoUse == use' = "in use"

\* retireResourceTx: out of use, with nothing booked from now on.
TakeOutOfUse ==
  /\ use' = "retired"
  /\ rental' = IF use = "retired" THEN rental ELSE Released(Ahead)
  /\ use = "retired" \/ Free(Ahead, {})

-----------------------------------------------------------------------------
(* The fleet, and stock.                                                   *)

\* inFleetTx.
InFleet(p) == \E m \in fleet : Within(p, m)

\* AddRentalUnit: the vehicle's resource is made, or found as it is.
AddUnit ==
  /\ ~unit
  /\ unit' = TRUE
  /\ use' = IF use = "none" THEN "in use" ELSE use
  /\ UNCHANGED <<now, rents, drive, job, shop, fleet, stock>>

\* StartFleetMembership, from any moment; a car in stock then is refused by 0108.
JoinFleet(from) ==
  /\ unit /\ Cardinality(fleet) < MaxSpells
  /\ \A m \in fleet : ~Overlap(m, Span(from, Open))
  /\ \A i \in DOMAIN stock : ~Overlap(stock[i], Span(from, Open))
  /\ fleet' = fleet \cup {Span(from, Open)}
  /\ BringIntoUse
  /\ UNCHANGED <<now, unit, rents, drive, job, shop, stock>>

\* EndFleetMembership, at any moment: no rental is booked or held after it.
LeaveFleet(m, at) ==
  /\ m.to = Open /\ m.from < at
  /\ LET r == Released(Span(at, Open))
     IN  /\ \A b \in RentalBlocks(r, {}) : b.status \in Active => b.to <= at
         /\ rental' = r
  /\ fleet' = (fleet \ {m}) \cup {Span(m.from, at)}
  /\ UNCHANGED <<now, use, unit, ask, protocol, drive, job, shop, stock>>

\* A stock unit, whose cycle is one of the car's: it has not ended.
Current(c) == c \in DOMAIN stock /\ stock[c].to = Open
InStock    == Current(Len(stock))

\* openStockUnitTx: one cycle at a time, and not while in the fleet (0108).
TakeIn ==
  /\ Len(stock) < MaxSpells /\ ~InStock
  /\ \A m \in fleet : ~Overlap(m, Ahead)
  /\ stock' = Append(stock, [from |-> now, to |-> Open, sold |-> FALSE])
  /\ BringIntoUse
  /\ UNCHANGED <<now, unit, rents, drive, job, shop, fleet>>

\* moveStockUnitTx, between for sale or reserved, and sold.
Sell ==
  /\ InStock
  /\ stock' = [stock EXCEPT ![Len(stock)].sold = ~@]
  /\ UNCHANGED <<now, use, unit, rents, drive, job, shop, fleet>>

\* moveStockUnitTx, to an end: delivered, closed or written off.
EndCycle ==
  /\ InStock
  /\ stock' = [stock EXCEPT ![Len(stock)].to = now]
  /\ TakeOutOfUse
  /\ UNCHANGED <<now, unit, ask, protocol, drive, job, shop, fleet>>

-----------------------------------------------------------------------------
(* Jobs in the workshop.                                                   *)

OpenShop == {s \in shop : s.to = Open}

\* jobs_block_resources, as a job starts to hold the car: it shares the block
\* there is, or has one of its own, and is refused if the car is taken.
HoldsCar(j) ==
  \/ /\ use # "in use"
     /\ UNCHANGED <<shop, rental>>
  \/ /\ use = "in use"
     /\ \E s \in OpenShop : shop' = (shop \ {s}) \cup {[s EXCEPT !.jobs = @ \cup {j}]}
     /\ UNCHANGED rental
  \/ /\ use = "in use" /\ OpenShop = {} /\ Free(Ahead, {})
     /\ shop' = shop \cup {[from |-> now, to |-> Open, jobs |-> {j}]}
     /\ rental' = Released(Ahead)

ByWork == UNCHANGED <<now, use, unit, ask, protocol, drive, fleet, stock>>

OpenJob(j) ==
  /\ job[j] = "none"
  /\ job' = [job EXCEPT ![j] = "open"]
  /\ HoldsCar(j) /\ ByWork

\* A declined job lets the car go, and holds it again once it is invoiced.
BillDeclined(j) ==
  /\ job[j] = "declined"
  /\ job' = [job EXCEPT ![j] = "open"]
  /\ HoldsCar(j) /\ ByWork

\* A mutant: the block ends with the first job that leaves.
EndsWithTheFirst(s, j) == j \in s.jobs
\* ... as one leaves: the block ends with the last job that shares it.
EndsWith(s, j) == j \in s.jobs /\ \A i \in s.jobs \ {j} : job[i] # "open"

\* Closed or cancelled, or declined.
LeaveJob(j, as) ==
  /\ job[j] = "open"
  /\ job' = [job EXCEPT ![j] = as]
  /\ shop' = {IF s.to = Open /\ EndsWith(s, j) THEN [s EXCEPT !.to = IF s.from < now THEN now ELSE s.from + 1] ELSE s : s \in shop}
  /\ UNCHANGED rental /\ ByWork

-----------------------------------------------------------------------------
(* Rentals.                                                                *)

\* BookRental, before it locks: the key's booking is the answer, if there is one.
LookForKey(a, k, p, hold) ==
  /\ ask[a].at = "idle" /\ rental[k].state = "none"
  /\ hold = 0 \/ (now < hold /\ hold <= p.from)
  /\ ask' = [ask EXCEPT ![a] = [at |-> "looked", key |-> k, for |-> p, hold |-> hold]]
  /\ UNCHANGED <<now, use, unit, rental, protocol, drive, job, shop, fleet, stock>>

Held(p) == Span(p.from, p.to + Buffer)

\* rentalUnitForTx, bookRentalTx and insertRentalBlockTx: why a booking is refused.
MayBook(p) ==
  /\ InFleet(Held(p))
  /\ \A k \in Keys : ~(rental[k].state = "out" /\ rental[k].to < now)
  /\ use = "in use"
  /\ Free(Held(p), {})

\* bookRentalTx; one booking a key (rental_bookings_request_idx).
Book(a) ==
  LET q == ask[a] IN
  /\ q.at = "looked" /\ rental[q.key].state = "none" /\ MayBook(q.for)
  /\ rental' = [Released(Held(q.for)) EXCEPT ![q.key] =
                  [state |-> IF q.hold = 0 THEN "confirmed" ELSE "held",
                   from |-> q.for.from, to |-> q.for.to, hold |-> q.hold, out |-> 0,
                   block |-> Block(IF q.hold = 0 THEN "confirmed" ELSE "held", q.for.from, q.for.to + Buffer)]]
  /\ ask' = [ask EXCEPT ![a] = Idle]
  /\ UNCHANGED <<now, use, unit, protocol, drive, job, shop, fleet, stock>>

\* A mutant: the savepoint is rolled back and the refusal is the answer.
AnswerOnce(q) == [at |-> "refused", key |-> q.key]
\* ... and after a refusal: the key is looked for again.
Answer(q) == IF rental[q.key].state # "none" THEN Idle ELSE [at |-> "refused", key |-> q.key]

Refuse(a) ==
  /\ ask[a].at = "looked"
  /\ rental[ask[a].key].state # "none" \/ ~MayBook(ask[a].for)
  /\ ask' = [ask EXCEPT ![a] = Answer(ask[a])]
  /\ UNCHANGED <<now, use, unit, rental, protocol, drive, job, shop, fleet, stock>>

\* The person reads the answer.
Read(a) ==
  /\ ask[a].at = "refused"
  /\ ask' = [ask EXCEPT ![a] = Idle]
  /\ UNCHANGED <<now, use, unit, rental, protocol, drive, job, shop, fleet, stock>>

ByRental == UNCHANGED <<now, use, unit, ask, drive, job, shop, fleet, stock>>

\* ConfirmRentalBooking.
Confirm(k) ==
  /\ State(k) = "held"
  /\ rental' = [rental EXCEPT ![k].state = "confirmed", ![k].block.status = "confirmed"]
  /\ UNCHANGED protocol /\ ByRental

\* A mutant: a block is called off in the booking's words, which are not its own.
LetGoAsCancelled(s) == IF s \in Active THEN "cancelled" ELSE s
LetGo(s) == IF s \in Active THEN "released" ELSE s

\* CancelRentalBooking; a no-show once it was due to start.
Cancel(k) ==
  /\ \/ /\ State(k) \in {"held", "confirmed", "hold_expired"}
        /\ rental' = [rental EXCEPT ![k].state = "cancelled", ![k].block.status = LetGo(@)]
     \/ /\ State(k) = "confirmed" /\ rental[k].from <= now
        /\ rental' = [rental EXCEPT ![k].state = "no_show", ![k].block.status = LetGo(@)]
  /\ UNCHANGED protocol /\ ByRental

\* reblockTx: the block, and what it runs to, without the booking's own.
Reblocked(k, from, to) ==
  [Released(Span(from, to + Buffer)) EXCEPT ![k].block.from = from, ![k].block.to = to + Buffer]

\* MoveRentalBooking: as long as it was.
Move(k, from) ==
  LET to == from + (rental[k].to - rental[k].from) IN
  /\ State(k) \in Active /\ to \in Times
  /\ rental[k].block.status = "held" => rental[k].hold <= from
  /\ InFleet(Span(from, to + Buffer))
  /\ Free(Span(from, to + Buffer), {k})
  /\ rental' = [Reblocked(k, from, to) EXCEPT ![k].from = from, ![k].to = to]
  /\ UNCHANGED protocol /\ ByRental

\* A mutant: out early, the block is put back to the booked start.
ExtendsFrom(k) == rental[k].from
\* Out since before the booked start, the block keeps starting then.
KeepsFrom(k) == IF rental[k].block.from < rental[k].from THEN rental[k].block.from ELSE rental[k].from

\* ExtendRentalBooking.
Extend(k, to) ==
  /\ State(k) \in Active \cup {"out"} /\ rental[k].to < to
  /\ InFleet(Span(rental[k].from, to + Buffer))
  /\ Free(Span(KeepsFrom(k), to + Buffer), {k})
  /\ rental' = [Reblocked(k, KeepsFrom(k), to) EXCEPT ![k].to = to]
  /\ UNCHANGED protocol /\ ByRental

-----------------------------------------------------------------------------
(* Handovers: the car goes out, and comes back.                            *)

\* handoverMayTx.
MayGoOut(k) ==
  /\ State(k) = "confirmed"
  /\ \A i \in Keys \ {k} : rental[i].state # "out"
  /\ now < rental[k].from =>
       /\ InFleet(Span(now, rental[k].to + Buffer))
       /\ Free(Span(now, rental[k].from), {k})

\* StartHandover: a second tap carries on with the protocol under way.
StartHandover(k, kind) ==
  /\ IF kind = "out" THEN MayGoOut(k) ELSE State(k) = "out"
  /\ protocol[k] = "none"
  /\ protocol' = [protocol EXCEPT ![k] = kind]
  /\ rental' = IF kind = "out" /\ now < rental[k].from
               THEN Released(Span(now, rental[k].from)) ELSE rental
  /\ ByRental

\* AbandonHandover.
AbandonHandover(k) ==
  /\ protocol[k] # "none"
  /\ protocol' = [protocol EXCEPT ![k] = "none"]
  /\ UNCHANGED rental /\ ByRental

\* FinishHandover, of a check-out: out early, the block starts now.
GoOut(k) ==
  /\ protocol[k] = "out" /\ MayGoOut(k)
  /\ LET early == now < rental[k].from
         r     == IF early THEN Released(Span(now, rental[k].from)) ELSE rental
     IN  rental' = [r EXCEPT ![k].state = "out", ![k].out = now,
                             ![k].block.from = IF now < @ THEN now ELSE @]
  /\ protocol' = [protocol EXCEPT ![k] = "none"]
  /\ ByRental

\* The block once the car is back: early, what is left of it goes; late, it
\* runs to the return where nothing else is booked.
Back(k, b) ==
  LET until == now + Buffer IN
    CASE now > rental[k].to /\ Free(Span(rental[k].to + Buffer, until), {k}) ->
           [b EXCEPT !.to = IF @ < until THEN until ELSE @]
      [] now < rental[k].to -> IF until > b.from THEN [b EXCEPT !.to = until] ELSE [b EXCEPT !.status = "released"]
      [] OTHER -> b

\* FinishHandover, of a check-in.
ComeBack(k) ==
  /\ protocol[k] = "in" /\ State(k) = "out"
  /\ LET r == IF now > rental[k].to THEN Released(Span(rental[k].to + Buffer, now + Buffer)) ELSE rental
     IN  rental' = [r EXCEPT ![k].state = "returned", ![k].block = Back(k, @)]
  /\ protocol' = [protocol EXCEPT ![k] = "none"]
  /\ ByRental

-----------------------------------------------------------------------------
(* Test drives.                                                            *)

ByDrive == UNCHANGED <<now, use, unit, ask, protocol, job, shop, fleet, stock>>

\* driveCarFreeTx: not once its cycle has ended, or it is sold.
MayDrive(c) == Current(c) /\ ~stock[c].sold

\* BookTestDrive, before it locks the car: how it stands in stock.
LookAtCar(d, p) ==
  /\ drive[d].state = "none" /\ MayDrive(Len(stock)) /\ now <= p.from
  /\ drive' = [drive EXCEPT ![d] = [state |-> "asked", cycle |-> Len(stock), from |-> p.from, to |-> p.to, block |-> NoBlock]]
  /\ UNCHANGED rental /\ ByDrive

\* BookTestDrive, the car locked: how it stood is not read again.
BookDrive(d) ==
  LET p == Span(drive[d].from, drive[d].to) IN
  /\ drive[d].state = "asked" /\ Free(p, {})
  /\ drive' = [drive EXCEPT ![d].state = "booked", ![d].block = Block("confirmed", p.from, p.to)]
  /\ rental' = Released(p)
  /\ ByDrive

RefuseDrive(d) ==
  /\ drive[d].state = "asked" /\ ~Free(Span(drive[d].from, drive[d].to), {})
  /\ drive' = [drive EXCEPT ![d] = NoDrive]
  /\ UNCHANGED rental /\ ByDrive

\* StartTestDrive: the car as it is now.
StartDrive(d) ==
  /\ drive[d].state = "booked" /\ MayDrive(drive[d].cycle)
  /\ drive' = [drive EXCEPT ![d].state = "started"]
  /\ UNCHANGED rental /\ ByDrive

\* ReturnTestDrive and CancelTestDrive, with endDriveBlockTx.
EndDrive(d) ==
  /\ \/ drive[d].state = "started" /\ drive' = [drive EXCEPT ![d].state = "returned",  ![d].block.status = LetGo(@)]
     \/ drive[d].state = "booked"  /\ drive' = [drive EXCEPT ![d].state = "cancelled", ![d].block.status = LetGo(@)]
  /\ UNCHANGED rental /\ ByDrive

-----------------------------------------------------------------------------
Tick ==
  /\ now < End
  /\ now' = now + 1
  /\ UNCHANGED <<use, unit, rents, drive, job, shop, fleet, stock>>

Spans == {p \in [from : Times, to : Times] : p.from < p.to}

Fleets == AddUnit \/ (\E t \in Times : JoinFleet(t)) \/ (\E m \in fleet, t \in Times : LeaveFleet(m, t))
Stocks == TakeIn \/ Sell \/ EndCycle
Works  == \E j \in Jobs : OpenJob(j) \/ BillDeclined(j) \/ \E as \in {"declined", "over"} : LeaveJob(j, as)
Requests ==
  \E a \in Asks :
    \/ \E k \in Keys, p \in Spans, h \in Holds : LookForKey(a, k, p, h)
    \/ Book(a) \/ Refuse(a) \/ Read(a)
Rentals ==
  \E k \in Keys :
    \/ Confirm(k) \/ Cancel(k)
    \/ \E t \in Times : Move(k, t) \/ Extend(k, t)
    \/ \E kind \in {"out", "in"} : StartHandover(k, kind)
    \/ AbandonHandover(k) \/ GoOut(k) \/ ComeBack(k)
TestDrives ==
  \E d \in Drives :
    \/ \E p \in Spans : LookAtCar(d, p)
    \/ BookDrive(d) \/ RefuseDrive(d) \/ StartDrive(d) \/ EndDrive(d)

Next == Tick \/ Fleets \/ Stocks \/ Works \/ Requests \/ Rentals \/ TestDrives

Spec == Init /\ [][Next]_vars

-----------------------------------------------------------------------------
(* Properties.                                                             *)

Periods  == [from : Nat, to : Nat]
Blocks   == [status : {"none", "held", "confirmed", "released", "expired"}, from : Nat, to : Nat]
Bookings == [state : {"none", "held", "confirmed", "cancelled", "no_show", "out", "returned"},
             from : Nat, to : Nat, hold : Nat, out : Nat, block : Blocks]

\* Every piece of state is of its kind.
TypeOK ==
  /\ now \in Times /\ use \in {"none", "in use", "retired"} /\ unit \in BOOLEAN
  /\ rental \in [Keys -> Bookings]
  /\ ask \in [Asks -> {Idle} \cup [at : {"looked"}, key : Keys, for : Periods, hold : Nat]
                             \cup [at : {"refused"}, key : Keys]]
  /\ protocol \in [Keys -> {"none", "out", "in"}]
  /\ drive \in [Drives -> [state : {"none", "asked", "booked", "started", "returned", "cancelled"},
                           cycle : Nat, from : Nat, to : Nat, block : Blocks]]
  /\ job \in [Jobs -> {"none", "open", "declined", "over"}]
  /\ shop \subseteq [from : Nat, to : Nat, jobs : SUBSET Jobs]
  /\ fleet \subseteq Periods
  /\ stock \in Seq([from : Nat, to : Nat, sold : BOOLEAN])

\* Nothing the car is taken for overlaps anything else it is taken for,
\* whoever wrote it: the transactions see to it themselves, and the
\* exclusion constraint of 0070 never has to refuse.  (Blocks are compared
\* with whose they are, since two equal blocks of two bookings overlap too.)
Taken ==
     {[of |-> <<"rental", k>>, block |-> rental[k].block] : k \in Keys}
\cup {[of |-> <<"drive", d>>, block |-> drive[d].block] : d \in Drives}
\cup {[of |-> <<"shop", s.from, s.jobs>>, block |-> Block("confirmed", s.from, s.to)] : s \in shop}

NoOverlap ==
  \A t, u \in {t \in Taken : t.block.status \in Active} : t.of # u.of => ~Overlap(t.block, u.block)

\* A booking and its block agree, through moves, extensions and handovers:
\* the car is kept for all of the booked time and its cleaning, and from when
\* it went out; what was called off keeps nothing, and a car that is back
\* keeps no more than its return and the cleaning.
BlockFollowsBooking ==
  \A k \in Keys :
    LET b == rental[k] IN
      /\ State(k) \in Active => b.block = Block(State(k), b.from, b.to + Buffer)
      /\ b.state = "out" => /\ b.block.status = "confirmed" /\ b.block.to = b.to + Buffer
                            /\ b.block.from = IF b.out < b.from THEN b.out ELSE b.from
      /\ b.state \in {"cancelled", "no_show"} => b.block.status \notin Active
      /\ b.state = "returned" /\ b.block.status \in Active => b.block.to <= now + Buffer

\* What is rented is in the fleet for all of the time it is kept: a period
\* in the fleet does not end under a booking, nor a booking outgrow it.
RentedWithinFleet ==
  \A k \in Keys : State(k) \in Active \cup {"out"} =>
    \E m \in fleet : Within(rental[k].block, m)

\* Both: what the ledger says of a rental is what its booking and the fleet do.
BlocksAreTrue == BlockFollowsBooking /\ RentedWithinFleet

\* A request sent again finds the booking it made: it is not told that the
\* car is taken -- by itself.
RetryFindsItsBooking ==
  [][\A a \in Asks : ask'[a].at = "refused" /\ ask[a].at # "refused"
        => rental[ask[a].key].state = "none"]_vars

\* The workshop's block ends with the last of the jobs that share it: not
\* while another is open, and not later.
ShopUntilTheLastJob ==
  [][\A s \in OpenShop :
       (\E j \in s.jobs : job'[j] = "open")
         <=> \E t \in shop' : t.from = s.from /\ t.to = Open /\ s.jobs \subseteq t.jobs]_vars

\* "A job on a vehicle that is a resource blocks it for as long as the job is
\* open" (resources.go:22).
OpenJobsBlock ==
  use = "in use" => \A j \in Jobs : job[j] = "open" => \E s \in OpenShop : j \in s.jobs

\* "Declined still has to be billed" (state.go:62): no booking is in its way.
DeclinedCanBeBilled ==
  \A j \in Jobs : job[j] = "declined" /\ use = "in use" /\ OpenShop = {} =>
    \A b \in RentalBlocks(Released(Ahead), {}) \cup DriveBlocks : b.status \in Active => ~Overlap(b, Ahead)

\* "The dealer does not sell a car still being rented" (0108).
NotForSaleWhileOut ==
  InStock => \A k \in Keys : rental[k].state # "out"
=============================================================================
