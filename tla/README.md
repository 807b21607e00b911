# FreeSMS: models, checks and proofs

FreeSMS is a shop management system for a workshop that also deals in cars and
rents them out: a Go server over one PostgreSQL database, pages rendered on the
server, and two small scripts in the browser, one of which holds work typed
while there is no connection. This directory holds TLA+ models of the parts of
it where order, failure and money meet, the TLC configurations that check them
on small instances, and TLAPS proofs of what matters most.

To run: `tlc -config Outbox.cfg MCOutbox`, `tlapm OutboxProofs.tla`. Which
module each configuration belongs to, the lines every definition translates, and
a mutant for every property are in `PROJECT.json`.

## 1. The system

One process serves one shop. A request runs one or a few database transactions
at READ COMMITTED (`internal/database/scope.go`), each inside the shop's scope.
Transactions keep apart by locking rows (`FOR UPDATE`). Beside the row locks there
are advisory locks for migrations and for a rental's deposit, `sendingMu` around
the sending of messages, and the live hub's mutex. Everything that "happened" is a row added and not changed: documents,
payments, stock movements, events. Triggers and unique indexes hold what the
code promises. Beside the requests run a retention sweep, a sender of messages
and of outbox calls, and a listener for changes.

| Component | State it keeps | Operations | Interacts with | What is hard | What makes it correct |
|---|---|---|---|---|---|
| Offline queue (`keep.js`, `middleware_idempotent.go`, `drafts.go`) | the queue and the refused list in the browser's storage; claims on keys in the database | hold, flush, receive, dismiss; claim, complete, release; age, sweep | pages, session, every POST handler | lost answers, copies of a request, a crash between commit and record, two pages, sign-in and sign-out | carried out at most once, never lost, in the right name, settled in the end |
| Invoices and corrections (`invoice.go`, `credit.go`, `lines.go`) | documents by number, the series, credits tied to lines | issue, credit, rebill | job, shelf, payments | concurrent issues and credits, rounding, roll-backs after a number is taken | no gaps, one standing bill per job, never over-credited |
| Shelf (`stock.go`, `takeout.go`, `supply.go`) | a ledger of movements for each part | reserve, take out, put back, count, order, receive | job, invoice | several parts locked at once, counting a moving ledger | each part leaves once, nothing reserved in vain, counts are true |
| Payments (`payments.go`, `journal.go`, 0078-0087) | the payment journal, deposit applications | pay, refund, reverse, deposit, apply, pay out | invoice, deposit, job | what was read before a lock, an application of two halves, keys sent twice, lock order | money back within money in, no key twice, no circle |
| Closing (`closing.go`, `presence.go`) | the job's state, where the car is | close when paid and collected | payments, credits | the last payment and the collection at once | a finished job closes |
| Outbox (`outbox.go`, 0080) | calls with their events and a lease | ask, cancel, retry, finish by hand, claim, send, record | modules, erasure, providers | dead and overdue workers, a cancel during a send | one sender at a time, no late outcome undoes anything, nothing forgotten |
| Messages (`messages.go`, `booking_messages.go`, `followup.go`) | messages with their events | queue, send, retry, cancel | bookings, invoices, providers | an invoice paid or a booking moved as its message goes | nothing lost, nothing sent that is settled |
| Job life-cycle (`state.go`, `lineedit.go`, `quotes.go`, `answers.go`, ...) | a job's state, lines and their revisions, answers | transitions, edits with a revision, approval | shelf, invoice, quotes | edits from a stale page, an approval of a price that changed | no work billed that nobody agreed to without saying so |
| Resource ledger and planning (`resources.go`, `bookings.go`, `plan.go`, 0070, 0073) | blocks of time on resources | book, move, extend, release | rental, jobs | two bookings at once, exclusion against triggers | nothing in two places at once |
| Rental (`rental_*.go`) | units, bookings, handovers, charges, deposits, fines | book, hand out, take back, charge, settle | ledger, payments, invoices | a request sent twice, a deposit's hold, a return after an extension | a unit is out once, a deposit is settled once |
| Dealer (`dealer_*.go`) | stock cycles, reservations, sales, trade-ins, consignments | take in, reserve, sell, deliver, undo | invoices, payments, outbox | one car wanted by two | one cycle, one reservation, one sale |
| Live updates (`live/hub.go`, 0037) | subscriptions with bounded channels | subscribe, publish, listen, stop | every commit, open screens | full channels, reconnection | no screen stays stale unaware |
| Sessions, roles, modules (`auth`, `access`, `modules.go`) | sessions, attempts, roles, modules | sign in and out, authenticate, switch | every request | throttling, the last owner, a module switched off meanwhile | an ended session opens nothing |
| Records (`customers.go`, `imports.go`, `merge.go`, `gdpr.go`, ...) | people, vehicles, parties, identity, documents | create, import, merge, erase, sweep | all | two merges at once, an erasure against work under way | nothing lost or left over |
| Database and migrations (`internal/database`) | the schema's version | migrate, open a scope | all | two processes starting at once | each migration once, in order |

Formats (SIE, UBL, bar codes, payment references), wording and translation,
templates, the public site, deployment scripts and the readings (boards,
timelines, dashboards) keep no state of their own and are not modelled.
`PROJECT.json` lists every component with its status and the hazards of its code.

## 2. What is modelled

    HeldWork        what the offline queue promises
      ^ implemented by
    OfflineQueue    browser, network, server, claims       <- OfflineQueueProofs
    Supply          parts asked for, ordered, delivered    <- DeskProofs
    Staff           people, roles, sessions, modules       <- DeskProofs
      these three run by MCOfflineQueue and MCDesk

    Money           rounding
    RowLocks        PostgreSQL's row locks                 <- CommonProofs (with sums)
      ^ used by
    ShopBooks       the same as Invoicing, one thing at a time
      ^ implemented by
    Invoicing       documents, jobs, shelf                 <- InvoicingProofs
      run by MCInvoicing, MCInvoicingParts
    Payments        journal, deposits, closing             <- PaymentsProofs
    RentalMoney     what one rental comes to               <- PaymentsProofs
      run by MCPayments, MCPaymentsParts

    Outbox          calls, workers, leases                 <- OutboxProofs
    Messages        messages to customers                  <- OutboxProofs
      run by MCOutbox

    Fleet           one car's time: ledger, rentals, jobs  <- FleetProofs
    Deals           the sale of one car                    <- YardProofs
    WorkOrder       one job                                <- YardProofs
      run by MCYard

A module models what keeps its state under its own locks; where two meet, the
text below says which of them has what. An MC module runs several modules, each
*part* of it by itself (`Shown`): the state of the parts it is not about stands
still, so that a run costs the sum of its parts and not their product. No
property reads the state of two parts.

**OfflineQueue.** One browser with one storage and one cookie, several pages,
each rendered for a person. `queue`, `refused` are the two lists in
`localStorage`; `claims` the rows of `idempotency_keys`; a request is a slot in
`req` that goes through *sent*, *owned* (its claim is inserted), *committed* or
*failed* (its handler is through), *answered*. Each boundary is a step, so the
connection can drop, the process stop, or a copy overtake between any two. What
the work is does not matter: `carried` counts how often a key's work was
committed, and `carriedAs` in whose name. `Age` is time passing a claim (10
minutes, then 48 hours), `Sweep` the retention sweep. The page a followed
redirect lands on may answer anything.

**RowLocks, Money.** `Lock(t, row, mode)` is enabled when nobody else holds the
row in a mode that clashes; a transaction keeps its locks to its end. *update*
stands for `FOR UPDATE` and `UPDATE`, *share* for the key share of a foreign
key. `Money` has the code's half-away-from-zero rounding.

**ShopBooks.** What is on the books -- jobs and their lines, parts put aside and
taken out, the shelf, the series, the documents -- and what an invoice, a credit,
a rebilling, a line, a take-out, a put-back or a count does to them, each in one
step on the books as they are then, without transactions, locks or failures.
Its helpers (`CreditPlan` is `planCreditTx`, with shares of a line rounded one by
one and the last share whatever is left) are the ones Invoicing computes with. In
which order the lines of an invoice are taken back is left open (`SetToSeq`): the
code takes them as they are named, and nothing that is promised depends on it.

**Invoicing.** A transaction is a record in `tx`. Each step of it is one lock
the code takes and what it reads right after; its writes come together in the
step that commits, or not at all (`RollBack`, which may happen anywhere: a
failed statement, a client that goes, a deadlock ended by the database).
`OpenOrder` is the work order `FOR UPDATE` and the refusals; `Refer` the foreign
keys of the reservations' releases; `TakeNumber` the `UPDATE` of the series;
`Move` the parts in order. That this implements `ShopBooks` (`ShopSpec`) says what
all the locking is for: the books go through no state that one desk, doing one
thing after the other, could not have brought about.

**Payments.** The journal is a sequence: every row is numbered with the series
locked until its transaction ends, so rows are committed in the order of their
numbers. Refunding and reversing read the payment first and lock afterwards
(`Look`, then `LockDeposit`, `LockLast`); `seen` is how long the journal was
when a reversal read it. `LetIn` is the trigger `payment_refunds_stay_within`
(0086) with the unique indexes. It is asked of the rows of one insertion against
what is committed: nobody else's rows can come in between, since the series is
held, and the two rows of an application or its reversal are against different
things. The two halves of an application that is undone are read at one moment,
where `reverseApplicationTx` has two statements: the unique index refuses a half
that is reversed twice, whichever was read first. Crediting (which Invoicing has in full, as good as one step), collecting,
bringing back and
closing by hand are one step each, enabled while nobody holds what they lock.
Left out: the deferred trigger of 0082, which asks again what the code has
asked (the model shows that it is not needed for `ApplicationsAreWhole`);
applications reversed in one half by earlier versions, before the code reversed
both; cash invoices; the dealer's gate on a payout; dates and references.

**RentalMoney.** One rental that is over: its damage case and the steps of it, the
charges a person confirms and withdraws, a fine passed on, the invoices with
what is on each, and the deposit. Every handler takes an advisory lock of the
booking, its deposit or the fine and reads after it what only holders of that
lock change, so one handler is one step. What an application reads of the
invoice and of the deposit's journal is under the locks that Payments has.

**Outbox.** A row is the last of its events (`state`), its attempts since it was
queued, and its lease. `Look` and `Take` are one statement of the code,
`claimOutboxTx`: its CTE reads what is due with the statement's snapshot, and
`FOR UPDATE ... SKIP LOCKED` looks at nothing but the row's own columns again.
So a call that was cancelled, made or done by hand in between is claimed all the
same; the model has that window. `Check` and `Finish` are the two transactions
around a send. A lease's time may come at any moment, also before its worker
notices.

**Messages.** A message is a row, and where it stands is the last of its events.
A desk composes from what it read and queues in a second step, so a booking may
be moved or an invoice paid in between; a sender takes a message, asks again
whether it is still to go, hands it over and writes down what came of it, each a
step, and the process may stop between any two. `sendingMu` is `sending`: the
two goroutines of the code (the tick and the one started after something was
queued) exclude each other and a restart frees it. What was handed over is a
history (`copies`), also of what the provider reports later.

**Supply.** Requests for parts, orders, deliveries, substitutes, returns. A
handler that reads and then writes is two steps. PostgreSQL's READ COMMITTED is
modelled where it shows: a statement that both locks a row and sums other rows
has the sum of its snapshot, from before it waited for the lock, and only the
row itself is looked at again. Such a handler reads in the first step and locks
in the second. Where the code locks in one statement and sums in the next, the
row stays locked from the first step to the second.

**Staff.** A request authenticates in one transaction and works in another with
the roles it was authenticated with (`act`). Owners are counted by a statement
that locks them: who they are is of its snapshot, while `active` is looked at
again. Signing in and clocking in are two steps around the same window.

**Fleet.** One car: the ledger of blocks on it (`resource_blocks`), rentals with
their holds and buffer, jobs, test drives, spells in the fleet and in stock.
Writers lock the car's row in `resources` first, so what follows the lock is one
step; what is read before it (a request's key, where the car stands in stock) is
a step of its own. The exclusion constraint of 0070 is left out on purpose:
`NoOverlap` shows that it never has to refuse. A job that comes to the car by a
merge of two records is one that opens; none leaves it so, since a car with a
row in `resources` is not merged away (`merge.go:498`). Blocks written or moved by
hand (`BookResource`, `ConfirmBlock`, `ReleaseBlock`, `OverrideBlock`) are left out:
nothing calls them.

**Deals.** The sale of one car in stock: reservations and their deposits, deals,
versions of the terms, defects, contracts, the invoice, a car traded in and its
credit, delivery, cancelling. A handler holds the deal's advisory lock or the
car's row and is one step, but for the two that are not: invoicing and the
trade-in read without a lock what they go by.

**WorkOrder.** One job: the state machine, lines with revisions and what the
customer said of them, quotes presented and answered, the work list, parts
asked for, a piece of work at a supplier, required for the job or not, clocks.
That work is sent and that it is waited for are one status: nothing here tells
them apart. What locks the job's row first is one step; `ClockIn` and an arrival,
which do not, are two.

Messages and Supply share nothing with Invoicing but the job and the shelf's
ledger, of which each has its own part: Invoicing has what is put aside, taken
out and counted, Supply what suppliers bring and take back, WorkOrder what a
request does to its job. Fleet has the car while it is out, Deals its sale.

## 3. The runs

Each finishes within five minutes with two workers.

| Run | Instance | Shows |
|---|---|---|
| `desk` | *queue*: 2 keys, 2 people, 1 page, 2 requests under way; *asking*, *ordering*, *coming*: 2 clerks, a request of 2, 2 deliveries, 3 receipts and returns together; *owners*: 3 people, 2 requests; *doors*: 2 people, 2 browsers | `TypeOK`, `CarriedOutAtMostOnce`, `NothingHeldIsLost`, `SentAsWhoDidIt`, `Promise` (the queue implements `HeldWork`), `SupplyIsTrue`, `WhatEndedStaysEnded`, `OwnersKeepEachOther` |
| `offline_queue_live` | 2 keys behind each other, 1 person, 1 request | `EventuallySettled` |
| `offline_queue_retention` | 1 key that waits longer than claims are kept | **violated**: carried out twice |
| `offline_queue_two_pages` | 2 people, 2 pages of one browser | **violated**: sent in another person's name |
| `invoicing` | *corrections*: 2 jobs, 2 transactions, 5 documents, a line whose shares do not divide; *shelf*: 2 jobs that share 2 parts | `TypeOK`, `NoGaps`, `OneInvoicePerJob`, `CreditsWithinInvoice`, `BilledWhatStands`, `ReservedForOpenJobs`, `FormsCountOnce`, `ShelfIsTrue`, `ShopSpec` (one thing at a time: implements `ShopBooks`) |
| `invoicing_circle` | 2 jobs with the same part put aside | **violated**: two issues wait for each other |
| `payments` | *settling*: an invoice, a deposit that holds money, 4 more rows, 2 transactions; *cash*: the same without the deposit; *keys*: invoice, deposit, payout, 2 keys, 2 rows; *charges*, *claim*: one rental, 2 charges, 2 invoices, 2 uses of its deposit | `MoneyTypeOK`, `PaidOutWasPaidIn`, `ApplicationsAreWhole`, `NoCircle`, `OneRowPerKey`, `SettledAndClosed`, `RentalBilledOnce` |
| `outbox` | *calls*: 1 call, 2 workers, 3 leases, 2 attempts, 2 crashes; *bookings*, *desks*, *batch*, *invoices*: 2 desks, 2 senders, 2 messages, 2 tries | `TypeOK`, `OneSender`, `RestsUntilAskedFor`, `NothingIsForgotten`, `MessagesAreTrue`, `EveryMessageSettles` |
| `outbox_reminder` | 1 reminder of a booking two days away | **violated**: it goes before its hour |
| `supply_halves` | *coming* | **violated**: a request of which all has come waits on |
| `yard` | *bookings*, *requests*, *work*, *drives*: 2 bookings, 2 requests, 2 jobs, a test drive, 4 moments; *two sales*, *trade-in*, *buyers*: 2 deals, 2 reservations, 2 versions of the terms; *quotes*, *work list*, *waiting*, *supplier*: 2 lines, 2 quotes, 2 tasks, 2 requests, 1 mechanic | `YardTypeOK`, `NoOverlap`, `BlocksAreTrue`, `RetryFindsItsBooking`, `ShopUntilTheLastJob`, `CarFollowsItsSale`, `InvoicedTermsStand`, `WorkStands`, `NewWorkIsNotReady` |
| `deals_deposit` | *two sales* | **violated**: a deposit pays somebody else's invoice |

Some properties are conjunctions of several that belong together:
`SettledAndClosed` of `PaysWhatIsOwed` and `ClosedWhenPaid`; `PaidOutWasPaidIn`
of `GivenBackWasPaidOver`, `DepositsNeverNegative` and `RefundsWithinPayment`;
`CreditsWithinInvoice` of `NeverOverCredited`, `CreditsAddUp` and `BilledOnce`;
`WorkStands` of `AgreedAsQuoted` and `NothingDoneIsCancelled`; `MessagesAreTrue`
of `HandedOverOnce`, `SentWasTaken` and `OncePerTime`. `OneOwner` of the offline
queue is not in a run; it is proved (`OneRequestOwnsTheWork`).

**Why the bounds are enough.** Every hazard here is between two: two requests,
transactions, workers, buyers, desks. Two keys are needed for an item that waits
behind another, two documents for a gap, a document, its credits in two shares, a
replacement and its credit (five) for the circle of credit and rebill. Undoing
an application is the fifth row of a deposit's life, so *settling* starts from
`InitPaidIn`, whose first row has been paid in; a step of another transaction
fits before, between and after, and before the fifth row one that pays goes
beside one that undoes an application. `Total` 10 with amounts of 5 lets two settle,
one overpay, and a credit take half; `Coin` and `Margin` of 4 make cash round
and let an overpayment need saying. Rows of the outbox have nothing in common
but the workers, and a worker has one row at a time, so one call is enough; three
leases are one for the row and one for each worker, so there is always a fresh
one, as in the code, where a lease is the moment it was taken. Two crashes kill
both workers. A request of two parts is the least that comes in halves; two
spells of a car's time, with one moment before and one after, are the least that
can touch; the last of two owners needs a third person to be made one. A price
of two is the least that can go up and down.

What each part leaves out is its `Fits` in the MC module, and `MaxSpells`,
`MaxRows`, `MaxFaults` and the like bound how often things happen again. Some
deserve a word. In *settling* requests carry no key, and a return that is said to leave
something paid over (`ConfirmedOverpayment`) is made only as the fifth row; in
*keys* there is none, and no car is there; with a *supplier* the job is neither
closed nor awaiting parts, and work that is not required is asked for where
nothing was quoted; in *two sales* the car is not on consignment and in those parts where no
sale is under the margin scheme its assessment is fixed (`Unassessed`); in
*waiting* clocks and two requests are looked at apart; in *bookings* one booking
at most is held; on the *shelf* the one part is counted that the other is like,
and of *corrections* the fifth document is made when one job has them all. Of
the messages each part has one kind of subject, a day is an hour, *desks* queues
and does not send, *batch* sends two and nothing fails. A configuration gives
several CONSTANTS the same model values (the lines of a job and the keys of
bookings, say) where no part has both: there are fewer permutations to try, and
no property compares the two. The theorems of section 5 are about the modules as
they are, without `Fits` and without parts, and of `payments` and `yard` also
about what is run.

**Deadlock** is checked in `invoicing_circle`, where a transaction can always
roll back; that two wait for each other is asked by `NoCircle` and
`IssuesNeverWaitInACircle`. It is not checked where the system may really stop or
the bounds end it: an empty offline queue with everything done and swept, all
documents or rows of the bound made, a call or a message that is done, a car's
time at its end.

**Fairness.** *Offline queue*: pages keep being loaded, and each load flushes,
which is the only retry the code has; the server finishes what it starts (weak
fairness of each stage). What keeps being tried is not always lost: strong
fairness of reaching the server, of a handler that commits or refuses, and of an
answer that reaches its page. `EventuallySettled` asks moreover that the person
stays signed in. *Outbox*: `sendLoop` runs the outbox for as long as the process
lives, and takes what has been due longest first (`ORDER BY due_at`), so a call
that keeps being due is looked at: strong fairness of `Look` for each call. A
worker goes on (weak fairness), unless it dies. A provider gets half a lease
(`context.WithTimeout(ctx, outboxLease/2)`), so that a lease always runs out
before its worker is through is not a behaviour of the code: strong fairness of
going on while the lease is its own. Leases run out. *Messages*: a sender goes
on with what it does (weak fairness of `SendSteps` for each), the rest before a
retry ends, and the clock runs; nothing is asked of customers, desks or
providers, and a process that dies does so `MaxFaults` times.

## 4. What the runs found

1. *Retention* (`offline_queue_retention`): claims are swept after 48 hours and
   held items never expire, so a tablet that stays offline over a long weekend
   after its answer was lost does the work again.
2. *Two pages* (`offline_queue_two_pages`): a page sends the items of the person
   it was rendered for with the cookie the browser has now.
3. *Lock order* (`invoicing_circle`): issuing takes key shares on parts through
   its releases before it locks the same parts in order.
4. *Reminders* (`outbox_reminder`): the hour a reminder is given is replaced by
   the present one, so it goes when it is queued.
5. *Halves* (`supply_halves`): what has come of a request is summed by the
   statement that waits for the request's lock; of two halves booked at once
   neither finishes it.
6. *Deposits* (`deals_deposit`): a second buyer's invoice is paid with the first
   one's deposit when the first sale was called off.

Each is quoted with its lines in `PROJECT.json`.

Seen in the models or while reading, with no run of their own. Properties named
here are defined in their modules, under "What is said and is not so":

- *Invoices*: what is left of a line after an adjustment cannot be credited as a
  whole (`credit.go:212`, `invoice.go:306`). A credit, refund or reversal that
  leaves nothing owed does not close a collected job (`credit.go:383`,
  `closing.go:17`).
- *Rental*: a deposit may settle more than the customer was last told
  (`DepositTakesWhatWasTold`); damage withdrawn from an invoice that stands can
  be billed again (`DamageBilledOnce`).
- *Outbox*: a cancelled call can be claimed by a statement that had read it
  before; a call whose worker dies at every attempt is never given up, because
  attempts are compared with their limit only when a failure is recorded.
- *Messages*: a message kept when a booking moves goes to the number it had
  (`bookings.go:281`); a late retry revives a stopped message; a delivery report
  that overtakes the record of the sending is lost (`handlers_messages.go:264`).
- *Supply*: two returns of one delivery planned at once both pass
  (`supply.go:515`).
- *Staff*: a sign-in or a clock-in under way outlives the switch that should end
  it; the shop can lose its last owner when two owners turn on each other at once
  (`session.go:318`, `staff.go:175`); `OwnersKeepEachOther` names these ways and
  shows that there are no others.
- *Jobs*: a ready job gets work without leaving ready, against `tasks.go:251-253`
  and the refusal of `state.go:352`, when the customer says yes to a line they
  had turned down (`quotes.go:621`), when the performed mark is taken off such a
  line, which clears that it was declined (`performed.go:57`), when required work
  is asked of a supplier (`outsourced.go:264`), and when work that was accepted
  from them fails its check after all (`outsourced.go:383`). `NewWorkIsNotReady`
  names these ways and shows that there are no others.
  Accepted work of a supplier marks its line performed on a cancelled or
  invoiced job (`outsourced.go:383`); a clock-in that read the state before the
  job was cancelled leaves a time entry on it (`queries.go:375`), which cancelling
  would have refused as work (`state.go:438`), and which `NothingDoneIsCancelled`
  does not count; two arrivals at once leave the job awaiting parts
  (`handover.go:279`).
- *Dealer*: a lead's events are written without the lead's lock by the deal
  (`dealer_sales.go:497`, `:709`), so a move that races a completed deal un-wins
  it.
- *Records* (read, not modelled): a deal or a job taken to a party while it is
  merged away makes a customer of the merged party (`parties.go:675`); a page
  opened before an erasure writes the erased details back (`records.go:405`).
- *Browser*: storage that is full when a refusal is written down loses the item
  (`keep.js:426`).

## 5. What is proved

TLAPS checks these for every value of the constants, under the named
assumptions of each module (that `None` is not a key, that bounds are numbers).
Each component has an inductive invariant or two, a lemma for `Init`, one step lemma
per action with a step for each conjunct that the action can disturb, and the
theorems in a line or two from there. The modules' specifications are used as
they are (`SpecStaff`, `SpecWork`, `SpecDeals`, `SpecMessages`, `Spec`): the parts
that runs look at one by one may all happen together. Each invariant was first
run by TLC, on the instances of section 3 or larger ones: 255,077 states for the
offline queue, 403,791 for Fleet, 7.2 million for Staff, 194,579 for a job,
342,874 for a sale, 89,162 for messages, 391,337 for the money of Payments, 695,392 for
Invoicing, 268,509 for supply (and 16 million to depth 11 with more of everything).

**OfflineQueueProofs.** `TypeCorrect`, `SendsAtMostOnce`, `HeldWorkIsKept`,
`SentAsItsAuthor`, `OneRequestOwnsTheWork`, and the refinement
`QueueKeepsItsPromise`: every step of the queue is a step of `HeldWork` or a
stutter. At-most-once is not inductive: what keeps a second attempt out is the
claim, so the invariant says that work done is behind a claim for as long as it
could be sent again (`DoneStaysClaimed`), that a claim old enough to be swept is
one nothing can ask for (`OldMeansOver`), that one request runs a key's work
(`OneOwner`), and that only what was held has left a trace (`OnlyHeldWork`,
`RequestsAreReal`). `Kept` adds where each item is, `Theirs` whose cookie the
browser has. Three hypotheses are needed, and the runs show why: no item
outlives its claim (`~HeldPastRetention`, else `offline_queue_retention`); one
page (else `offline_queue_two_pages`); the browser's storage takes what is
written to it (`WritesAreTaken`, else a refusal is lost, section 4).

**CommonProofs.** A lock taken keeps rows apart that have to be, one transaction
has a row for update, and letting go keeps the rest. Then sums over finite sets:
`SumFunctionOnSet` is a CHOOSE of a recursive function, so that it exists and what
it comes to for one element more is itself proved, by looking at a smallest
subset that would refute it (the subsets of a finite set are well founded). From
that: sums of naturals are naturals, of disjoint sets add up, change with one
element by its difference, and are no more for fewer.

**InvoicingProofs.** `TransactionsKeepApart` (the invariant),
`NumbersHaveNoGaps`, `JobsAreBilledOnce`, `InvoicesAreTrue`,
`NothingReservedInVain`. All rest on what a transaction holds: the order it
asked about, still open (`Held`), and once numbered the series, still at its
number (`HasNumber`); with locks kept apart, nobody commits about either in
between. One step lemma per action, and one for each kind of commit.

`WhatWasDecidedIsSo` (`JInv`) is the second invariant, beside the first, and
gives `InvoicingIsTyped`, `CreditsStayWithinInvoices` and `TheShelfIsTrue`. Neither
"no more is credited than was billed" nor "each line comes out even" is inductive
alone: a credit under way will take what it planned before it had its number. So
the invariant says of whoever corrects an invoice that they hold it and that the
plan would still be made and let in as it was (`Corrects`); of whoever moves parts
that they hold those they have come to, and move what the job still needs or the
count still differs by (`Moves`); and of one job's documents that all but one were
replaced, and what was replaced was taken back whole (`Chain`). What is left of an
invoice is a sum over its credits, of a line a sum over the credit lines that name
it. `Untouched` says whose documents leave both alone, `CreditAdded` what one
credit more takes from each, `PlanFits` what a plan may put on its lines: one line
of the credit for each line named, above nothing and no more than is left, and all
of the money when it is all of the quantity. `OthersStaySure` is the step common to
all commits: what is written is about rows the writer holds, so nobody else's
decision is about them. `AmountsAreNat` has the rounding: of amounts that are
not below nothing it makes one that is not, and of nothing nothing.

`OneAtATime` is the refinement: the transactions implement `ShopBooks`. A commit
writes what was decided steps before it, so that it does what the action of
`ShopBooks` does now takes that nothing the decision went by has changed. Of the
plan, the bill and the parts `JInv` says so; the third invariant,
`WhatWasAskedIsSo` (`KInv`), adds the rest: an invoice under way still has lines,
a correction's key has not been used in between, and what is taken out or put
back is moved as asked (`StillAsked`). Then each commit is shown to be its action
(`InvoiceAtOnce`, `CorrectionAtOnce`, ...; a put-back of more than is out is
refused) and every other step to leave the books alone (`NextIsAtOnce`). What
ShopBooks promises then holds of the transactions without a word about them:
`FormsAreAnsweredOnce` is proved there, by one lemma about one document more.

Beside the constants' shapes this assumes what the code refuses: quantities and
prices of lines below nothing (lines.go:66-78), take-outs, put-backs and
counts below nothing (takeout.go:85, 119; stock.go:746), and adjustments that are
not an amount at a rate (credit.go:261-286).

**PaymentsProofs.** Three layers. `JournalIsKept` (`IInv`) gives
`KeysMoveMoneyOnce` and `NobodyWaitsInACircle`: a key is looked up under the
series and the series is held to the commit (`HasSeries`); every transaction
locks upwards -- deposits, invoices, the series, jobs (`Climbs`) -- whence nobody
waits for somebody who waits for them, which needs an application to be of a
deposit to an invoice wherever it is kept (`Pairs`, `Own`, `Asked`).
`MoneyIsKept` (`MoneyInv`) gives `PaidOutAtMostWhatCameIn`,
`DepositsArePaidWhole` and `JournalIsTyped`: what a row says of the journal is so
(`Lawful`), the halves of an application are decided, reversed and looked at
together (`HalvesAreWhole`, `Looked`, `Written`), and what the trigger let in it
would let in still when it is committed, since nobody else is past the series
(`StillLetIn`). `DecisionsStand` (`PayInv`) gives `InvoicesAreSettledOnce`: what a
transaction decided from is locked until it commits (`Under`), the job too when
it closes it (`Closing`).

**OutboxProofs.** `LeasesAreKept` (the invariant), `OutboxTypeIsCorrect`,
`OneWorkerSends`, `SettledIsSettled`: a running lease is its row's
(`RunningIsHeld`), no lease is given twice (`LeasesDiffer`), and a call whose
lease a worker still has is under way or cancelled (`HeldIsUnderWay`), so an
outcome can only be written to a call that awaits one. Of messages,
`MessagesAreKept` (`TellInv`), `MessagesTellTheTruth`, `MessagesAreWellFormed`:
the lock lets one sender through, what is being taken is the last thing known of
a message, and what is over stays over.

**PaymentsProofs, of a rental.** `RentalFits` (`RentalInv`),
`RentalsAreBilledOnce`, `RentalTypeIsCorrect`: what is on a bill was there and
told of (`OnBills`, `ToldOf`), nothing is on two that stand (`StandOnce`), and
one damage charge is confirmed at a time (`OneDamage`). What a fine is with is the one charge its decision names (`OneFine`).

**PaymentsProofs, in parts.** `JournalIsKept` and the theorems after it start from
an empty journal; *settling* starts from one with a deposit paid in.
`PartsAreAsPromised` is about what is run: all four invariants hold of `InitPaidIn`
too (`PaidInIsGood`, `PaidInMoney`, `PaidInPays`), a step of a part is one of the
journal or one of the rental (`StepsOfParts`), and so everything promised of either
holds of both. `MoneyIsTyped` is the type invariant of the two.

**FleetProofs.** `LedgerFits` (the invariant), `TypeIsCorrect`,
`NothingOverlaps`, `BlocksAndBookingsAgree`, `RetriesFindTheirBooking`,
`ShopEndsWithItsLastJob`. That nothing overlaps is not inductive by itself: a
booking is let in by what the ledger says, so the ledger must have the very
block of each booking, job and drive that stands (`BlocksAreTrue`), and a request
under way must still be right about its key.

**DeskProofs.** Of the shop's people, `RequestsAndPeopleFit` (the invariant),
`EndedStaysEnded`, `LastOwnerStays`: whoever a request counted on as an owner is
locked, active and somebody else until it is through, so that an owner is lost
only in the two ways that the property names. Of what suppliers bring,
`SupplyFits` (`SupplyInv`) and `WhatSuppliersBringIsTrue`: of one delivery at most
one receipt reaches a request (`ReachOnce`), a clerk has the row locked whose
reading is acted on, no two have the same one (`ClerkFits`, `OneClerk`), and what
a clerk counted on has come, though more may have come since (`Counted`). The
last is why no request finishes early though one may finish late
(`supply_halves`): what a stale sum leaves out can only be missing.

**YardProofs.** Of a job, `JobFits`, `JobTypeIsCorrect`, `WorkIsAgreedAndKept`,
`ReadyStaysDone`: an approval names a quote that had the line, at no less; a step
comes to be open on a job that stays ready only as its own line, which was
declined, is taken up, and work at a supplier only by being asked for or
failing its check. Of a sale, `SaleFits`, `SaleTypeIsCorrect`, `CarStaysWithItsSale`,
`TermsStandOnceInvoiced`: one deal lives at a time, the car points at the
contracted one, and an invoice being made has its deal contracted though what it
is made from was read before. `YardIsTheThree`: the fleet, the sales and the job
of the run `yard`, in whatever order their steps come and however far each part
goes, are each what they are alone, so that their theorems are about that run;
`YardIsTyped` puts their type invariants together.

**Only model-checked.** Liveness (`EventuallySettled`, `NothingIsForgotten`,
`EveryMessageSettles`) is out of the prover's reach. What the violated
runs show is TLC's. Every invariant and action property that a passing run
checks has its theorem.

## 6. The plan

Done: the modules of section 2 with their runs, and the theorems of section 5.
Order of what is left:

1. `SettledAndClosed` with Invoicing's credits in place of the one step they are
   in Payments. That they may be one step is `OneAtATime`; what is left is to
   compose Payments with ShopBooks over the documents they share.
2. Records (customers, parties, merges, erasure) and leads: the hazards of
   section 4 as runs.
3. Cash invoices and bank matching; planning beside Fleet; the live hub's bounded
   channels.

## 7. What is not modelled, and why

Row-level security, the SQL and the pages are taken at their word; who may do
what is left out wherever it is a refusal without effect, but in Staff. Time is
order: dates appear only where a retention, a lease, a period or staleness turns
on them. A transaction whose COMMIT succeeds while the server is told it failed
is not in OfflineQueue. One shop, one database and one process
are modelled, the last because that is how the system is deployed; the outbox
allows several.

Live updates, migrations, drafts, attachments, imports, records and leads, cash
invoices and the workshop's planning are components not modelled, each with its
reason in `PROJECT.json`. The map covers about a seventh of the
implementation's lines: of the rest, most is readings (boards, lists, timelines,
figures, exports), pages and their forms, look-ups, formats and messages' texts,
which keep no state and about which no property here says anything; the sets of
states of what is left would not be small for being written down.
