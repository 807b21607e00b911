------------------------------ MODULE Payments ------------------------------
(***************************************************************************)
(* The payment journal: payments.go, the deposits and refunds of           *)
(* journal.go, the rules the database holds about them (migrations 0081,   *)
(* 0082, 0083 and 0086), and closing a job that is paid and collected      *)
(* (closing.go, presence.go).  Transactions lock rows and commit as in     *)
(* Invoicing.                                                              *)
(*                                                                         *)
(* Rows are only ever added, each with the series locked until its         *)
(* transaction ends, so the committed journal is a sequence, a row is its  *)
(* place in it, and what a transaction has read of it before it held any   *)
(* lock is how long it was.  Each invoice is the one of a job.  Dates,     *)
(* references, reasons, a provider's ids and who may do what are left out; *)
(* ways of paying are cash, a deposit and the rest.                        *)
(***************************************************************************)
EXTENDS Integers, Sequences, FiniteSets, SequencesExt, Money, RowLocks

CONSTANTS
  Invoices, Deposits, Payouts,  \* what a payment can be against
  Keys,        \* the keys of the requests people send
  Amounts,     \* amounts they name
  Total,       \* what an invoice was issued for
  Coin,        \* what cash is rounded to
  Margin,      \* overpaymentMargin
  MaxRows,     \* bound: rows in the journal; at it nobody asks for more
  NoKey

ASSUME TargetsDiffer   ==
  Invoices \cap Deposits = {} /\ Invoices \cap Payouts = {} /\ Deposits \cap Payouts = {}
ASSUME AmountsAreMoney == Amounts \subseteq Nat \ {0} /\ Total \in Nat /\ Margin \in Nat
ASSUME CoinsAreMoney   == Coin \in Nat \ {0}
ASSUME NoKeyIsNoKey    == NoKey \notin Keys
ASSUME MaxRowsIsReal   == MaxRows \in Nat

VARIABLES
  rows,        \* invoice_payments, committed, in the order of their numbers
  halves,      \* deposit_applications: <<out of the deposit, into the invoice>>
  credited,    \* [Invoices -> what has been credited]
  job,         \* [Invoices -> "invoiced" | "closed"], the job of each
  here,        \* [Invoices -> BOOLEAN], its car is in the shop
  tx           \* [Txs -> what the connection's transaction is doing]

books == <<rows, halves, credited, job, here>>
vars  == <<books, tx, holds>>

-----------------------------------------------------------------------------
(* What the journal says.                                                  *)

Numbers       == DOMAIN rows
Settles(r)    == r.amount + r.rounding
On(x)         == {n \in Numbers : rows[n].on = x}
SettledBy(ns) == SumFunctionOnSet([n \in Numbers |-> Settles(rows[n])], ns)

Owed(i) == Total - credited[i] - SettledBy(On(i))
Held(d) == SettledBy(On(d))

\* As somebody who read the first k rows knew it, and as it is.
ReversedBy(n, k) == \E m \in Numbers : m <= k /\ rows[m].reverses = n
Reversed(n)      == ReversedBy(n, Len(rows))
KeyUsed(k)       == k # NoKey /\ \E n \in Numbers : rows[n].key = k

IsReceipt(n) == rows[n].amount > 0 /\ rows[n].reverses = 0 /\ rows[n].refunds = 0 /\ ~rows[n].deposit
RefundsOf(n) == {m \in Numbers : rows[m].refunds = n /\ ~Reversed(m)}
Refunded(n)  == -SumFunctionOnSet([m \in Numbers |-> rows[m].amount], RefundsOf(n))

\* What was given back on an invoice: refunds and overpayments returned.
GivesBack(r) == \/ r.refunds # 0
                \/ r.reverses = 0 /\ ~r.deposit /\ Settles(r) < 0
GivenBack(i) == -SettledBy({n \in On(i) : GivesBack(rows[n]) /\ ~Reversed(n)})

-----------------------------------------------------------------------------
(* What the database lets in (the trigger payment_refunds_stay_within and  *)
(* the unique indexes), asked of each row as it is inserted.               *)

ReversesOnce(r) ==
  r.reverses # 0 =>
    /\ rows[r.reverses].reverses = 0 /\ ~Reversed(r.reverses)
    /\ rows[r.reverses].refunds = 0 => RefundsOf(r.reverses) = {}
RefundsWithin(r) ==
  r.refunds # 0 =>
    /\ IsReceipt(r.refunds) /\ ~Reversed(r.refunds)
    /\ Refunded(r.refunds) - r.amount <= rows[r.refunds].amount
DepositHolds(r) == r.on \in Deposits /\ Settles(r) < 0 => Held(r.on) + Settles(r) >= 0
\* A mutant: 0083, which asks it of an overpayment returned only.
InvoiceOwesBackOnReturn(r) ==
  r.on \in Invoices /\ Settles(r) < 0 /\ r.refunds = 0 /\ r.reverses = 0 /\ ~r.deposit =>
    Owed(r.on) - Settles(r) <= 0
InvoiceOwesBack(r) ==
  r.on \in Invoices /\ Settles(r) < 0 =>
    LET given == GivenBack(r.on) + IF GivesBack(r) THEN -Settles(r) ELSE 0
    IN  given > 0 => Owed(r.on) - Settles(r) <= 0
\* A mutant: no unique index on the key.
AnyKey(r)     == TRUE
OncePerKey(r) == ~KeyUsed(r.key)

LetIn(r) ==
  ReversesOnce(r) /\ RefundsWithin(r) /\ DepositHolds(r) /\ InvoiceOwesBack(r) /\ OncePerKey(r)

-----------------------------------------------------------------------------
(* Requests, the rows they lock and the rows they write.                   *)

JobRow(i) == <<"job", i>>
Target(x) == <<"target", x>>
SeriesRow == <<"series", "B">>

MaybeKey == Keys \cup {NoKey}
\* An amount of 0 is none: it settles what is owed.
Paid ==
  {r \in [does : {"pay"}, on : Invoices, amount : Amounts \cup {-a : a \in Amounts} \cup {0},
          cash : BOOLEAN, sure : BOOLEAN, key : MaybeKey] :
     (r.cash => r.amount = 0) /\ (r.sure => r.amount # 0)}
Received  == [does : {"receive"}, on : Deposits, amount : Amounts, key : MaybeKey]
PaidOut   == [does : {"pay out"}, on : Payouts, amount : Amounts, key : MaybeKey]
Applied   == [does : {"apply"}, from : Deposits, on : Invoices, amount : Amounts, key : MaybeKey]
Refunding == [does : {"refund"}, row : Numbers, amount : Amounts, key : MaybeKey]
Reversing == [does : {"reverse"}, row : Numbers]

Idle == [at |-> "idle", req |-> [does |-> "nothing"], seen |-> 0, want |-> <<>>, rows |-> <<>>,
         closes |-> FALSE]
Does(t, what) == tx[t].req.does = what

Moved(x, amount, key) ==
  [on |-> x, amount |-> amount, rounding |-> 0, deposit |-> FALSE, reverses |-> 0, refunds |-> 0, key |-> key]
Undone(n) ==
  [rows[n] EXCEPT !.amount = -@, !.rounding = -@, !.reverses = n, !.refunds = 0, !.key = NoKey]
Settlement(r) ==
  LET owed == Owed(r.on)
      coins == IF r.cash THEN CashRound(owed, Coin) ELSE owed
  IN  [Moved(r.on, coins, r.key) EXCEPT !.rounding = owed - coins]

IsHalf(n)   == \E h \in halves : n \in {h[1], h[2]}
HalvesOf(n) == CHOOSE h \in halves : n \in {h[1], h[2]}

\* A mutant: the invoice before the deposit.
ToLockInvoiceFirst(n) ==
  CASE rows[n].deposit                               -> <<rows[HalvesOf(n)[2]].on, rows[HalvesOf(n)[1]].on>>
    [] ~rows[n].deposit /\ rows[n].on \in Payouts    -> <<>>
    [] ~rows[n].deposit /\ rows[n].on \notin Payouts -> <<rows[n].on>>
\* What paymentTargetTx and reverseApplicationTx lock: what the payment was
\* against, a deposit before an invoice, and nothing for a payout.
ToLock(n) ==
  CASE rows[n].deposit                               -> <<rows[HalvesOf(n)[1]].on, rows[HalvesOf(n)[2]].on>>
    [] ~rows[n].deposit /\ rows[n].on \in Payouts    -> <<>>
    [] ~rows[n].deposit /\ rows[n].on \notin Payouts -> <<rows[n].on>>

\* balanceTx and depositTx, FOR UPDATE.
LockTarget(t, x) == Lock(t, Target(x), "update")

Over(t) == tx' = [tx EXCEPT ![t] = Idle] /\ Unlock(t)

-----------------------------------------------------------------------------
(* Transactions.                                                           *)

Init ==
  /\ rows = <<>> /\ halves = {}
  /\ credited = [i \in Invoices |-> 0]
  /\ job = [i \in Invoices |-> "invoiced"]
  /\ here \in [Invoices -> BOOLEAN]
  /\ tx = [t \in Txs |-> Idle]
  /\ holds = NothingHeld

Ready(t) == tx[t].at = "idle" /\ Len(rows) < MaxRows
\* The rows the request r comes to, decided under the locks.
Decided(t, r, written) == tx' = [tx EXCEPT ![t].at = "writing", ![t].req = r, ![t].rows = written]

\* RecordPayment.
Pay(t) ==
  /\ Ready(t)
  /\ \E r \in Paid :
       LET owed == Owed(r.on)
       IN  /\ LockTarget(t, r.on)
           /\ ~KeyUsed(r.key)
           /\ r.amount < 0 => owed - r.amount <= 0
           /\ r.amount > owed + Margin => r.sure
           /\ r.amount = 0 => owed > 0
           /\ Decided(t, r, <<IF r.amount = 0 THEN Settlement(r) ELSE Moved(r.on, r.amount, r.key)>>)
  /\ UNCHANGED books

\* RecordDepositPayment.
Receive(t) ==
  /\ Ready(t)
  /\ \E r \in Received :
       /\ LockTarget(t, r.on)
       /\ ~KeyUsed(r.key)
       /\ Decided(t, r, <<Moved(r.on, r.amount, r.key)>>)
  /\ UNCHANGED books

\* RecordPayout, which locks nothing.
PayOut(t) ==
  /\ Ready(t)
  /\ \E r \in PaidOut : ~KeyUsed(r.key) /\ Decided(t, r, <<Moved(r.on, -r.amount, r.key)>>)
  /\ UNCHANGED <<books, holds>>

\* ApplyDeposit: the deposit and then the invoice.
Apply(t) ==
  /\ Ready(t)
  /\ \E r \in Applied :
       /\ LockTarget(t, r.from)
       /\ tx' = [tx EXCEPT ![t].at = "locking", ![t].req = r, ![t].want = <<r.on>>]
  /\ UNCHANGED books
DecideApply(t) ==
  LET r == tx[t].req
  IN  /\ tx[t].at = "locking" /\ Does(t, "apply")
      /\ LockTarget(t, r.on)
      /\ ~KeyUsed(r.key)
      /\ r.amount <= Held(r.from) /\ r.amount <= Owed(r.on)
      /\ Decided(t, r, <<[Moved(r.from, -r.amount, r.key) EXCEPT !.deposit = TRUE],
                         [Moved(r.on, r.amount, NoKey) EXCEPT !.deposit = TRUE]>>)
      /\ UNCHANGED books

\* RefundPayment and ReversePayment: they read the payment, and refuse it, and
\* only then lock.
Look(t) ==
  /\ Ready(t)
  /\ \E r \in Refunding \cup Reversing :
       /\ IF r.does = "refund" THEN IsReceipt(r.row) /\ ~Reversed(r.row)
          ELSE IF rows[r.row].deposit THEN IsHalf(r.row) ELSE rows[r.row].reverses = 0
       /\ tx' = [tx EXCEPT ![t].at = "locking", ![t].req = r, ![t].want = ToLock(r.row),
                           ![t].seen = IF r.does = "reverse" THEN Len(rows) ELSE 0]
  /\ UNCHANGED <<books, holds>>
LockDeposit(t) ==
  /\ tx[t].at = "locking" /\ Len(tx[t].want) = 2
  /\ LockTarget(t, Head(tx[t].want))
  /\ tx' = [tx EXCEPT ![t].want = Tail(@)]
  /\ UNCHANGED books
LockLast(t) ==
  CASE tx[t].want = <<>>    -> UNCHANGED holds
    [] Len(tx[t].want) = 1  -> LockTarget(t, Head(tx[t].want))
    [] OTHER                -> FALSE

DecideRefund(t) ==
  LET r == tx[t].req
      x == rows[r.row].on
  IN  /\ tx[t].at = "locking" /\ Does(t, "refund")
      /\ LockLast(t)
      /\ ~KeyUsed(r.key)
      /\ x \in Deposits => r.amount <= Held(x)
      /\ Decided(t, r, <<[Moved(x, -r.amount, r.key) EXCEPT !.refunds = r.row]>>)
      /\ UNCHANGED books

\* A mutant: the row the person pointed at, and not its other half.
UndoneInOne(n, seen) == <<Undone(n)>>
\* reverseApplicationTx: the halves that were not reversed when they were read,
\* which is one moment here and two statements there: a half reversed in
\* between is refused as it is inserted (ReversesOnce).
UndoneTogether(n, seen) ==
  LET undone(m) == IF ReversedBy(m, seen) THEN <<>> ELSE <<Undone(m)>>
  IN  undone(HalvesOf(n)[1]) \o undone(HalvesOf(n)[2])

DecideReverse(t) ==
  LET n == tx[t].req.row
      undone == IF rows[n].deposit THEN UndoneTogether(n, tx[t].seen) ELSE <<Undone(n)>>
  IN  /\ tx[t].at = "locking" /\ Does(t, "reverse")
      /\ LockLast(t)
      /\ undone # <<>>
      /\ ~rows[n].deposit /\ rows[n].refunds = 0 => RefundsOf(n) = {}
      /\ Decided(t, tx[t].req, undone)
      /\ UNCHANGED books

\* insertPayment: the number first, and the series with it until the end, so
\* that nobody else's rows come between these checks and the commit.
Insert(t) ==
  /\ tx[t].at = "writing"
  /\ Len(rows) + Len(tx[t].rows) <= MaxRows
  /\ Lock(t, SeriesRow, "update")
  /\ \A k \in DOMAIN tx[t].rows : LetIn(tx[t].rows[k])
  /\ tx' = [tx EXCEPT ![t].at = IF Does(t, "pay") \/ Does(t, "apply") THEN "closing" ELSE "ending"]
  /\ UNCHANGED books

OwnOn(t, i) ==
  LET own == {k \in DOMAIN tx[t].rows : tx[t].rows[k].on = i}
  IN  SumFunctionOnSet([k \in own |-> Settles(tx[t].rows[k])], own)
Finished(i, owed) == job[i] = "invoiced" /\ ~here[i] /\ owed = 0

\* A mutant: the work order is read without FOR UPDATE.
CloseReading(t) ==
  /\ tx[t].at = "closing"
  /\ LET i == tx[t].req.on
     IN  tx' = [tx EXCEPT ![t].at = "ending", ![t].closes = Finished(i, Owed(i) - OwnOn(t, i))]
  /\ UNCHANGED <<books, holds>>
\* closeIfFinishedTx, after money came in.
Close(t) ==
  /\ tx[t].at = "closing"
  /\ LET i == tx[t].req.on
     IN  /\ Lock(t, JobRow(i), "update")
         /\ tx' = [tx EXCEPT ![t].at = "ending", ![t].closes = Finished(i, Owed(i) - OwnOn(t, i))]
  /\ UNCHANGED books

Commit(t) ==
  /\ tx[t].at = "ending"
  /\ rows' = rows \o tx[t].rows
  /\ halves' = halves \cup IF Does(t, "apply") THEN {<<Len(rows) + 1, Len(rows) + 2>>} ELSE {}
  /\ job' = IF tx[t].closes THEN [job EXCEPT ![tx[t].req.on] = "closed"] ELSE job
  /\ Over(t) /\ UNCHANGED <<credited, here>>

\* Refused, answered with what the key recorded before, failed, or ended by
\* the database: nothing of it is written.
Leave(t) ==
  /\ tx[t].at # "idle"
  /\ Over(t) /\ UNCHANGED books

-----------------------------------------------------------------------------
(* What else happens to an invoice and its job, each in one step: what it  *)
(* locks it holds to its end and asks nothing before.                      *)

Alone(row, mode) == \E t \in Txs : tx[t].at = "idle" /\ Free(t, row, mode)

\* A mutant: two people crediting at once (see Invoicing).
CreditBoth(i) ==
  /\ \E a \in Amounts : credited' = [credited EXCEPT ![i] = @ + a]
  /\ Alone(Target(i), "update") /\ Alone(JobRow(i), "share")
  /\ UNCHANGED <<rows, halves, job, here, tx, holds>>
\* IssueCredit, which names the job and so waits for its row.
Credit(i) ==
  /\ \E a \in Amounts : credited[i] + a <= Total /\ credited' = [credited EXCEPT ![i] = @ + a]
  /\ Alone(Target(i), "update") /\ Alone(JobRow(i), "share")
  /\ UNCHANGED <<rows, halves, job, here, tx, holds>>

\* presenceEvent: the car is collected, which may finish the job, or brought
\* back.
Collect(i) ==
  /\ here[i] /\ Alone(JobRow(i), "update")
  /\ here' = [here EXCEPT ![i] = FALSE]
  /\ job' = IF job[i] = "invoiced" /\ Owed(i) = 0 THEN [job EXCEPT ![i] = "closed"] ELSE job
  /\ UNCHANGED <<rows, halves, credited, tx, holds>>
BringBack(i) ==
  /\ ~here[i] /\ Alone(JobRow(i), "update")
  /\ here' = [here EXCEPT ![i] = TRUE]
  /\ UNCHANGED <<rows, halves, credited, job, tx, holds>>

\* CloseJob, with a reason when money is owed.
CloseByHand(i) ==
  /\ job[i] = "invoiced" /\ Alone(JobRow(i), "update")
  /\ job' = [job EXCEPT ![i] = "closed"]
  /\ UNCHANGED <<rows, halves, credited, here, tx, holds>>

Step(t) ==
  \/ Pay(t) \/ Receive(t) \/ PayOut(t) \/ Apply(t) \/ DecideApply(t)
  \/ Look(t) \/ LockDeposit(t) \/ DecideRefund(t) \/ DecideReverse(t)
  \/ Insert(t) \/ Close(t) \/ Commit(t) \/ Leave(t)
Elsewhere(i) == Credit(i) \/ Collect(i) \/ BringBack(i) \/ CloseByHand(i)

Next == (\E t \in Txs : Step(t)) \/ (\E i \in Invoices : Elsewhere(i))
Spec == Init /\ [][Next]_vars

-----------------------------------------------------------------------------
(* What is promised.                                                       *)

Row == [on : Invoices \cup Deposits \cup Payouts, amount : Int, rounding : Int, deposit : BOOLEAN,
        reverses : Nat, refunds : Nat, key : Keys \cup {NoKey}]

TypeOK ==
  /\ rows \in Seq(Row)
  /\ halves \subseteq Numbers \X Numbers
  /\ credited \in [Invoices -> 0..Total]
  /\ job \in [Invoices -> {"invoiced", "closed"}]
  /\ here \in [Invoices -> BOOLEAN]
  /\ \A t \in Txs : /\ tx[t].at \in {"idle", "locking", "writing", "closing", "ending"}
                    /\ tx[t].seen \in 0..Len(rows) /\ tx[t].rows \in Seq(Row)

\* 0086: what was given back on an invoice, by refunds and returns together and
\* whatever was reversed since, is at most what was paid beyond it.
GivenBackWasPaidOver == \A i \in Invoices : GivenBack(i) > 0 => Owed(i) <= 0

\* 0081: a deposit never pays out what it does not hold, though its receipts
\* are reversed and it is applied and refunded at once.
DepositsNeverNegative == \A d \in Deposits : Held(d) >= 0

\* journal.go, RefundPayment and ReversePayment: one payment's standing refunds
\* never add up to more than it was, and one that was undone has none.
RefundsWithinPayment ==
  \A n \in Numbers : RefundsOf(n) # {} => ~Reversed(n) /\ Refunded(n) <= rows[n].amount

\* The three: nothing pays out more than was paid into it, be it an invoice, a
\* deposit or one payment.
PaidOutWasPaidIn == GivenBackWasPaidOver /\ DepositsNeverNegative /\ RefundsWithinPayment

\* payments.go, reverseApplicationTx: what a deposit paid is not held and paid
\* at once, nor gone -- without the deferred trigger of 0082 having to say so,
\* which is left out.
ApplicationsAreWhole ==
  /\ \A h \in halves : Reversed(h[1]) <=> Reversed(h[2])
  /\ SettledBy({n \in Numbers : rows[n].deposit}) = 0

\* payments.go, insertPaymentOnce: a request sent twice moves money once, also
\* where nothing else keeps the two apart.
OneRowPerKey ==
  \A m, n \in Numbers : rows[m].key # NoKey /\ rows[m].key = rows[n].key => m = n

\* payments.go, balanceTx and RecordPayment: two people settling one invoice do
\* not both settle it, and nobody leaves far more paid than was owed without
\* saying so, also where they give a part of it back.
PaysWhatIsOwed ==
  [][\A t \in Txs, i \in Invoices :
       Commit(t) /\ Does(t, "pay") /\ tx[t].req.on = i =>
         /\ tx[t].req.amount = 0 => Owed(i)' = 0
         /\ tx[t].req.amount # 0 /\ ~tx[t].req.sure => Owed(i)' >= -Margin]_vars

\* closing.go: of the payment and the collection that together finish a job,
\* whichever is the last closes it.
ClosedWhenPaid ==
  [][\A t \in Txs, i \in Invoices :
       \/ Commit(t) /\ (Does(t, "pay") \/ Does(t, "apply")) /\ tx[t].req.on = i
       \/ Collect(i)
       => ~Finished(i, Owed(i))']_vars

\* Both: what settles an invoice settles it once, and closes its job.
SettledAndClosed == PaysWhatIsOwed /\ ClosedWhenPaid

\* The row t waits for before it can go on.
Wants(t) ==
  CASE tx[t].at = "locking" /\ tx[t].want # <<>> -> {Target(Head(tx[t].want))}
    [] tx[t].at = "writing"                      -> {SeriesRow}
    [] tx[t].at = "closing"                      -> {JobRow(tx[t].req.on)}
    [] OTHER                                     -> {}
WaitsFor(t, u) == \E row \in Wants(t) : Blocks(u, t, row, "update")

\* journal.go, applyDepositTx and reverseApplicationTx: nobody who moves money
\* waits for somebody who waits for them.
NoCircle == \A t, u \in Txs : ~(WaitsFor(t, u) /\ WaitsFor(u, t))
=============================================================================
