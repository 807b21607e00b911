----------------------------- MODULE Invoicing -----------------------------
(***************************************************************************)
(* Invoicing a job and correcting the invoice: invoice.go, credit.go,      *)
(* lines.go, takeout.go and the stocktake of stock.go, as the transactions *)
(* PostgreSQL runs at once.  A transaction takes the row locks the code    *)
(* takes, in the order the code takes them, waits where a row is held, and *)
(* either commits everything it did or rolls all of it back; so its writes *)
(* are applied in the step that commits it, and what it reads it reads in  *)
(* the step in which the code reads it.                                    *)
(*                                                                         *)
(* Amounts are whole minor units, quantities whole thousandths, as in the  *)
(* code.  Every line is the customer's to pay and none is withdrawn; the   *)
(* rest of a job's life, the parties and the seller on a document and the  *)
(* margin scheme are left out.                                             *)
(***************************************************************************)
EXTENDS ShopBooks, RowLocks

CONSTANTS
  MaxLines,    \* bound: lines on one job
  MaxTaken,    \* bound: how much of a part is taken out to one job
  MaxDocs      \* bound: documents in the series

ASSUME BoundsAreReal == MaxLines \in Nat /\ MaxTaken \in Nat /\ MaxDocs \in Nat

VARIABLE
  tx           \* [Txs -> what the connection's transaction is doing]

vars == <<shop, tx, holds>>

-----------------------------------------------------------------------------
(* The rows that are locked.                                               *)

JobRow(j)     == <<"job", j>>
InvoiceRow(n) == <<"invoice", n>>
PartRow(p)    == <<"part", p>>
SeriesRow     == <<"series", 0>>

\* Mutants: the rows are read without FOR UPDATE.
ReadOrder(t, j)   == UNCHANGED holds
ReadInvoice(t, n) == UNCHANGED holds
ReadPart(t, p)    == UNCHANGED holds

\* SELECT ... FOR UPDATE on the work order, the invoice, the part.
LockOrder(t, j)   == Lock(t, JobRow(j), "update")
LockInvoice(t, n) == Lock(t, InvoiceRow(n), "update")
LockPart(t, p)    == Lock(t, PartRow(p), "update")

-----------------------------------------------------------------------------
(* Transactions.                                                           *)

\* What people ask of the shop.
OrderRequests ==
  [does : {"issue"}, job : Jobs, sure : BOOLEAN]
  \cup [does : {"add line"}, job : Jobs, line : Offers]
  \cup [does : {"take out", "put back"}, job : Jobs, part : Parts, qty : Amounts]
Counts  == [does : {"count"}, part : Parts, qty : Amounts]
Credits(n, wish) == [does : {"credit"}, of : {n}, key : Keys, wish : {wish}]
Rebills == [does : {"rebill"}, of : Numbers, key : Keys]

Idle == [at |-> "idle", req |-> [does |-> "nothing"], bill |-> <<>>, number |-> 0,
         want |-> {}, moves |-> <<>>]
Does(t, what) == tx[t].req.does = what
On(t)         == tx[t].req.job
\* The transaction is over, one way or the other, and its locks with it.
Over(t) == tx' = [tx EXCEPT ![t] = Idle] /\ Unlock(t)

AllAgreed(j) == \A i \in DOMAIN lines[j] : lines[j][i].agreed

Init ==
  /\ ShopInit
  /\ tx = [t \in Txs |-> Idle]
  /\ holds = NothingHeld

InBounds(r) ==
  /\ r.does = "add line" => Len(lines[r.job]) < MaxLines
  /\ r.does = "take out" => used[r.job, r.part] + r.qty <= MaxTaken

\* A mutant: nobody asks whether there is an invoice already.
RefusedUnlessPriced(r) ==
  r.does = "issue" /\ (lines[r.job] = <<>> \/ ~(AllAgreed(r.job) \/ r.sure))
\* issueTx, addLineTx and openForParts refuse a job that is invoiced; issueTx
\* one with nothing on it, or with lines nobody agreed to that the person has
\* not said to bill.
Refused(r) ==
  \/ state[r.job] # "open"
  \/ /\ r.does = "issue"
     /\ lines[r.job] = <<>> \/ ~(AllAgreed(r.job) \/ r.sure)

\* issueTx, addLineTx and openForParts: the work order first, FOR UPDATE, and
\* then the question whether it may still be done.
OpenOrder(t) ==
  /\ tx[t].at = "idle"
  /\ \E r \in OrderRequests :
       /\ InBounds(r)
       /\ LockOrder(t, r.job)
       /\ ~Refused(r)
       /\ tx' = [tx EXCEPT
            ![t].at = IF r.does \in {"issue", "add line"} THEN "referring" ELSE "moving",
            ![t].req = r,
            ![t].want = CASE r.does = "issue"    -> {p \in Parts : reserved[r.job, p] # 0}
                          [] r.does = "add line" -> {r.line.part} \ {NoPart}
                          [] OTHER               -> {r.part},
            ![t].moves = CASE r.does = "take out" -> [p \in {r.part} |-> r.qty]
                           [] r.does = "put back" -> [p \in {r.part} |-> -r.qty]
                           [] OTHER               -> <<>>]
  /\ UNCHANGED shop

\* A row that names a part is written -- the releases of setStateTx in no
\* particular order, the line of addLineTx -- and its foreign key keeps the
\* part from being deleted.
Refer(t) ==
  /\ tx[t].at = "referring"
  /\ \E p \in tx[t].want :
       /\ Lock(t, PartRow(p), "share")
       /\ tx' = [tx EXCEPT ![t].want = @ \ {p}]
  /\ UNCHANGED shop

\* addLineTx goes on to reserve the part.
Reserve(t) ==
  /\ tx[t].at = "referring" /\ tx[t].want = {} /\ Does(t, "add line")
  /\ tx' = [tx EXCEPT ![t].at = "moving", ![t].want = {tx[t].req.line.part} \ {NoPart}]
  /\ UNCHANGED <<shop, holds>>

\* IssueCredit: the invoice first; then what is asked may be credited, and the
\* form was not sent before.
HoldCredited(t) ==
  /\ tx[t].at = "idle"
  /\ \E n \in Numbers, wish \in Wishes :
       /\ LockInvoice(t, n) /\ MayCredit(n, wish)
       /\ \E r \in Credits(n, wish) :
            /\ ~KeyUsed(n, r.key)
            /\ tx' = [tx EXCEPT ![t].at = "numbering", ![t].req = r, ![t].bill = CreditPlan(n, wish)]
  /\ UNCHANGED shop

\* RebillTo: the invoice first; one replaced already, or not taken back in
\* full, is not replaced.
HoldRebilled(t) ==
  /\ tx[t].at = "idle"
  /\ \E r \in Rebills :
       /\ LockInvoice(t, r.of)
       /\ ~KeyUsed(r.of, r.key) /\ MayRebill(r.of)
       /\ tx' = [tx EXCEPT ![t].at = "numbering", ![t].req = r, ![t].bill = docs[r.of].lines]
  /\ UNCHANGED shop

\* What the transaction writes once it has the number n.
Numbered(t, n) ==
  tx' = IF Does(t, "issue")
        THEN [tx EXCEPT ![t].at = "moving", ![t].number = n,
               ![t].bill = AsBilled(On(t)),
               ![t].want = Short(On(t)),
               ![t].moves = [p \in Short(On(t)) |-> ToIssue(On(t), p)]]
        ELSE [tx EXCEPT ![t].at = "moving", ![t].number = n]
MayNumber(t) ==
  /\ \/ tx[t].at = "numbering"
     \/ tx[t].at = "referring" /\ tx[t].want = {} /\ Does(t, "issue")
  /\ next <= MaxDocs

\* A mutant: a sequence, which does not roll back.
TakeNumberFromSequence(t) ==
  /\ MayNumber(t) /\ Numbered(t, next) /\ next' = next + 1
  /\ UNCHANGED <<state, lines, reserved, used, shelf, docs, holds>>
\* nextNumber: the UPDATE locks the series until the transaction ends, and
\* what it wrote is undone if that is a rollback.
TakeNumber(t) ==
  /\ MayNumber(t) /\ Lock(t, SeriesRow, "update") /\ Numbered(t, next)
  /\ UNCHANGED shop

\* Stocktake: the part first, then what the ledger says of it.
HoldCounted(t) ==
  /\ tx[t].at = "idle"
  /\ \E r \in Counts :
       /\ LockPart(t, r.part)
       /\ tx' = [tx EXCEPT ![t].at = "moving", ![t].req = r,
                           ![t].moves = [p \in {r.part} |-> shelf[p] - r.qty]]
  /\ UNCHANGED shop

\* moveTx locks the part whoever moves it.  More than one are moved in order.
Move(t) ==
  /\ tx[t].at = "moving" /\ tx[t].want # {}
  /\ LET p == Min(tx[t].want)
     IN  /\ LockPart(t, p)
         /\ tx' = [tx EXCEPT ![t].want = @ \ {p}]
  /\ UNCHANGED shop

-----------------------------------------------------------------------------
(* Commits.                                                                *)

Ready(t, what) == tx[t].at = "moving" /\ tx[t].want = {} /\ Does(t, what)

Moved(t, p)   == IF p \in DOMAIN tx[t].moves THEN tx[t].moves[p] ELSE 0
ShelfMoved(t) == shelf' = [p \in Parts |-> shelf[p] - Moved(t, p)]
UsedMoved(t)  == used' = [x \in Jobs \X Parts |-> used[x] + IF x[1] = On(t) THEN Moved(t, x[2]) ELSE 0]

\* A mutant: what RETURNING answered is put back.
WriteDocTakingOneBack(t, doc) ==
  /\ next' = tx[t].number - 1
  /\ docs' = [n \in Numbers \cup {tx[t].number} |-> IF n = tx[t].number THEN doc ELSE docs[n]]
WriteDoc(t, doc) ==
  /\ next' = tx[t].number + 1
  /\ docs' = [n \in Numbers \cup {tx[t].number} |-> IF n = tx[t].number THEN doc ELSE docs[n]]

CommitInvoice(t) ==
  /\ Ready(t, "issue")
  /\ state' = [state EXCEPT ![On(t)] = "invoiced"]
  /\ reserved' = [x \in Jobs \X Parts |-> IF x[1] = On(t) THEN 0 ELSE reserved[x]]
  /\ ShelfMoved(t) /\ UsedMoved(t)
  /\ WriteDoc(t, [kind |-> "invoice", of |-> 0, job |-> On(t), key |-> NoKey, lines |-> tx[t].bill])
  /\ Over(t) /\ UNCHANGED lines

\* A credit note names the job of what it credits, and a replacement is for a
\* job of its own that names it: both wait for that job's row.
CommitCorrection(t) ==
  /\ Ready(t, "credit") \/ Ready(t, "rebill")
  /\ LET r == tx[t].req
         kind == IF r.does = "credit" THEN "credit" ELSE "replacement"
     IN  /\ Free(t, JobRow(docs[r.of].job), "share")
         /\ WriteDoc(t, [kind |-> kind, of |-> r.of, job |-> docs[r.of].job, key |-> r.key,
                         lines |-> tx[t].bill])
  /\ Over(t) /\ UNCHANGED <<state, lines, reserved, used, shelf>>

CommitLine(t) ==
  /\ Ready(t, "add line")
  /\ LET r == tx[t].req
     IN  /\ lines' = [lines EXCEPT ![r.job] = Append(@, r.line)]
         /\ reserved' = [x \in Jobs \X Parts |->
                           reserved[x] + IF x = <<r.job, r.line.part>> THEN r.line.qty ELSE 0]
  /\ Over(t) /\ UNCHANGED <<state, used, shelf, next, docs>>

\* A take-out releases the reservation as far as it goes.
CommitTakeOut(t) ==
  /\ Ready(t, "take out")
  /\ LET r == tx[t].req
     IN  reserved' = [reserved EXCEPT ![<<r.job, r.part>>] = @ - Max({0, Min({@, r.qty})})]
  /\ ShelfMoved(t) /\ UsedMoved(t)
  /\ Over(t) /\ UNCHANGED <<state, lines, next, docs>>

\* Never more than was taken out.
CommitPutBack(t) ==
  /\ Ready(t, "put back")
  /\ IF tx[t].req.qty <= used[On(t), tx[t].req.part]
     THEN ShelfMoved(t) /\ UsedMoved(t)
     ELSE UNCHANGED <<shelf, used>>
  /\ Over(t) /\ UNCHANGED <<state, lines, reserved, next, docs>>

CommitCount(t) ==
  /\ Ready(t, "count")
  /\ ShelfMoved(t)
  /\ Over(t) /\ UNCHANGED <<state, lines, reserved, used, next, docs>>

\* A statement fails, the client goes, the database ends a deadlock: all of it
\* is undone, the number with it.
RollBack(t) ==
  /\ tx[t].at # "idle"
  /\ Over(t) /\ UNCHANGED shop

Step(t) ==
  \/ OpenOrder(t) \/ Refer(t) \/ Reserve(t)
  \/ HoldCredited(t) \/ HoldRebilled(t) \/ TakeNumber(t) \/ HoldCounted(t) \/ Move(t)
  \/ CommitInvoice(t) \/ CommitCorrection(t) \/ CommitLine(t)
  \/ CommitTakeOut(t) \/ CommitPutBack(t) \/ CommitCount(t) \/ RollBack(t)

Next == \E t \in Txs : Step(t)
Spec == Init /\ [][Next]_vars

-----------------------------------------------------------------------------
(* What is promised.                                                       *)

LineOnDoc == [of : Nat, position : Nat, qty : Int, unit : Int, rate : Nat, net : Int, vat : Int]
Document  == [kind : {"invoice", "credit", "replacement"}, of : Nat, job : Jobs,
              key : Keys \cup {NoKey}, lines : Seq(LineOnDoc)]
Stages    == {"idle", "referring", "numbering", "moving"}

TypeOK ==
  /\ state \in [Jobs -> {"open", "invoiced"}]
  /\ lines \in [Jobs -> Seq(LineOnJob)]
  /\ reserved \in [Jobs \X Parts -> Int] /\ used \in [Jobs \X Parts -> Int]
  /\ shelf \in [Parts -> Int]
  /\ next \in Nat \ {0}
  /\ \A n \in Numbers : n \in Nat /\ docs[n] \in Document
  /\ \A t \in Txs : /\ tx[t].at \in Stages /\ tx[t].number \in Nat
                    /\ tx[t].bill \in Seq(LineOnDoc) /\ tx[t].want \subseteq Parts

\* invoice.go:104-107: the series is gap-free and no number is used twice,
\* however many documents are being issued and whichever of them fail.
NoGaps == Numbers = 1..(next - 1)

\* invoice.go:134-140, 0022: a job is billed by one invoice, without the
\* unique index having to say so.
OneInvoicePerJob ==
  \A m, n \in Numbers :
    docs[m].kind = "invoice" /\ docs[n].kind = "invoice" /\ docs[m].job = docs[n].job => m = n

\* credit.go:22-26: two people correcting one invoice cannot between them
\* credit more than was billed.
NeverOverCredited == \A n \in Numbers : docs[n].kind # "credit" => Left(n) >= 0

\* credit.go:243-246: the parts of a line that were credited one by one come
\* to the line, and never to more of it than there was.
CreditsAddUp ==
  \A n \in Numbers : docs[n].kind # "credit" =>
    \A i \in DOMAIN docs[n].lines :
      /\ QtyLeft(n, i) >= 0
      /\ QtyLeft(n, i) = 0 => NetLeft(n, i) = 0 /\ VatLeft(n, i) = 0

\* credit.go:503-511: however often the buyer is corrected, the work of one job
\* is owed on one document at most.
BilledOnce ==
  \A j \in Jobs :
    Cardinality({n \in Numbers : docs[n].kind # "credit" /\ docs[n].job = j /\ Left(n) # 0}) <= 1

\* All three: what is credited on an invoice, in whatever parts and by however
\* many at once, is what was billed or less, of the whole and of each line; and
\* what is billed again was credited.
CreditsWithinInvoice == NeverOverCredited /\ CreditsAddUp /\ BilledOnce

\* lines.go, lineedit.go:206-211: what an invoice bills is what stands on the
\* job, though lines were being added while it was issued.
BilledWhatStands ==
  \A n \in Numbers : docs[n].kind = "invoice" =>
    docs[n].lines = AsBilled(docs[n].job)

\* stock is put aside only for a job that may still need it.
ReservedForOpenJobs ==
  \A x \in Jobs \X Parts : state[x[1]] = "invoiced" => reserved[x] = 0

\* invoice.go:357-361: issuing takes off the shelf what was priced and is not
\* out already, so that each part leaves once.
EachPartLeavesOnce ==
  \A j \in Jobs : state[j] = "open" /\ state'[j] = "invoiced" =>
    \A p \in Parts : used'[j, p] = Max({used[j, p], Priced(j, p)})
\* stock.go:728-738: a count is what the shelf holds when it is booked, whatever
\* left while it was counted.
CountsAreOfNow == \A t \in Txs : CommitCount(t) => shelf'[tx[t].req.part] = tx[t].req.qty
ShelfIsTrue == [][EachPartLeavesOnce /\ CountsAreOfNow]_vars

-----------------------------------------------------------------------------
(* What is said and is not so.                                             *)

\* The rows t waits for before it can go on.
Wants(t) ==
  CASE tx[t].at = "referring" /\ tx[t].want # {} -> {<<PartRow(p), "share">> : p \in tx[t].want}
    [] MayNumber(t)                              -> {<<SeriesRow, "update">>}
    [] tx[t].at = "moving" /\ tx[t].want # {}    -> {<<PartRow(Min(tx[t].want)), "update">>}
    [] OTHER                                     -> {}
WaitsFor(t, u) ==
  Wants(t) # {} /\ \A w \in Wants(t) : Blocks(u, t, w[1], w[2])

\* invoice.go:397-398, of issuing: "two transactions that lock several parts
\* each take the locks in the same order and cannot wait on each other in a
\* circle".
IssuesNeverWaitInACircle ==
  \A t, u \in Txs : Does(t, "issue") /\ Does(u, "issue") => ~(WaitsFor(t, u) /\ WaitsFor(u, t))
=============================================================================
