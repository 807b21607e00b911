----------------------------- MODULE ShopBooks -----------------------------
(***************************************************************************)
(* What the shop has on its books -- jobs and their lines, parts put aside *)
(* and taken out, the shelf, the documents -- and what may be done to      *)
(* them, with no transactions, locks or failures in it: each thing is done *)
(* all at once, on the books as they are at that moment.  Invoicing        *)
(* implements this.                                                        *)
(***************************************************************************)
EXTENDS Integers, Sequences, FiniteSets, SequencesExt, Money

CONSTANTS
  Jobs,        \* work orders
  Parts,       \* parts on the shelf: numbers, which is the order they sort in
  Keys,        \* keys of the forms people send
  Offers,      \* the lines people put on jobs
  Wishes,      \* what people ask to have credited
  Amounts,     \* quantities taken out, put back and counted
  NoPart, NoKey

ASSUME PartsAreNumbers == Parts \subseteq Nat /\ NoPart \notin Parts
ASSUME NoKeyIsNoKey    == NoKey \notin Keys
\* A quantity or a price below nothing is refused of a line (lines.go:66-78), of
\* what is taken out or put back (takeout.go:85, 119) and of a count (stock.go:746).
LineOnJob == [qty : Nat, unit : Nat, rate : Nat, part : Parts \cup {NoPart}, agreed : BOOLEAN]
ASSUME OffersAreLines    == Offers \subseteq LineOnJob
ASSUME AmountsAreCounted == Amounts \subseteq Nat
\* An adjustment is of an amount above nothing at a rate (credit.go:261-286).
ASSUME AdjustmentsAreCounted == \A w \in Wishes : w.adjust \in Seq([net : Nat, rate : Nat])

VARIABLES
  state,       \* [Jobs -> "open" | "invoiced"]
  lines,       \* [Jobs -> Seq(line)], committed work_order_lines
  reserved,    \* [Jobs \X Parts -> Int], the ledger's reserved and unreserved
  used,        \* [Jobs \X Parts -> Int], consumed less put back
  shelf,       \* [Parts -> Int], the ledger's sum for the part
  next,        \* invoice_series.next_number, committed
  docs         \* committed documents, by number

shop == <<state, lines, reserved, used, shelf, next, docs>>

-----------------------------------------------------------------------------
(* What a document comes to.                                               *)

Gross(ls) == SumFunctionOnSet([i \in DOMAIN ls |-> ls[i].net + ls[i].vat], DOMAIN ls)

\* A priced line as it is copied onto a document.
Billed(l, position) ==
  LET net == LineNet(l.qty, l.unit)
  IN  [of |-> 0, position |-> position, qty |-> l.qty, unit |-> l.unit, rate |-> l.rate,
       net |-> net, vat |-> VAT(net, l.rate)]

-----------------------------------------------------------------------------
(* What has been credited of a document, and what a credit would take.     *)

Numbers      == DOMAIN docs
CreditsOf(n) == {m \in Numbers : docs[m].kind = "credit" /\ docs[m].of = n}
Left(n)      == Gross(docs[n].lines)
                + SumFunctionOnSet([m \in CreditsOf(n) |-> Gross(docs[m].lines)], CreditsOf(n))

\* The credit lines that take back line i of n, and what they leave of it.
Credited(n, i) ==
  UNION {{m} \X {k \in DOMAIN docs[m].lines : docs[m].lines[k].of = i} : m \in CreditsOf(n)}
LeftOf(n, i, f) ==
  docs[n].lines[i][f]
  + SumFunctionOnSet([c \in Credited(n, i) |-> docs[c[1]].lines[c[2]][f]], Credited(n, i))
QtyLeft(n, i) == LeftOf(n, i, "qty")
NetLeft(n, i) == LeftOf(n, i, "net")
VatLeft(n, i) == LeftOf(n, i, "vat")

\* One line taken back: all that is left of it exactly, or a share of it.
TakenBack(n, i, qty) ==
  LET l    == docs[n].lines[i]
      part == LineNet(qty, l.unit)
      rest == qty = QtyLeft(n, i)
  IN  [of |-> i, position |-> 0, qty |-> -qty, unit |-> l.unit, rate |-> l.rate,
       net |-> -(IF rest THEN NetLeft(n, i) ELSE part),
       vat |-> -(IF rest THEN VatLeft(n, i) ELSE VAT(part, l.rate))]

Adjusted(a) ==
  [of |-> 0, position |-> 0, qty |-> -1000, unit |-> a.net, rate |-> a.rate,
   net |-> -a.net, vat |-> -VAT(a.net, a.rate)]

\* Nothing named is everything that is left.  In which order the lines are
\* taken back is left open: nothing that is promised depends on it.
Named(n, wish) ==
  IF wish.lines = <<>> /\ wish.adjust = <<>>
  THEN [i \in {i \in DOMAIN docs[n].lines : NetLeft(n, i) # 0 \/ VatLeft(n, i) # 0} |-> 0]
  ELSE wish.lines
Quantity(n, i, asked) == IF asked = 0 THEN QtyLeft(n, i) ELSE asked

CreditPlan(n, wish) ==
  LET named == Named(n, wish)
      order == SetToSeq(DOMAIN named)
  IN  [k \in DOMAIN order |-> TakenBack(n, order[k], Quantity(n, order[k], named[order[k]]))]
      \o [k \in DOMAIN wish.adjust |-> Adjusted(wish.adjust[k])]

MayCredit(n, wish) ==
  /\ docs[n].kind # "credit"
  /\ Left(n) > 0
  /\ \A i \in DOMAIN Named(n, wish) :
       /\ i \in DOMAIN docs[n].lines
       /\ Quantity(n, i, Named(n, wish)[i]) \in 1..QtyLeft(n, i)
  /\ -Gross(CreditPlan(n, wish)) \in 1..Left(n)

\* The documents invoice_corrections ties to n, and the keys they used.
Corrections(n) == {m \in Numbers : docs[m].of = n}
\* A mutant: nobody asks for the key.
KeyForgotten(n, k) == FALSE
KeyUsed(n, k)  == \E m \in Corrections(n) : docs[m].key = k
Replaced(n)    == \E m \in Corrections(n) : docs[m].kind = "replacement"
MayRebill(n)   == docs[n].kind # "credit" /\ ~Replaced(n) /\ Left(n) = 0

-----------------------------------------------------------------------------
(* What issuing takes off the shelf.                                       *)

PricedOn(ls, p) == SumFunctionOnSet([i \in DOMAIN ls |-> ls[i].qty], {i \in DOMAIN ls : ls[i].part = p})
Priced(j, p)    == PricedOn(lines[j], p)
\* consumeForInvoice: what was priced, less what is out already.
ToIssue(j, p)   == Priced(j, p) - used[j, p]
Short(j)        == {p \in Parts : ToIssue(j, p) > 0}
AsBilled(j)     == [i \in DOMAIN lines[j] |-> Billed(lines[j][i], i)]

-----------------------------------------------------------------------------
(* What may be done, each of it at once.                                   *)

ShopInit ==
  /\ state = [j \in Jobs |-> "open"]
  /\ lines = [j \in Jobs |-> <<>>]
  /\ reserved = [x \in Jobs \X Parts |-> 0]
  /\ used = [x \in Jobs \X Parts |-> 0]
  /\ shelf = [p \in Parts |-> 0]
  /\ next = 1
  /\ docs = <<>>

PutDoc(doc) == docs' = [n \in Numbers \cup {next} |-> IF n = next THEN doc ELSE docs[n]]

\* All of it off the shelf that the job has not had yet.
Leaving(j, p) == IF p \in Short(j) THEN ToIssue(j, p) ELSE 0
Issue(j) ==
  /\ state[j] = "open" /\ lines[j] # <<>>
  /\ state' = [state EXCEPT ![j] = "invoiced"]
  /\ reserved' = [x \in Jobs \X Parts |-> IF x[1] = j THEN 0 ELSE reserved[x]]
  /\ shelf' = [p \in Parts |-> shelf[p] - Leaving(j, p)]
  /\ used' = [x \in Jobs \X Parts |-> used[x] + IF x[1] = j THEN Leaving(j, x[2]) ELSE 0]
  /\ next' = next + 1
  /\ PutDoc([kind |-> "invoice", of |-> 0, job |-> j, key |-> NoKey, lines |-> AsBilled(j)])
  /\ UNCHANGED lines

\* A form is answered once: with its key, nothing of n has been corrected yet.
Answer(n, kind, ls) ==
  \E k \in Keys :
    /\ ~KeyUsed(n, k)
    /\ PutDoc([kind |-> kind, of |-> n, job |-> docs[n].job, key |-> k, lines |-> ls])
Credit(n, wish) == MayCredit(n, wish) /\ Answer(n, "credit", CreditPlan(n, wish))
Rebill(n)       == MayRebill(n) /\ Answer(n, "replacement", docs[n].lines)
Correct ==
  /\ next' = next + 1
  /\ UNCHANGED <<state, lines, reserved, used, shelf>>
  /\ \E n \in Numbers : Rebill(n) \/ \E wish \in Wishes : Credit(n, wish)

AddLine(j, l) ==
  /\ state[j] = "open"
  /\ lines' = [lines EXCEPT ![j] = Append(@, l)]
  /\ reserved' = [x \in Jobs \X Parts |-> reserved[x] + IF x = <<j, l.part>> THEN l.qty ELSE 0]
  /\ UNCHANGED <<state, used, shelf, next, docs>>

\* qty of the part leave the shelf for the job, or come back from it.
OffShelf(j, p, qty) ==
  /\ shelf' = [shelf EXCEPT ![p] = @ - qty]
  /\ used' = [used EXCEPT ![<<j, p>>] = @ + qty]
TakeOut(j, p, qty) ==
  /\ state[j] = "open" /\ OffShelf(j, p, qty)
  /\ reserved' = [reserved EXCEPT ![<<j, p>>] = @ - Max({0, Min({@, qty})})]
  /\ UNCHANGED <<state, lines, next, docs>>
PutBack(j, p, qty) ==
  /\ state[j] = "open" /\ qty <= used[j, p] /\ OffShelf(j, p, -qty)
  /\ UNCHANGED <<state, lines, reserved, next, docs>>

BookCount(p, qty) ==
  /\ shelf' = [shelf EXCEPT ![p] = qty]
  /\ UNCHANGED <<state, lines, reserved, used, next, docs>>

\* What is refused, or fails on the way, leaves no trace.
Refuse == UNCHANGED shop

ShopNext ==
  \/ Refuse
  \/ \E j \in Jobs : \/ Issue(j)
                     \/ \E l \in Offers : AddLine(j, l)
                     \/ \E p \in Parts, qty \in Amounts : TakeOut(j, p, qty) \/ PutBack(j, p, qty)
  \/ Correct
  \/ \E p \in Parts, qty \in Amounts : BookCount(p, qty)

\* Two people at one desk after the other: however many work at once, the shop
\* comes to what it would have come to had each waited for the one before.
ShopSpec == ShopInit /\ [][ShopNext]_shop

\* credit.go:402, 554-567: a form sent twice finds the document it already made
\* and makes no second, however many send it at once.  Of rebilling with the key
\* of an earlier credit the unique index of 0054 says so.
FormsCountOnce ==
  \A n \in Numbers : \A l, m \in Corrections(n) : docs[l].key = docs[m].key => l = m
=============================================================================
