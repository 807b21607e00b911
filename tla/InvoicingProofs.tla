--------------------------- MODULE InvoicingProofs ---------------------------
(***************************************************************************)
(* Invoicing, for any jobs, parts, connections, forms and bounds: its      *)
(* documents are numbered without gaps, one to a job and true to it; no    *)
(* more is credited of an invoice than was billed, in whole or by the      *)
(* line; nothing stays put aside for a job that is over; and what an issue *)
(* or a count does to the shelf is what it was meant to do.                *)
(*                                                                         *)
(* All of it rests on what a transaction holds while it is under way.      *)
(* IInv: the order it asked about (Held) and, once it has its number, the  *)
(* series (HasNumber).  JInv: the invoice it corrects, of which what it    *)
(* decided to take back or to bill anew is still so (Corrects), and the    *)
(* parts it has come to, of which it still moves what the job needs or the *)
(* count differs by (Moves).  Rows locked against each other stay apart    *)
(* (LocksHold), so nobody else commits anything about them in between.     *)
(*                                                                         *)
(* KInv adds that what was asked can still be done as it was asked         *)
(* (StillAsked), so that every commit is, of the books, one action of      *)
(* ShopBooks (NextIsAtOnce), and Invoicing implements it (OneAtATime).     *)
(*                                                                         *)
(* What a credit takes of each line is a sum over the credits there are;   *)
(* that one more credit takes from it exactly what stands on its lines is  *)
(* CreditAdded, and what a plan may put on them is PlanFits.               *)
(***************************************************************************)
EXTENDS Invoicing, CommonProofs, SequenceTheorems, TLAPS

Writes == {"issue", "credit", "rebill"}
Orders == {"issue", "add line", "take out", "put back"}

Fields == {"at", "req", "bill", "number", "want", "moves"}

Shape ==
  /\ DOMAIN tx = Txs
  /\ \A t \in Txs : DOMAIN tx[t] = Fields
  /\ \A t \in Txs : /\ tx[t].at = "referring" => tx[t].req.does \in {"issue", "add line"}
                    /\ tx[t].at = "numbering" => tx[t].req.does \in {"credit", "rebill"}
  /\ state \in [Jobs -> {"open", "invoiced"}]
  /\ DOMAIN lines = Jobs /\ DOMAIN reserved = Jobs \X Parts

\* What a transaction about a work order is sure of.
Held(t) ==
  tx[t].at # "idle" /\ tx[t].req.does \in Orders =>
    /\ tx[t].req.job \in Jobs
    /\ <<JobRow(tx[t].req.job), "update">> \in holds[t]
    /\ state[tx[t].req.job] = "open"
    /\ tx[t].at = "moving" /\ tx[t].req.does = "issue" => tx[t].bill = AsBilled(tx[t].req.job)

\* What a transaction that has its number is sure of.
HasNumber(t) ==
  tx[t].at = "moving" /\ tx[t].req.does \in Writes =>
    tx[t].number = next /\ <<SeriesRow, "update">> \in holds[t]

Invoiced ==
  \A n \in Numbers : docs[n].kind = "invoice" =>
    docs[n].job \in Jobs /\ state[docs[n].job] = "invoiced"

Papers == next \in Nat \ {0} /\ NoGaps /\ Invoiced /\ OneInvoicePerJob /\ BilledWhatStands

IInv ==
  /\ Shape /\ LocksHold
  /\ \A t \in Txs : Held(t) /\ HasNumber(t)
  /\ Papers /\ ReservedForOpenJobs

-----------------------------------------------------------------------------

LEMMA InitIsGood == Init => IInv
<1> SUFFICES ASSUME Init PROVE IInv
  OBVIOUS
<1> USE DEF Init, ShopInit, Idle
<1>1. Shape
  BY DEF Shape, Fields
<1>2. LocksHold
  BY DEF NothingHeld, LocksHold, Modes, Apart
<1>3. \A t \in Txs : Held(t) /\ HasNumber(t)
  BY DEF Held, HasNumber
<1>4. Papers /\ ReservedForOpenJobs
  <2>1. Numbers = {}
    BY DEF Numbers
  <2>2. Numbers = 1..(next - 1)
    BY <2>1
  <2> QED
    BY <2>1, <2>2 DEF Papers, NoGaps, Invoiced, OneInvoicePerJob, BilledWhatStands, ReservedForOpenJobs
<1> QED
  BY <1>1, <1>2, <1>3, <1>4 DEF IInv

\* A transaction that is over holds nothing.
LEMMA OverKeepsApart ==
  ASSUME Shape, LocksHold, NEW t \in Txs, Over(t)
  PROVE  /\ LocksHold' /\ DOMAIN tx' = Txs /\ tx'[t] = Idle
         /\ \A u \in Txs \ {t} : tx'[u] = tx[u] /\ holds'[u] = holds[u]
<1>1. LocksHold' /\ \A u \in Txs \ {t} : holds'[u] = holds[u]
  BY UnlockKeepsApart DEF Over
<1>2. DOMAIN tx' = Txs /\ tx'[t] = Idle /\ \A u \in Txs \ {t} : tx'[u] = tx[u]
  BY DEF Over, Shape
<1> QED
  BY <1>1, <1>2

\* A transaction went on without committing anything.
LEMMA QuietStep ==
  ASSUME IInv, NEW t \in Txs, UNCHANGED shop, LocksHold',
         DOMAIN tx' = Txs,
         \A u \in Txs \ {t} : tx'[u] = tx[u] /\ holds'[u] = holds[u],
         DOMAIN tx'[t] = Fields,
         tx'[t].at = "referring" => tx'[t].req.does \in {"issue", "add line"},
         tx'[t].at = "numbering" => tx'[t].req.does \in {"credit", "rebill"},
         Held(t)', HasNumber(t)'
  PROVE  IInv'
<1> USE DEF shop
<1>1. Shape'
  BY DEF IInv, Shape
<1>2. \A u \in Txs : Held(u)' /\ HasNumber(u)'
  <2> SUFFICES ASSUME NEW u \in Txs \ {t} PROVE Held(u)' /\ HasNumber(u)'
    OBVIOUS
  <2>1. Held(u) /\ HasNumber(u)
    BY DEF IInv
  <2>2. Held(u)'
    BY <2>1 DEF Held, AsBilled
  <2>3. HasNumber(u)'
    BY <2>1 DEF HasNumber
  <2> QED
    BY <2>2, <2>3
<1>3. Papers'
  <2>1. Numbers' = Numbers /\ \A j : AsBilled(j)' = AsBilled(j)
    BY DEF Numbers, AsBilled
  <2>2. Papers
    BY DEF IInv
  <2>3. next' \in Nat \ {0} /\ NoGaps' /\ Invoiced'
    BY <2>1, <2>2 DEF Papers, NoGaps, Invoiced
  <2>4. OneInvoicePerJob'
    BY <2>1, <2>2 DEF Papers, OneInvoicePerJob
  <2>5. BilledWhatStands'
    BY <2>1, <2>2 DEF Papers, BilledWhatStands
  <2> QED
    BY <2>3, <2>4, <2>5 DEF Papers
<1>4. ReservedForOpenJobs'
  BY DEF IInv, ReservedForOpenJobs
<1> QED
  BY <1>1, <1>2, <1>3, <1>4 DEF IInv

\* The steps that open a transaction.
LEMMA OpenStep ==
  ASSUME IInv, NEW t \in Txs, OpenOrder(t)
  PROVE  IInv'
<1> USE DEF IInv
<1>1. PICK r \in OrderRequests :
        /\ LockOrder(t, r.job) /\ ~Refused(r)
        /\ \E w, m : tx' = [tx EXCEPT
             ![t].at = IF r.does \in {"issue", "add line"} THEN "referring" ELSE "moving",
             ![t].req = r, ![t].want = w, ![t].moves = m]
  BY DEF OpenOrder
<1>2. /\ LocksHold' /\ <<JobRow(r.job), "update">> \in holds'[t]
      /\ \A u \in Txs \ {t} : holds'[u] = holds[u]
  BY <1>1, LockKeepsApart DEF IInv, LockOrder
<1>3. r.job \in Jobs /\ r.does \in Orders
  BY DEF OrderRequests, Orders
<1>4. state[r.job] = "open"
  BY <1>1, <1>3 DEF Refused
<1>5. DOMAIN tx = Txs /\ DOMAIN tx[t] = Fields
  BY DEF Shape
<1>6. /\ DOMAIN tx' = Txs /\ DOMAIN tx'[t] = Fields /\ tx'[t].req = r
      /\ tx'[t].at = IF r.does \in {"issue", "add line"} THEN "referring" ELSE "moving"
      /\ \A u \in Txs \ {t} : tx'[u] = tx[u]
  <2> DEFINE stage == IF r.does \in {"issue", "add line"} THEN "referring" ELSE "moving"
  <2>1. PICK w, m : tx' = [tx EXCEPT ![t].at = stage, ![t].req = r, ![t].want = w, ![t].moves = m]
    BY <1>1
  <2> HIDE DEF stage, IInv
  <2>2. DOMAIN tx' = Txs /\ \A u \in Txs \ {t} : tx'[u] = tx[u]
    BY <1>5, <2>1, Zenon
  <2>3. DOMAIN tx'[t] = Fields
    BY <1>5, <2>1, Zenon
  <2>4. tx'[t].req = r
    BY <1>5, <2>1, Zenon DEF Fields
  <2>5. tx'[t].at = stage
    BY <1>5, <2>1, Zenon DEF Fields
  <2> QED
    BY <2>2, <2>3, <2>4, <2>5 DEF stage
<1>7. UNCHANGED shop
  BY DEF OpenOrder
<1>8. Held(t)'
  BY <1>2, <1>3, <1>4, <1>6, <1>7 DEF Held, shop
<1>9. HasNumber(t)'
  BY <1>3, <1>6 DEF HasNumber, Orders, Writes
<1> QED
  BY <1>2, <1>3, <1>6, <1>7, <1>8, <1>9, QuietStep DEF Orders

\* A transaction got one more of the rows it wants.
LEMMA WantStep ==
  ASSUME IInv, NEW t \in Txs, NEW row, NEW mode \in {"share", "update"}, Lock(t, row, mode),
         NEW w, tx' = [tx EXCEPT ![t].want = w], UNCHANGED shop
  PROVE  IInv'
<1>1. DOMAIN tx = Txs /\ DOMAIN tx[t] = Fields
  BY DEF IInv, Shape
<1>2. /\ LocksHold' /\ holds[t] \subseteq holds'[t]
      /\ \A u \in Txs \ {t} : holds'[u] = holds[u]
  BY LockKeepsApart DEF IInv
<1>3. /\ DOMAIN tx' = Txs /\ DOMAIN tx'[t] = Fields
      /\ \A u \in Txs \ {t} : tx'[u] = tx[u]
  BY <1>1, Zenon
<1>4. /\ tx'[t].at = tx[t].at /\ tx'[t].req = tx[t].req
      /\ tx'[t].bill = tx[t].bill /\ tx'[t].number = tx[t].number
  BY <1>1, Zenon DEF Fields
<1>5. Held(t) /\ HasNumber(t)
  BY DEF IInv
<1>6. Held(t)'
  BY <1>2, <1>4, <1>5 DEF Held, AsBilled, shop
<1>7. HasNumber(t)'
  BY <1>2, <1>4, <1>5 DEF HasNumber, shop
<1>8. /\ tx'[t].at = "referring" => tx'[t].req.does \in {"issue", "add line"}
      /\ tx'[t].at = "numbering" => tx'[t].req.does \in {"credit", "rebill"}
  BY <1>4 DEF IInv, Shape
<1> QED
  BY <1>2, <1>3, <1>6, <1>7, <1>8, QuietStep

LEMMA ReferStep == ASSUME IInv, NEW t \in Txs, Refer(t) PROVE IInv'
<1>1. PICK p : Lock(t, PartRow(p), "share") /\ tx' = [tx EXCEPT ![t].want = @ \ {p}]
  BY DEF Refer
<1>2. tx' = [tx EXCEPT ![t].want = tx[t].want \ {p}]
  BY <1>1, Zenon
<1> QED
  BY <1>1, <1>2, WantStep DEF Refer

LEMMA MoveStep == ASSUME IInv, NEW t \in Txs, Move(t) PROVE IInv'
<1>1. PICK p : Lock(t, PartRow(p), "update") /\ tx' = [tx EXCEPT ![t].want = @ \ {p}]
  BY DEF Move, LockPart
<1>2. tx' = [tx EXCEPT ![t].want = tx[t].want \ {p}]
  BY <1>1, Zenon
<1> QED
  BY <1>1, <1>2, WantStep DEF Move

\* addLineTx goes on to the part it reserves.
LEMMA ReserveStep == ASSUME IInv, NEW t \in Txs, Reserve(t) PROVE IInv'
<1>1. DOMAIN tx = Txs /\ DOMAIN tx[t] = Fields
  BY DEF IInv, Shape
<1>2. PICK w : tx' = [tx EXCEPT ![t].at = "moving", ![t].want = w]
  BY DEF Reserve
<1>3. /\ DOMAIN tx' = Txs /\ DOMAIN tx'[t] = Fields
      /\ \A u \in Txs \ {t} : tx'[u] = tx[u]
  BY <1>1, <1>2, Zenon
<1>4. tx'[t].at = "moving" /\ tx'[t].req = tx[t].req
  BY <1>1, <1>2, Zenon DEF Fields
<1>5. /\ tx[t].at = "referring" /\ tx[t].req.does = "add line"
      /\ UNCHANGED <<shop, holds>>
  BY DEF Reserve, Does
<1>6. LocksHold'
  BY <1>5 DEF IInv, Shape, LocksHold, Modes, Apart
<1>7. Held(t)
  BY DEF IInv
<1>8. Held(t)'
  BY <1>4, <1>5, <1>7 DEF Held, shop
<1>9. HasNumber(t)'
  BY <1>4, <1>5 DEF HasNumber, Writes
<1> QED
  BY <1>3, <1>4, <1>5, <1>6, <1>8, <1>9, QuietStep

\* The transactions that are not about a work order, once they have their row.
LEMMA HoldStep ==
  ASSUME IInv, NEW t \in Txs, NEW row, Lock(t, row, "update"), UNCHANGED shop,
         DOMAIN tx' = Txs, DOMAIN tx'[t] = Fields, \A u \in Txs \ {t} : tx'[u] = tx[u],
         \/ tx'[t].at = "numbering" /\ tx'[t].req.does \in {"credit", "rebill"}
         \/ tx'[t].at = "moving" /\ tx'[t].req.does = "count"
  PROVE  IInv'
<1>1. /\ LocksHold'
      /\ \A u \in Txs \ {t} : holds'[u] = holds[u]
  BY LockKeepsApart DEF IInv
<1>2. Held(t)' /\ HasNumber(t)'
  BY DEF Held, HasNumber, Orders, Writes
<1> QED
  BY <1>1, <1>2, QuietStep

LEMMA CreditAsked ==
  ASSUME NEW t \in Txs, HoldCredited(t)
  PROVE  \E r \in [does : {"credit"}, of : Numbers, key : Keys, wish : Wishes] :
           /\ LockInvoice(t, r.of) /\ ~KeyUsed(r.of, r.key) /\ MayCredit(r.of, r.wish)
           /\ tx' = [tx EXCEPT ![t].at = "numbering", ![t].req = r, ![t].bill = CreditPlan(r.of, r.wish)]
<1>1. PICK n \in Numbers, wish \in Wishes :
        /\ LockInvoice(t, n) /\ MayCredit(n, wish)
        /\ \E r \in Credits(n, wish) :
             /\ ~KeyUsed(n, r.key)
             /\ tx' = [tx EXCEPT ![t].at = "numbering", ![t].req = r, ![t].bill = CreditPlan(n, wish)]
  BY DEF HoldCredited
<1>2. PICK r \in Credits(n, wish) :
        /\ ~KeyUsed(n, r.key)
        /\ tx' = [tx EXCEPT ![t].at = "numbering", ![t].req = r, ![t].bill = CreditPlan(n, wish)]
  BY <1>1
<1>3. r \in [does : {"credit"}, of : Numbers, key : Keys, wish : Wishes] /\ r.of = n /\ r.wish = wish
  BY DEF Credits
<1> QED
  BY <1>1, <1>2, <1>3

LEMMA HoldCreditedStep == ASSUME IInv, NEW t \in Txs, HoldCredited(t) PROVE IInv'
<1>1. PICK r \in [does : {"credit"}, of : Numbers, key : Keys, wish : Wishes] : LockInvoice(t, r.of) /\
        \E b : tx' = [tx EXCEPT ![t].at = "numbering", ![t].req = r, ![t].bill = b]
  BY CreditAsked
<1>2. PICK b : tx' = [tx EXCEPT ![t].at = "numbering", ![t].req = r, ![t].bill = b]
  BY <1>1
<1>3. DOMAIN tx = Txs /\ DOMAIN tx[t] = Fields
  BY DEF IInv, Shape
<1>4. DOMAIN tx' = Txs /\ DOMAIN tx'[t] = Fields /\ \A u \in Txs \ {t} : tx'[u] = tx[u]
  BY <1>2, <1>3, Zenon
<1>5. tx'[t].at = "numbering" /\ tx'[t].req = r
  BY <1>2, <1>3, Zenon DEF Fields
<1>6. r.does = "credit"
  OBVIOUS
<1>7. UNCHANGED shop
  BY DEF HoldCredited
<1> QED
  BY <1>1, <1>4, <1>5, <1>6, <1>7, HoldStep DEF LockInvoice

LEMMA HoldRebilledStep == ASSUME IInv, NEW t \in Txs, HoldRebilled(t) PROVE IInv'
<1>1. PICK r \in Rebills : LockInvoice(t, r.of) /\
        \E b : tx' = [tx EXCEPT ![t].at = "numbering", ![t].req = r, ![t].bill = b]
  BY DEF HoldRebilled
<1>2. PICK b : tx' = [tx EXCEPT ![t].at = "numbering", ![t].req = r, ![t].bill = b]
  BY <1>1
<1>3. DOMAIN tx = Txs /\ DOMAIN tx[t] = Fields
  BY DEF IInv, Shape
<1>4. DOMAIN tx' = Txs /\ DOMAIN tx'[t] = Fields /\ \A u \in Txs \ {t} : tx'[u] = tx[u]
  BY <1>2, <1>3, Zenon
<1>5. tx'[t].at = "numbering" /\ tx'[t].req = r
  BY <1>2, <1>3, Zenon DEF Fields
<1>6. r.does = "rebill"
  BY DEF Rebills
<1>7. UNCHANGED shop
  BY DEF HoldRebilled
<1> QED
  BY <1>1, <1>4, <1>5, <1>6, <1>7, HoldStep DEF LockInvoice

LEMMA HoldCountedStep == ASSUME IInv, NEW t \in Txs, HoldCounted(t) PROVE IInv'
<1>1. PICK r \in Counts : LockPart(t, r.part) /\
        \E m : tx' = [tx EXCEPT ![t].at = "moving", ![t].req = r, ![t].moves = m]
  BY DEF HoldCounted
<1>2. PICK m : tx' = [tx EXCEPT ![t].at = "moving", ![t].req = r, ![t].moves = m]
  BY <1>1
<1>3. DOMAIN tx = Txs /\ DOMAIN tx[t] = Fields
  BY DEF IInv, Shape
<1>4. DOMAIN tx' = Txs /\ DOMAIN tx'[t] = Fields /\ \A u \in Txs \ {t} : tx'[u] = tx[u]
  BY <1>2, <1>3, Zenon
<1>5. tx'[t].at = "moving" /\ tx'[t].req = r
  BY <1>2, <1>3, Zenon DEF Fields
<1>6. r.does = "count"
  BY DEF Counts
<1>7. UNCHANGED shop
  BY DEF HoldCounted
<1> QED
  BY <1>1, <1>4, <1>5, <1>6, <1>7, HoldStep DEF LockPart

LEMMA TakeNumberStep == ASSUME IInv, NEW t \in Txs, TakeNumber(t) PROVE IInv'
<1>1. /\ LocksHold'
      /\ holds[t] \subseteq holds'[t] /\ <<SeriesRow, "update">> \in holds'[t]
      /\ \A u \in Txs \ {t} : holds'[u] = holds[u]
  BY LockKeepsApart DEF IInv, TakeNumber
<1>2. DOMAIN tx = Txs /\ DOMAIN tx[t] = Fields
  BY DEF IInv, Shape
<1>3. UNCHANGED shop
  BY DEF TakeNumber
<1>4. tx[t].at \in {"numbering", "referring"} /\ (tx[t].at = "referring" => tx[t].req.does = "issue")
  BY DEF TakeNumber, MayNumber, Does
<1>5. tx[t].at = "numbering" => tx[t].req.does \in {"credit", "rebill"}
  BY DEF IInv, Shape
<1>6. CASE tx[t].req.does = "issue"
  <2>1. PICK w, m : tx' = [tx EXCEPT ![t].at = "moving", ![t].number = next,
                             ![t].bill = AsBilled(On(t)), ![t].want = w, ![t].moves = m]
    BY <1>6 DEF TakeNumber, Numbered, Does
  <2>2. DOMAIN tx' = Txs /\ DOMAIN tx'[t] = Fields /\ \A u \in Txs \ {t} : tx'[u] = tx[u]
    BY <1>2, <2>1, Zenon
  <2>3. /\ tx'[t].at = "moving" /\ tx'[t].req = tx[t].req /\ tx'[t].number = next
        /\ tx'[t].bill = AsBilled(On(t))
    BY <1>2, <2>1, Zenon DEF Fields
  <2>4. Held(t)
    BY DEF IInv
  <2>5. AsBilled(On(t))' = AsBilled(On(t))
    BY <1>3, <2>3 DEF AsBilled, On, shop
  <2>6. Held(t)'
    BY <1>1, <1>3, <1>4, <2>3, <2>4, <2>5 DEF Held, On, shop
  <2>7. HasNumber(t)'
    BY <1>1, <1>3, <2>3 DEF HasNumber, shop
  <2> QED
    BY <1>1, <1>3, <2>2, <2>3, <2>6, <2>7, QuietStep
<1>7. CASE tx[t].req.does # "issue"
  <2>1. tx' = [tx EXCEPT ![t].at = "moving", ![t].number = next]
    BY <1>7 DEF TakeNumber, Numbered, Does
  <2>2. DOMAIN tx' = Txs /\ DOMAIN tx'[t] = Fields /\ \A u \in Txs \ {t} : tx'[u] = tx[u]
    BY <1>2, <2>1, Zenon
  <2>3. tx'[t].at = "moving" /\ tx'[t].req = tx[t].req /\ tx'[t].number = next
    BY <1>2, <2>1, Zenon DEF Fields
  <2>4. tx'[t].req.does \in {"credit", "rebill"}
    BY <1>4, <1>5, <1>7, <2>3
  <2>5. Held(t)'
    BY <2>4 DEF Held, Orders
  <2>6. HasNumber(t)'
    BY <1>1, <1>3, <2>3 DEF HasNumber, shop
  <2> QED
    BY <1>1, <1>3, <2>2, <2>3, <2>5, <2>6, QuietStep
<1> QED
  BY <1>6, <1>7

\* A transaction ended that changed nothing but what it held the row of.
LEMMA CommitStep ==
  ASSUME IInv, NEW t \in Txs, Over(t),
         state' \in [Jobs -> {"open", "invoiced"}], DOMAIN lines' = Jobs,
         DOMAIN reserved' = Jobs \X Parts,
         NEW j, \A k \in Jobs : \/ state'[k] = state[k] /\ lines'[k] = lines[k]
                                \/ k = j /\ <<JobRow(j), "update">> \in holds[t],
         next' = next \/ <<SeriesRow, "update">> \in holds[t],
         Papers', ReservedForOpenJobs'
  PROVE  IInv'
<1>1. /\ LocksHold' /\ DOMAIN tx' = Txs /\ tx'[t] = Idle
      /\ \A u \in Txs \ {t} : tx'[u] = tx[u] /\ holds'[u] = holds[u]
  BY OverKeepsApart DEF IInv
<1>2. Shape'
  <2>1. DOMAIN Idle = Fields /\ Idle.at = "idle"
    BY DEF Idle, Fields
  <2>2. Shape
    BY DEF IInv
  <2> QED
    BY <1>1, <2>1, <2>2 DEF Shape
<1>3. Held(t)' /\ HasNumber(t)'
  BY <1>1 DEF Held, HasNumber, Idle
<1>4. ASSUME NEW u \in Txs \ {t} PROVE Held(u)' /\ HasNumber(u)'
  <2>1. Held(u) /\ HasNumber(u) /\ LocksHold
    BY DEF IInv
  <2>2. Held(u)'
    <3>1. CASE tx[u].at # "idle" /\ tx[u].req.does \in Orders
      <4>1. /\ tx[u].req.job \in Jobs /\ <<JobRow(tx[u].req.job), "update">> \in holds[u]
        BY <2>1, <3>1 DEF Held
      <4>2. ~(tx[u].req.job = j /\ <<JobRow(j), "update">> \in holds[t])
        BY <2>1, <4>1, OneHasTheRow
      <4>3. state'[tx[u].req.job] = state[tx[u].req.job] /\ lines'[tx[u].req.job] = lines[tx[u].req.job]
        BY <4>1, <4>2
      <4>4. AsBilled(tx[u].req.job)' = AsBilled(tx[u].req.job)
        BY <1>1, <4>3 DEF AsBilled
      <4> QED
        BY <1>1, <2>1, <3>1, <4>1, <4>3, <4>4 DEF Held
    <3>2. CASE ~(tx[u].at # "idle" /\ tx[u].req.does \in Orders)
      BY <1>1, <3>2 DEF Held
    <3> QED
      BY <3>1, <3>2
  <2>3. HasNumber(u)'
    <3>1. CASE tx[u].at = "moving" /\ tx[u].req.does \in Writes
      <4>1. tx[u].number = next /\ <<SeriesRow, "update">> \in holds[u]
        BY <2>1, <3>1 DEF HasNumber
      <4>2. next' = next
        BY <2>1, <4>1, OneHasTheRow
      <4> QED
        BY <1>1, <4>1, <4>2 DEF HasNumber
    <3>2. CASE ~(tx[u].at = "moving" /\ tx[u].req.does \in Writes)
      BY <1>1, <3>2 DEF HasNumber
    <3> QED
      BY <3>1, <3>2
  <2> QED
    BY <2>2, <2>3
<1> QED
  BY <1>1, <1>2, <1>3, <1>4 DEF IInv

\* One more document, which has the next number.
LEMMA PaperAdded ==
  ASSUME Papers, NEW doc, next' = next + 1, lines' = lines,
         docs' = [n \in Numbers \cup {next} |-> IF n = next THEN doc ELSE docs[n]],
         doc.kind = "invoice" =>
           /\ doc.job \in Jobs /\ state[doc.job] = "open" /\ state'[doc.job] = "invoiced"
           /\ doc.lines = AsBilled(doc.job),
         \A k \in Jobs : state[k] = "invoiced" => state'[k] = "invoiced"
  PROVE  Papers'
<1>1. next \in Nat \ {0} /\ Numbers = 1..(next - 1)
  BY DEF Papers, NoGaps
<1>2. Numbers' = Numbers \cup {next}
  BY DEF Numbers
<1>3. next' \in Nat \ {0} /\ NoGaps'
  BY <1>1, <1>2 DEF NoGaps
<1>4. next \notin Numbers
  BY <1>1
<1>5. docs'[next] = doc /\ \A n \in Numbers : docs'[n] = docs[n]
  BY <1>4
<1>6. \A j : AsBilled(j)' = AsBilled(j)
  BY DEF AsBilled
<1>7. Invoiced'
  BY <1>2, <1>5 DEF Papers, Invoiced
<1>8. OneInvoicePerJob'
  <2> SUFFICES ASSUME NEW m \in Numbers', NEW n \in Numbers', docs'[m].kind = "invoice",
                      docs'[n].kind = "invoice", docs'[m].job = docs'[n].job
               PROVE  m = n
    BY DEF OneInvoicePerJob
  <2>1. \A k \in Numbers : docs[k].kind = "invoice" => state[docs[k].job] # "open"
    BY DEF Papers, Invoiced
  <2>2. CASE m = next \/ n = next
    BY <1>2, <1>5, <2>1, <2>2
  <2>3. CASE m # next /\ n # next
    BY <1>2, <1>5, <2>3 DEF Papers, OneInvoicePerJob
  <2> QED
    BY <2>2, <2>3
<1>9. BilledWhatStands'
  BY <1>2, <1>5, <1>6 DEF Papers, BilledWhatStands
<1> QED
  BY <1>3, <1>7, <1>8, <1>9 DEF Papers

LEMMA CommitInvoiceStep == ASSUME IInv, NEW t \in Txs, CommitInvoice(t) PROVE IInv'
<1>1. tx[t].at = "moving" /\ tx[t].req.does = "issue"
  BY DEF CommitInvoice, Ready, Does
<1> DEFINE j == tx[t].req.job
           doc == [kind |-> "invoice", of |-> 0, job |-> j, key |-> NoKey, lines |-> tx[t].bill]
<1>2. /\ j \in Jobs /\ <<JobRow(j), "update">> \in holds[t] /\ state[j] = "open"
      /\ tx[t].bill = AsBilled(j)
      /\ tx[t].number = next /\ <<SeriesRow, "update">> \in holds[t]
  BY <1>1 DEF IInv, Held, HasNumber, Orders, Writes
<1>3. /\ Over(t) /\ lines' = lines /\ state' = [state EXCEPT ![j] = "invoiced"]
      /\ reserved' = [x \in Jobs \X Parts |-> IF x[1] = j THEN 0 ELSE reserved[x]]
      /\ next' = next + 1
      /\ docs' = [n \in Numbers \cup {next} |-> IF n = next THEN doc ELSE docs[n]]
  BY <1>2 DEF CommitInvoice, WriteDoc, On
<1>4. /\ state \in [Jobs -> {"open", "invoiced"}] /\ DOMAIN lines = Jobs
  BY DEF IInv, Shape
<1>5. Papers'
  <2>1. Papers
    BY DEF IInv
  <2>2. /\ doc.job = j /\ doc.lines = AsBilled(doc.job) /\ state'[j] = "invoiced"
        /\ \A k \in Jobs : state[k] = "invoiced" => state'[k] = "invoiced"
    BY <1>2, <1>3, <1>4
  <2> HIDE DEF doc
  <2> QED
    BY <1>2, <1>3, <2>1, <2>2, PaperAdded
<1>6. ReservedForOpenJobs'
  BY <1>3, <1>4 DEF IInv, ReservedForOpenJobs
<1>7. /\ state' \in [Jobs -> {"open", "invoiced"}] /\ DOMAIN lines' = Jobs
      /\ DOMAIN reserved' = Jobs \X Parts
      /\ \A k \in Jobs : k # j => state'[k] = state[k] /\ lines'[k] = lines[k]
  BY <1>3, <1>4
<1> HIDE DEF j
<1> QED
  BY <1>2, <1>3, <1>5, <1>6, <1>7, CommitStep

LEMMA CommitCorrectionStep == ASSUME IInv, NEW t \in Txs, CommitCorrection(t) PROVE IInv'
<1>1. tx[t].at = "moving" /\ tx[t].req.does \in {"credit", "rebill"}
  BY DEF CommitCorrection, Ready, Does
<1>2. tx[t].number = next /\ <<SeriesRow, "update">> \in holds[t]
  BY <1>1 DEF IInv, HasNumber, Writes
<1>3. Over(t) /\ UNCHANGED <<state, lines, reserved>>
  BY DEF CommitCorrection
<1>4. PICK doc : /\ doc.kind # "invoice" /\ next' = next + 1
                 /\ docs' = [n \in Numbers \cup {next} |-> IF n = next THEN doc ELSE docs[n]]
  <2> DEFINE r == tx[t].req
             kind == IF r.does = "credit" THEN "credit" ELSE "replacement"
             doc == [kind |-> kind, of |-> r.of, job |-> docs[r.of].job, key |-> r.key,
                     lines |-> tx[t].bill]
  <2>1. WriteDoc(t, doc)
    BY DEF CommitCorrection
  <2>2. doc.kind # "invoice"
    OBVIOUS
  <2> HIDE DEF doc
  <2> QED
    BY <1>2, <2>1, <2>2 DEF WriteDoc
<1>5. Papers'
  BY <1>3, <1>4, PaperAdded DEF IInv
<1>6. ReservedForOpenJobs'
  BY <1>3 DEF IInv, ReservedForOpenJobs
<1> QED
  BY <1>2, <1>3, <1>5, <1>6, CommitStep DEF IInv, Shape

\* The commits that write no document: what they change is on an open job.
LEMMA PapersStand ==
  ASSUME Papers, UNCHANGED <<next, docs, state>>,
         \A k \in Jobs : state[k] = "invoiced" => lines'[k] = lines[k]
  PROVE  Papers'
<1>1. Numbers' = Numbers
  BY DEF Numbers
<1>2. next' \in Nat \ {0} /\ NoGaps' /\ Invoiced'
  BY <1>1 DEF Papers, NoGaps, Invoiced
<1>3. OneInvoicePerJob'
  BY <1>1 DEF Papers, OneInvoicePerJob
<1>4. BilledWhatStands'
  <2> SUFFICES ASSUME NEW n \in Numbers, docs[n].kind = "invoice"
               PROVE  docs[n].lines = AsBilled(docs[n].job)'
    BY <1>1 DEF BilledWhatStands
  <2>1. lines'[docs[n].job] = lines[docs[n].job]
    BY DEF Papers, Invoiced
  <2>2. AsBilled(docs[n].job)' = AsBilled(docs[n].job)
    BY <2>1 DEF AsBilled
  <2> QED
    BY <2>2 DEF Papers, BilledWhatStands
<1> QED
  BY <1>2, <1>3, <1>4 DEF Papers

LEMMA CommitLineStep == ASSUME IInv, NEW t \in Txs, CommitLine(t) PROVE IInv'
<1> DEFINE r == tx[t].req
           j == r.job
<1>1. tx[t].at = "moving" /\ r.does = "add line"
  BY DEF CommitLine, Ready, Does
<1>2. j \in Jobs /\ <<JobRow(j), "update">> \in holds[t] /\ state[j] = "open"
  BY <1>1 DEF IInv, Held, Orders
<1>3. /\ Over(t) /\ UNCHANGED <<state, next, docs>>
      /\ lines' = [lines EXCEPT ![j] = Append(@, r.line)]
      /\ reserved' = [x \in Jobs \X Parts |->
                        reserved[x] + IF x = <<j, r.line.part>> THEN r.line.qty ELSE 0]
  BY DEF CommitLine
<1>4. /\ state \in [Jobs -> {"open", "invoiced"}] /\ DOMAIN lines = Jobs
  BY DEF IInv, Shape
<1>5. DOMAIN lines' = Jobs /\ \A k \in Jobs : k # j => lines'[k] = lines[k]
  BY <1>3, <1>4
<1>6. Papers'
  <2>1. \A k \in Jobs : state[k] = "invoiced" => lines'[k] = lines[k]
    BY <1>2, <1>5
  <2> QED
    BY <1>3, <2>1, PapersStand DEF IInv
<1>7. ReservedForOpenJobs'
  <2> SUFFICES ASSUME NEW x \in Jobs \X Parts, state[x[1]] = "invoiced" PROVE reserved'[x] = 0
    BY <1>3 DEF ReservedForOpenJobs
  <2>1. reserved[x] = 0
    BY DEF IInv, ReservedForOpenJobs
  <2>2. x # <<j, r.line.part>>
    BY <1>2
  <2>3. reserved'[x] = reserved[x] + 0
    BY <1>3, <2>2
  <2> QED
    BY <2>1, <2>3
<1>8. DOMAIN reserved' = Jobs \X Parts
  BY <1>3
<1> HIDE DEF j
<1> QED
  BY <1>2, <1>3, <1>4, <1>5, <1>6, <1>7, <1>8, CommitStep

LEMMA CommitTakeOutStep == ASSUME IInv, NEW t \in Txs, CommitTakeOut(t) PROVE IInv'
<1> DEFINE r == tx[t].req
           j == r.job
<1>1. tx[t].at = "moving" /\ r.does = "take out"
  BY DEF CommitTakeOut, Ready, Does
<1>2. j \in Jobs /\ <<JobRow(j), "update">> \in holds[t] /\ state[j] = "open"
  BY <1>1 DEF IInv, Held, Orders
<1>3. /\ Over(t) /\ UNCHANGED <<state, lines, next, docs>>
      /\ reserved' = [reserved EXCEPT ![<<j, r.part>>] = @ - Max({0, Min({@, r.qty})})]
  BY DEF CommitTakeOut
<1>4. Papers'
  BY <1>3, PapersStand DEF IInv
<1>5. DOMAIN reserved' = Jobs \X Parts
  BY <1>3 DEF IInv, Shape
<1>6. ReservedForOpenJobs'
  <2> SUFFICES ASSUME NEW x \in Jobs \X Parts, state[x[1]] = "invoiced" PROVE reserved'[x] = 0
    BY <1>3 DEF ReservedForOpenJobs
  <2>1. x # <<j, r.part>>
    BY <1>2
  <2>2. reserved'[x] = reserved[x]
    BY <1>3, <2>1
  <2> QED
    BY <2>2 DEF IInv, ReservedForOpenJobs
<1> QED
  BY <1>3, <1>4, <1>5, <1>6, CommitStep DEF IInv, Shape

\* What changes only shelf and used leaves the rest of it as it was.
LEMMA ShelfStep ==
  ASSUME IInv, NEW t \in Txs, Over(t), UNCHANGED <<state, lines, reserved, next, docs>>
  PROVE  IInv'
<1>1. Papers'
  BY PapersStand DEF IInv
<1>2. ReservedForOpenJobs'
  BY DEF IInv, ReservedForOpenJobs
<1> QED
  BY <1>1, <1>2, CommitStep DEF IInv, Shape

LEMMA NextKeepsIInv == ASSUME IInv, [Next]_vars PROVE IInv'
<1>1. ASSUME NEW t \in Txs, Step(t) PROVE IInv'
  <2>1. CASE OpenOrder(t)
    BY <2>1, OpenStep
  <2>2. CASE Refer(t)
    BY <2>2, ReferStep
  <2>3. CASE Reserve(t)
    BY <2>3, ReserveStep
  <2>4. CASE HoldCredited(t)
    BY <2>4, HoldCreditedStep
  <2>5. CASE HoldRebilled(t)
    BY <2>5, HoldRebilledStep
  <2>6. CASE TakeNumber(t)
    BY <2>6, TakeNumberStep
  <2>7. CASE HoldCounted(t)
    BY <2>7, HoldCountedStep
  <2>8. CASE Move(t)
    BY <2>8, MoveStep
  <2>9. CASE CommitInvoice(t)
    BY <2>9, CommitInvoiceStep
  <2>10. CASE CommitCorrection(t)
    BY <2>10, CommitCorrectionStep
  <2>11. CASE CommitLine(t)
    BY <2>11, CommitLineStep
  <2>12. CASE CommitTakeOut(t)
    BY <2>12, CommitTakeOutStep
  <2>13. CASE CommitPutBack(t)
    BY <2>13, ShelfStep DEF CommitPutBack
  <2>14. CASE CommitCount(t)
    BY <2>14, ShelfStep DEF CommitCount
  <2>15. CASE RollBack(t)
    BY <2>15, ShelfStep DEF RollBack, shop
  <2> QED
    BY <1>1, <2>1, <2>2, <2>3, <2>4, <2>5, <2>6, <2>7, <2>8, <2>9, <2>10, <2>11, <2>12, <2>13,
       <2>14, <2>15 DEF Step
<1>2. CASE UNCHANGED vars
  <2> USE <1>2 DEF vars, shop
  <2>1. Shape' /\ LocksHold'
    BY DEF IInv, Shape, LocksHold, Modes, Apart
  <2>2. \A t \in Txs : Held(t)' /\ HasNumber(t)'
    <3> SUFFICES ASSUME NEW t \in Txs PROVE Held(t)' /\ HasNumber(t)'
      OBVIOUS
    <3>1. Held(t)'
      BY DEF IInv, Held, AsBilled
    <3>2. HasNumber(t)'
      BY DEF IInv, HasNumber
    <3> QED
      BY <3>1, <3>2
  <2>3. Papers'
    BY PapersStand DEF IInv
  <2>4. ReservedForOpenJobs'
    BY DEF IInv, ReservedForOpenJobs
  <2> QED
    BY <2>1, <2>2, <2>3, <2>4 DEF IInv
<1> QED
  BY <1>1, <1>2 DEF Next

\* What every transaction holds, and what that keeps true of the documents.
THEOREM TransactionsKeepApart == Spec => []IInv
<1>1. Init => IInv
  BY InitIsGood
<1>2. IInv /\ [Next]_vars => IInv'
  BY NextKeepsIInv
<1> QED
  BY <1>1, <1>2, PTL DEF Spec

\* The series has no gaps and uses no number twice (invoice.go:104-107).
THEOREM NumbersHaveNoGaps == Spec => []NoGaps
<1>1. IInv => NoGaps
  BY DEF IInv, Papers
<1> QED
  BY <1>1, TransactionsKeepApart, PTL

\* A job is billed by one invoice (invoice.go:134-140, migration 0022).
THEOREM JobsAreBilledOnce == Spec => []OneInvoicePerJob
<1>1. IInv => OneInvoicePerJob
  BY DEF IInv, Papers
<1> QED
  BY <1>1, TransactionsKeepApart, PTL

\* An invoice bills what stands on its job, then and ever after (lines.go).
THEOREM InvoicesAreTrue == Spec => []BilledWhatStands
<1>1. IInv => BilledWhatStands
  BY DEF IInv, Papers
<1> QED
  BY <1>1, TransactionsKeepApart, PTL

\* Nothing is put aside for a job that is invoiced (invoice.go, setStateTx).
THEOREM NothingReservedInVain == Spec => []ReservedForOpenJobs
<1>1. IInv => ReservedForOpenJobs
  BY DEF IInv
<1> QED
  BY <1>1, TransactionsKeepApart, PTL

-----------------------------------------------------------------------------
(* What a document comes to, and what is left of it.                       *)

\* A line as it is billed: nothing is charged for none of it.
BilledLine ==
  {l \in [of : {0}, position : Nat, qty : Nat, unit : Nat, rate : Nat, net : Nat, vat : Nat] :
     l.qty = 0 => l.net = 0 /\ l.vat = 0}

\* Rounding keeps an amount what it is: no less than nothing, and nothing of none.
LEMMA RoundedIsNat ==
  ASSUME NEW a \in Nat, NEW b \in Nat \ {0, 1}
  PROVE  DivRound(a, b) \in Nat /\ (a = 0 => DivRound(a, b) = 0)
<1>1. DivRound(a, b) = (a + b \div 2) \div b
  BY DEF DivRound
<1>2. b \div 2 \in Nat /\ b \div 2 < b
  OBVIOUS
<1> DEFINE c == b \div 2
<1>3. (a + c) \div b \in Nat /\ c \div b = 0
  <2>1. c \in Nat /\ c < b
    BY <1>2
  <2> HIDE DEF c
  <2> QED
    BY <2>1, SMTT(30)
<1> QED
  BY <1>1, <1>3

LEMMA AmountsAreNat ==
  ASSUME NEW qty \in Nat, NEW unit \in Nat, NEW rate \in Nat
  PROVE  /\ LineNet(qty, unit) \in Nat /\ (qty = 0 => LineNet(qty, unit) = 0)
         /\ VAT(unit, rate) \in Nat /\ (unit = 0 => VAT(unit, rate) = 0)
<1>1. qty * unit \in Nat /\ (qty = 0 => qty * unit = 0)
  OBVIOUS
<1>2. unit * rate \in Nat /\ (unit = 0 => unit * rate = 0)
  OBVIOUS
<1> QED
  BY <1>1, <1>2, RoundedIsNat DEF LineNet, VAT

LEMMA BilledFits ==
  ASSUME NEW l \in LineOnJob, NEW i \in Nat
  PROVE  Billed(l, i) \in BilledLine
<1> DEFINE net == LineNet(l.qty, l.unit)
           vat == VAT(net, l.rate)
<1>1. l.qty \in Nat /\ l.unit \in Nat /\ l.rate \in Nat
  BY DEF LineOnJob
<1>2. net \in Nat /\ (l.qty = 0 => net = 0)
  BY <1>1, AmountsAreNat
<1>3. vat \in Nat /\ (net = 0 => vat = 0)
  BY <1>1, <1>2, AmountsAreNat
<1>4. Billed(l, i) = [of |-> 0, position |-> i, qty |-> l.qty, unit |-> l.unit, rate |-> l.rate,
                      net |-> net, vat |-> vat]
  BY DEF Billed
<1> HIDE DEF net, vat
<1> QED
  BY <1>1, <1>2, <1>3, <1>4 DEF BilledLine

LEMMA BillFits ==
  ASSUME lines \in [Jobs -> Seq(LineOnJob)], NEW j \in Jobs
  PROVE  AsBilled(j) \in Seq(BilledLine)
<1>1. lines[j] \in Seq(LineOnJob)
  OBVIOUS
<1>2. DOMAIN lines[j] = 1..Len(lines[j]) /\ Len(lines[j]) \in Nat
  BY <1>1
<1>3. ASSUME NEW i \in 1..Len(lines[j]) PROVE Billed(lines[j][i], i) \in BilledLine
  <2>1. lines[j][i] \in LineOnJob
    BY <1>1
  <2> QED
    BY <2>1, BilledFits
<1>4. AsBilled(j) = [i \in 1..Len(lines[j]) |-> Billed(lines[j][i], i)]
  BY <1>2 DEF AsBilled
<1>5. AsBilled(j) \in [1..Len(lines[j]) -> BilledLine]
  BY <1>3, <1>4
<1> QED
  BY <1>2, <1>5

LEMMA BilledAreLines == BilledLine \subseteq LineOnDoc /\ Seq(BilledLine) \subseteq Seq(LineOnDoc)
<1>1. BilledLine \subseteq LineOnDoc
  BY DEF BilledLine, LineOnDoc
<1>2. ASSUME NEW s \in Seq(BilledLine) PROVE s \in Seq(LineOnDoc)
  <2>1. s \in [1..Len(s) -> BilledLine] /\ Len(s) \in Nat
    OBVIOUS
  <2>2. s \in [1..Len(s) -> LineOnDoc]
    BY <1>1, <2>1
  <2> QED
    BY <2>1, <2>2
<1> QED
  BY <1>1, <1>2

LEMMA GrossIsInt ==
  ASSUME NEW ls \in Seq(LineOnDoc)
  PROVE  Gross(ls) \in Int
<1> DEFINE f == [i \in DOMAIN ls |-> ls[i].net + ls[i].vat]
<1>1. DOMAIN ls = 1..Len(ls) /\ IsFiniteSet(DOMAIN ls)
  BY FS_Interval
<1>2. \A i \in DOMAIN ls : f[i] \in Int
  <2> SUFFICES ASSUME NEW i \in DOMAIN ls PROVE ls[i].net + ls[i].vat \in Int
    OBVIOUS
  <2>1. ls[i] \in LineOnDoc
    OBVIOUS
  <2> QED
    BY <2>1 DEF LineOnDoc
<1> HIDE DEF f
<1>3. SumFunctionOnSet(f, DOMAIN ls) \in Int
  BY <1>1, <1>2, SumIsInt
<1> QED
  BY <1>3 DEF Gross, f

LEMMA GrossIsNat ==
  ASSUME NEW ls \in Seq(BilledLine)
  PROVE  Gross(ls) \in Nat
<1> DEFINE f == [i \in DOMAIN ls |-> ls[i].net + ls[i].vat]
<1>1. DOMAIN ls = 1..Len(ls) /\ IsFiniteSet(DOMAIN ls)
  BY FS_Interval
<1>2. \A i \in DOMAIN ls : f[i] \in Nat
  <2> SUFFICES ASSUME NEW i \in DOMAIN ls PROVE ls[i].net + ls[i].vat \in Nat
    OBVIOUS
  <2>1. ls[i] \in BilledLine
    OBVIOUS
  <2>2. ls[i].net \in Nat /\ ls[i].vat \in Nat
    BY <2>1 DEF BilledLine
  <2> QED
    BY <2>2
<1> HIDE DEF f
<1>3. SumFunctionOnSet(f, DOMAIN ls) \in Nat
  BY <1>1, <1>2, SumIsNat
<1> QED
  BY <1>3 DEF Gross, f

LEMMA PricedIsInt ==
  ASSUME lines \in [Jobs -> Seq(LineOnJob)], NEW j \in Jobs, NEW p
  PROVE  Priced(j, p) \in Int
<1> DEFINE ls == lines[j]
           f == [i \in DOMAIN ls |-> ls[i].qty]
           S == {i \in DOMAIN ls : ls[i].part = p}
<1>1. ls \in Seq(LineOnJob)
  OBVIOUS
<1>2. DOMAIN ls = 1..Len(ls) /\ IsFiniteSet(DOMAIN ls)
  BY <1>1, FS_Interval
<1>3. \A i \in S : f[i] \in Int
  <2> SUFFICES ASSUME NEW i \in DOMAIN ls PROVE ls[i].qty \in Int
    OBVIOUS
  <2>1. ls[i] \in LineOnJob
    BY <1>1
  <2> QED
    BY <2>1 DEF LineOnJob
<1>4. IsFiniteSet(S)
  BY <1>2, FS_Subset
<1>5. Priced(j, p) = SumFunctionOnSet(f, S)
  BY DEF Priced, PricedOn
<1> HIDE DEF f, S
<1> QED
  BY <1>3, <1>4, <1>5, SumIsInt

\* The documents fit their kinds, and there are as many as there are numbers.
Bills ==
  \A n \in Numbers :
    /\ n \in Nat /\ docs[n] \in Document
    /\ docs[n].of \in Numbers \cup {0}
    /\ docs[n].kind # "credit" => docs[n].lines \in Seq(BilledLine) /\ state[docs[n].job] = "invoiced"

Amount == {"qty", "net", "vat"}

LEMMA CreditedIsFinite ==
  ASSUME Bills, IsFiniteSet(Numbers), NEW n, NEW i
  PROVE  IsFiniteSet(CreditsOf(n)) /\ IsFiniteSet(Credited(n, i))
<1> DEFINE C == CreditsOf(n)
           K(m) == {k \in DOMAIN docs[m].lines : docs[m].lines[k].of = i}
           F == [m \in C |-> {m} \X K(m)]
           T == {{m} \X K(m) : m \in C}
<1>1. IsFiniteSet(C) /\ C \subseteq Numbers
  BY FS_Subset DEF CreditsOf
<1>2. ASSUME NEW m \in C PROVE IsFiniteSet({m} \X K(m))
  <2>1. docs[m].lines \in Seq(LineOnDoc)
    BY <1>1 DEF Bills, Document
  <2>2. IsFiniteSet(DOMAIN docs[m].lines)
    BY <2>1, FS_Interval
  <2>3. IsFiniteSet(K(m)) /\ IsFiniteSet({m})
    BY <2>2, FS_Subset, FS_Singleton
  <2> QED
    BY <2>3, FS_Product
<1> HIDE DEF C, K
<1>3. F \in Surjection(C, T)
  BY DEF Surjection
<1>4. IsFiniteSet(T)
  <2> HIDE DEF F, T
  <2> QED
    BY <1>1, <1>3, FS_Surjection
<1>5. \A X \in T : IsFiniteSet(X)
  BY <1>2
<1>6. IsFiniteSet(UNION T)
  <2> HIDE DEF T
  <2> QED
    BY <1>4, <1>5, FS_UNION
<1> QED
  BY <1>1, <1>6 DEF Credited, C, K

LEMMA CreditedIs ==
  ASSUME NEW n, NEW i, NEW c
  PROVE  c \in Credited(n, i) <=>
           \E m \in CreditsOf(n) : \E k \in DOMAIN docs[m].lines : docs[m].lines[k].of = i /\ c = <<m, k>>
BY DEF Credited

LEMMA LeftIsInt ==
  ASSUME Bills, IsFiniteSet(Numbers), NEW n \in Numbers
  PROVE  Left(n) \in Int
<1> DEFINE C == CreditsOf(n)
           f == [m \in C |-> Gross(docs[m].lines)]
<1>1. IsFiniteSet(C) /\ C \subseteq Numbers
  BY FS_Subset DEF CreditsOf
<1>2. \A m \in Numbers : Gross(docs[m].lines) \in Int
  BY GrossIsInt DEF Bills, Document
<1>3. \A m \in C : f[m] \in Int
  BY <1>1, <1>2
<1>4. Left(n) = Gross(docs[n].lines) + SumFunctionOnSet(f, C)
  BY DEF Left
<1> HIDE DEF f, C
<1> QED
  BY <1>1, <1>2, <1>3, <1>4, SumIsInt

LEMMA AmountIsInt ==
  ASSUME Bills, NEW n \in Numbers, NEW k \in DOMAIN docs[n].lines, NEW f \in Amount
  PROVE  docs[n].lines[k][f] \in Int
<1>1. docs[n].lines \in Seq(LineOnDoc)
  BY DEF Bills, Document
<1>2. docs[n].lines[k] \in LineOnDoc
  BY <1>1
<1> QED
  BY <1>2 DEF LineOnDoc, Amount

LEMMA LeftOfIsInt ==
  ASSUME Bills, IsFiniteSet(Numbers), NEW n \in Numbers, NEW i \in DOMAIN docs[n].lines, NEW f \in Amount
  PROVE  LeftOf(n, i, f) \in Int
<1> DEFINE C == Credited(n, i)
           g == [c \in C |-> docs[c[1]].lines[c[2]][f]]
<1>1. IsFiniteSet(C)
  BY CreditedIsFinite
<1>2. ASSUME NEW c \in C PROVE g[c] \in Int
  <2>0. PICK m \in CreditsOf(n) : \E k \in DOMAIN docs[m].lines : c = <<m, k>>
    BY CreditedIs
  <2>1. PICK k \in DOMAIN docs[m].lines : c = <<m, k>>
    BY <2>0
  <2>2. m \in Numbers
    BY DEF CreditsOf
  <2> QED
    BY <2>1, <2>2, AmountIsInt
<1>3. LeftOf(n, i, f) = docs[n].lines[i][f] + SumFunctionOnSet(g, C)
  BY DEF LeftOf
<1>4. docs[n].lines[i][f] \in Int
  BY AmountIsInt
<1> HIDE DEF g, C
<1> QED
  BY <1>1, <1>2, <1>3, <1>4, SumIsInt

\* Documents came to be, none of them a credit of n: what is left of n is the same.
LEMMA LeftStands ==
  ASSUME NEW n \in Numbers, Numbers \subseteq Numbers', \A m \in Numbers : docs'[m] = docs[m],
         \A m \in Numbers' \ Numbers : docs'[m].kind = "credit" => docs'[m].of # n
  PROVE  Left(n)' = Left(n) /\ \A i, f : LeftOf(n, i, f)' = LeftOf(n, i, f)
<1>1. CreditsOf(n)' = CreditsOf(n) /\ CreditsOf(n) \subseteq Numbers
  BY DEF CreditsOf
<1>3. \A m \in Numbers : Gross(docs[m].lines)' = Gross(docs[m].lines)
  BY DEF Gross
<1>4. Left(n)' = Left(n)
  <2>1. [m \in CreditsOf(n) |-> Gross(docs[m].lines)'] = [m \in CreditsOf(n) |-> Gross(docs[m].lines)]
    BY <1>1, <1>3
  <2> QED
    BY <1>1, <1>3, <2>1 DEF Left
<1>5. ASSUME NEW i PROVE Credited(n, i)' = Credited(n, i)
  <2>1. \A c : c \in Credited(n, i) <=>
          \E m \in CreditsOf(n) : \E k \in DOMAIN docs[m].lines : docs[m].lines[k].of = i /\ c = <<m, k>>
    BY CreditedIs
  <2>2. \A c : c \in Credited(n, i)' <=>
          \E m \in CreditsOf(n)' : \E k \in DOMAIN docs'[m].lines : docs'[m].lines[k].of = i /\ c = <<m, k>>
    BY DEF Credited
  <2>3. \A m \in CreditsOf(n) : docs'[m] = docs[m]
    BY <1>1
  <2>4. \A c : c \in Credited(n, i)' <=> c \in Credited(n, i)
    BY <1>1, <2>1, <2>2, <2>3
  <2> HIDE DEF Credited
  <2> QED
    BY <2>4
<1>6. ASSUME NEW i, NEW f PROVE LeftOf(n, i, f)' = LeftOf(n, i, f)
  <2>1. \A c \in Credited(n, i) : c[1] \in Numbers
    BY <1>1, CreditedIs
  <2>2. [c \in Credited(n, i) |-> docs'[c[1]].lines[c[2]][f]] = [c \in Credited(n, i) |-> docs[c[1]].lines[c[2]][f]]
    BY <2>1
  <2> QED
    BY <1>5, <2>2 DEF LeftOf
<1> QED
  BY <1>4, <1>6

\* None of them about n: nothing of n has changed.
LEMMA Untouched ==
  ASSUME NEW n \in Numbers, Numbers \subseteq Numbers', \A m \in Numbers : docs'[m] = docs[m],
         \A m \in Numbers' \ Numbers : docs'[m].of # n
  PROVE  /\ Left(n)' = Left(n) /\ Replaced(n)' = Replaced(n) /\ MayRebill(n)' = MayRebill(n)
         /\ \A i, f : LeftOf(n, i, f)' = LeftOf(n, i, f)
         /\ \A w : CreditPlan(n, w)' = CreditPlan(n, w) /\ MayCredit(n, w)' = MayCredit(n, w)
<1>2. Replaced(n)' = Replaced(n)
  BY DEF Replaced, Corrections
<1>4. Left(n)' = Left(n)
  BY LeftStands
<1>6. ASSUME NEW i, NEW f PROVE LeftOf(n, i, f)' = LeftOf(n, i, f)
  BY LeftStands
<1>7. ASSUME NEW i, NEW q PROVE TakenBack(n, i, q)' = TakenBack(n, i, q) /\ Quantity(n, i, q)' = Quantity(n, i, q)
  BY <1>6 DEF TakenBack, Quantity, QtyLeft, NetLeft, VatLeft
<1>8. ASSUME NEW w PROVE Named(n, w)' = Named(n, w)
  BY <1>6 DEF Named, NetLeft, VatLeft
<1>9. ASSUME NEW w PROVE CreditPlan(n, w)' = CreditPlan(n, w)
  <2> DEFINE named == Named(n, w)
             order == SetToSeq(DOMAIN named)
  <2>1. named' = named
    BY <1>8
  <2> HIDE DEF named
  <2>2. \A k : TakenBack(n, order[k], Quantity(n, order[k], named[order[k]]))'
             = TakenBack(n, order[k], Quantity(n, order[k], named[order[k]]))
    BY <1>7, <2>1
  <2>3. [k \in DOMAIN order |-> TakenBack(n, order[k], Quantity(n, order[k], named[order[k]]))]'
      = [k \in DOMAIN order |-> TakenBack(n, order[k], Quantity(n, order[k], named[order[k]]))]
    BY <2>1, <2>2
  <2> QED
    BY <2>3 DEF CreditPlan, named
<1>10. ASSUME NEW w PROVE MayCredit(n, w)' = MayCredit(n, w)
  <2>1. Gross(CreditPlan(n, w))' = Gross(CreditPlan(n, w))
    BY <1>9 DEF Gross
  <2>2. \A i : QtyLeft(n, i)' = QtyLeft(n, i)
    BY <1>6 DEF QtyLeft
  <2> QED
    BY <1>4, <1>7, <1>8, <2>1, <2>2 DEF MayCredit
<1>11. MayRebill(n)' = MayRebill(n)
  BY <1>2, <1>4 DEF MayRebill
<1> QED
  BY <1>2, <1>4, <1>6, <1>9, <1>10, <1>11

-----------------------------------------------------------------------------
(* What a credit takes back.                                               *)

\* A finite set in some order: each of them once.
LEMMA InSomeOrder ==
  ASSUME NEW S, IsFiniteSet(S)
  PROVE  /\ SetToSeq(S) \in [1..Cardinality(S) -> S] /\ Cardinality(S) \in Nat
         /\ \A k, l \in 1..Cardinality(S) : SetToSeq(S)[k] = SetToSeq(S)[l] => k = l
<1> DEFINE N == Cardinality(S)
<1>1. N \in Nat /\ ExistsBijection(1..N, S)
  BY FS_CardinalityType
<1>2. \E f \in [1..N -> S] : IsInjective(f)
  BY <1>1 DEF ExistsBijection, Bijection, Injection
<1>3. SetToSeq(S) \in [1..N -> S] /\ IsInjective(SetToSeq(S))
  BY <1>2 DEF SetToSeq
<1>4. \A k, l \in 1..N : SetToSeq(S)[k] = SetToSeq(S)[l] => k = l
  BY <1>3 DEF IsInjective
<1> QED
  BY <1>1, <1>3, <1>4

\* The lines of a credit take back at most one share of line i of n: no more than
\* is left of it, and what is left of its amounts with the last of it.
Shares(n, i, plan) ==
  \A k \in DOMAIN plan : plan[k].of = i =>
    /\ \A l \in DOMAIN plan : plan[l].of = i => l = k
    /\ -plan[k].qty \in 1..QtyLeft(n, i)
    /\ -plan[k].qty = QtyLeft(n, i) => plan[k].net = -NetLeft(n, i) /\ plan[k].vat = -VatLeft(n, i)

LEMMA AdjustedFits ==
  ASSUME NEW a \in [net : Nat, rate : Nat]
  PROVE  Adjusted(a) \in LineOnDoc /\ Adjusted(a).of = 0
<1> DEFINE v == VAT(a.net, a.rate)
<1>1. a.net \in Nat /\ a.rate \in Nat
  OBVIOUS
<1>2. v \in Nat
  BY <1>1, AmountsAreNat
<1>3. Adjusted(a) = [of |-> 0, position |-> 0, qty |-> -1000, unit |-> a.net, rate |-> a.rate,
                     net |-> -a.net, vat |-> -v]
  BY DEF Adjusted
<1> HIDE DEF v
<1> QED
  BY <1>1, <1>2, <1>3 DEF LineOnDoc

LEMMA TakenBackFits ==
  ASSUME Bills, IsFiniteSet(Numbers), NEW n \in Numbers, docs[n].kind # "credit",
         NEW i \in DOMAIN docs[n].lines, NEW q \in 1..QtyLeft(n, i)
  PROVE  /\ TakenBack(n, i, q) \in LineOnDoc
         /\ TakenBack(n, i, q).of = i /\ TakenBack(n, i, q).qty = -q
         /\ q = QtyLeft(n, i) => /\ TakenBack(n, i, q).net = -NetLeft(n, i)
                                 /\ TakenBack(n, i, q).vat = -VatLeft(n, i)
<1> DEFINE l    == docs[n].lines[i]
           part == LineNet(q, l.unit)
           v    == VAT(part, l.rate)
           rest == q = QtyLeft(n, i)
<1>1. docs[n].lines \in Seq(BilledLine)
  BY DEF Bills
<1>2. l \in BilledLine /\ i \in Nat
  BY <1>1
<1>3. l.unit \in Nat /\ l.rate \in Nat
  BY <1>2 DEF BilledLine
<1>4. QtyLeft(n, i) \in Int /\ NetLeft(n, i) \in Int /\ VatLeft(n, i) \in Int
  BY LeftOfIsInt DEF QtyLeft, NetLeft, VatLeft, Amount
<1>5. q \in Nat
  BY <1>4
<1>6. part \in Nat
  BY <1>3, <1>5, AmountsAreNat
<1>7. v \in Nat
  BY <1>3, <1>6, AmountsAreNat
<1>8. TakenBack(n, i, q) =
        [of |-> i, position |-> 0, qty |-> -q, unit |-> l.unit, rate |-> l.rate,
         net |-> -(IF rest THEN NetLeft(n, i) ELSE part),
         vat |-> -(IF rest THEN VatLeft(n, i) ELSE v)]
  BY DEF TakenBack
<1>9. /\ -(IF rest THEN NetLeft(n, i) ELSE part) \in Int
      /\ -(IF rest THEN VatLeft(n, i) ELSE v) \in Int
  BY <1>4, <1>6, <1>7
<1> HIDE DEF l, part, v
<1> QED
  BY <1>2, <1>3, <1>5, <1>8, <1>9 DEF LineOnDoc

LEMMA PlanFits ==
  ASSUME Bills, IsFiniteSet(Numbers), NEW n \in Numbers, NEW w \in Wishes, MayCredit(n, w)
  PROVE  /\ CreditPlan(n, w) \in Seq(LineOnDoc)
         /\ \A i \in DOMAIN docs[n].lines : Shares(n, i, CreditPlan(n, w))
<1> DEFINE named == Named(n, w)
           S     == DOMAIN named
           N     == Cardinality(S)
           order == SetToSeq(S)
           Q(k)  == Quantity(n, order[k], named[order[k]])
           A     == [k \in DOMAIN order |-> TakenBack(n, order[k], Q(k))]
           B     == [k \in DOMAIN w.adjust |-> Adjusted(w.adjust[k])]
           plan  == CreditPlan(n, w)
<1>1. /\ docs[n].kind # "credit" /\ S \subseteq DOMAIN docs[n].lines
      /\ \A i \in S : Quantity(n, i, named[i]) \in 1..QtyLeft(n, i)
  BY DEF MayCredit
<1>2. docs[n].lines \in Seq(LineOnDoc)
  BY DEF Bills, Document
<1>3. DOMAIN docs[n].lines = 1..Len(docs[n].lines) /\ IsFiniteSet(DOMAIN docs[n].lines)
  BY <1>2, FS_Interval
<1>4. IsFiniteSet(S)
  BY <1>1, <1>3, FS_Subset
<1>5. plan = A \o B
  BY DEF CreditPlan
<1> HIDE DEF named, plan
<1>6. /\ order \in [1..N -> S] /\ N \in Nat
      /\ \A k, l \in 1..N : order[k] = order[l] => k = l
  <2> HIDE DEF S
  <2> QED
    BY <1>4, InSomeOrder
<1> HIDE DEF S, N, order
<1>7. ASSUME NEW k \in 1..N
      PROVE  /\ order[k] \in DOMAIN docs[n].lines /\ Q(k) \in 1..QtyLeft(n, order[k])
             /\ A[k] = TakenBack(n, order[k], Q(k))
  BY <1>1, <1>6
<1>8. ASSUME NEW k \in 1..N
      PROVE  /\ A[k] \in LineOnDoc /\ A[k].of = order[k] /\ -A[k].qty \in 1..QtyLeft(n, order[k])
             /\ -A[k].qty = QtyLeft(n, order[k]) =>
                  A[k].net = -NetLeft(n, order[k]) /\ A[k].vat = -VatLeft(n, order[k])
  <2> DEFINE q == Q(k)
             x == A[k]
  <2>1. order[k] \in DOMAIN docs[n].lines /\ q \in 1..QtyLeft(n, order[k]) /\ x = TakenBack(n, order[k], q)
    BY <1>7
  <2> HIDE DEF q, x, A
  <2>2. /\ x \in LineOnDoc /\ x.of = order[k] /\ x.qty = -q
        /\ q = QtyLeft(n, order[k]) => x.net = -NetLeft(n, order[k]) /\ x.vat = -VatLeft(n, order[k])
    BY <1>1, <2>1, TakenBackFits
  <2>3. q \in Int /\ -x.qty = q
    BY <2>1, <2>2
  <2> QED
    BY <2>1, <2>2, <2>3 DEF x
<1>9. A \in Seq(LineOnDoc) /\ Len(A) = N
  <2>1. DOMAIN A = 1..N /\ A \in [1..N -> LineOnDoc]
    BY <1>6, <1>8
  <2> HIDE DEF A
  <2> QED
    BY <1>6, <2>1
<1>10. w.adjust \in Seq([net : Nat, rate : Nat])
  BY AdjustmentsAreCounted
<1>11. /\ B \in Seq(LineOnDoc) /\ Len(B) = Len(w.adjust)
       /\ \A k \in 1..Len(B) : B[k].of = 0
  <2> DEFINE M == Len(w.adjust)
  <2>1. DOMAIN w.adjust = 1..M /\ M \in Nat
    BY <1>10
  <2>2. \A k \in 1..M : Adjusted(w.adjust[k]) \in LineOnDoc /\ Adjusted(w.adjust[k]).of = 0
    <3> SUFFICES ASSUME NEW k \in 1..M
                 PROVE  Adjusted(w.adjust[k]) \in LineOnDoc /\ Adjusted(w.adjust[k]).of = 0
      OBVIOUS
    <3> DEFINE T == [net : Nat, rate : Nat]
    <3>0. w.adjust \in Seq(T)
      BY <1>10
    <3> HIDE DEF T
    <3>1. w.adjust[k] \in T
      BY <2>1, <3>0, ElementOfSeq
    <3> QED
      BY <3>1, AdjustedFits DEF T
  <2>3. B \in [1..M -> LineOnDoc] /\ \A k \in 1..M : B[k].of = 0
    BY <2>1, <2>2
  <2> HIDE DEF B, M
  <2>4. Len(B) = M /\ B \in Seq(LineOnDoc)
    BY <2>1, <2>3
  <2> QED
    BY <2>3, <2>4 DEF M
<1> HIDE DEF A, B
<1>12. /\ plan \in Seq(LineOnDoc) /\ DOMAIN plan = 1..(N + Len(B))
       /\ \A k \in 1..N : plan[k] = A[k]
       /\ \A k \in DOMAIN plan : k \notin 1..N => k - N \in 1..Len(B) /\ plan[k] = B[k - N]
  <2>1. Len(B) \in Nat
    BY <1>11
  <2>2. /\ plan \in Seq(LineOnDoc) /\ Len(plan) = N + Len(B)
        /\ \A k \in 1..(N + Len(B)) : plan[k] = IF k <= N THEN A[k] ELSE B[k - N]
    <3>1. /\ A \o B \in Seq(LineOnDoc) /\ Len(A \o B) = Len(A) + Len(B)
          /\ \A k \in 1..(Len(A) + Len(B)) : (A \o B)[k] = IF k <= Len(A) THEN A[k] ELSE B[k - Len(A)]
      <4>1. A \in Seq(LineOnDoc) /\ B \in Seq(LineOnDoc)
        BY <1>9, <1>11
      <4> QED
        BY <4>1, ConcatProperties, Zenon
    <3>2. Len(A) = N
      BY <1>9
    <3> QED
      BY <1>5, <3>1, <3>2, Zenon
  <2>3. DOMAIN plan = 1..(N + Len(B))
    BY <2>2
  <2> QED
    BY <1>6, <2>1, <2>2, <2>3
<1>13. ASSUME NEW k \in DOMAIN plan, NEW i \in DOMAIN docs[n].lines, plan[k].of = i
       PROVE  k \in 1..N /\ order[k] = i
  <2>1. i # 0
    BY <1>3, <1>13
  <2>2. k \in 1..N
    BY <1>11, <1>12, <1>13, <2>1
  <2> QED
    BY <1>8, <1>12, <1>13, <2>2
<1>14. ASSUME NEW i \in DOMAIN docs[n].lines PROVE Shares(n, i, plan)
  <2> SUFFICES ASSUME NEW k \in DOMAIN plan, plan[k].of = i
               PROVE  /\ \A l \in DOMAIN plan : plan[l].of = i => l = k
                      /\ -plan[k].qty \in 1..QtyLeft(n, i)
                      /\ -plan[k].qty = QtyLeft(n, i) =>
                           plan[k].net = -NetLeft(n, i) /\ plan[k].vat = -VatLeft(n, i)
    BY DEF Shares
  <2>1. k \in 1..N /\ order[k] = i /\ plan[k] = A[k]
    BY <1>12, <1>13
  <2>2. \A l \in DOMAIN plan : plan[l].of = i => l = k
    BY <1>6, <1>13, <2>1
  <2> QED
    BY <1>8, <2>1, <2>2
<1> QED
  BY <1>12, <1>14 DEF plan

\* A credit of n takes from n what its lines come to, and from a line of n what
\* its share of that line is.
Takes(n, ls) ==
  /\ Left(n)' = Left(n) + Gross(ls)
  /\ \A i \in DOMAIN docs[n].lines, f \in Amount :
       /\ (\A k \in DOMAIN ls : ls[k].of # i) => LeftOf(n, i, f)' = LeftOf(n, i, f)
       /\ \A k \in DOMAIN ls :
            ls[k].of = i /\ (\A l \in DOMAIN ls : ls[l].of = i => l = k)
              => LeftOf(n, i, f)' = LeftOf(n, i, f) + ls[k][f]

LEMMA CreditAdded ==
  ASSUME Bills, IsFiniteSet(Numbers), NEW n \in Numbers, NEW N, N \notin Numbers,
         Numbers' = Numbers \cup {N}, \A m \in Numbers : docs'[m] = docs[m],
         NEW doc, docs'[N] = doc, doc.kind = "credit", doc.of = n, doc.lines \in Seq(LineOnDoc)
  PROVE  Takes(n, doc.lines)
<1> DEFINE C == CreditsOf(n)
<1>1. C' = C \cup {N} /\ C \subseteq Numbers /\ IsFiniteSet(C) /\ N \notin C
  BY CreditedIsFinite DEF CreditsOf
<1>2. Left(n)' = Left(n) + Gross(doc.lines)
  <2> DEFINE f == [m \in C |-> Gross(docs[m].lines)]
             g == [m \in C \cup {N} |-> Gross(docs'[m].lines)]
  <2>1. \A m \in Numbers : Gross(docs[m].lines) \in Int /\ Gross(docs'[m].lines) = Gross(docs[m].lines)
    BY GrossIsInt DEF Bills, Document
  <2>2. Gross(doc.lines) \in Int
    BY GrossIsInt
  <2>3. /\ \A m \in C : f[m] = g[m] /\ g[m] \in Int /\ f[m] \in Int
        /\ g[N] = Gross(doc.lines)
    BY <1>1, <2>1
  <2>4. Left(n) = Gross(docs[n].lines) + SumFunctionOnSet(f, C)
    BY DEF Left
  <2>5. Left(n)' = Gross(docs[n].lines) + SumFunctionOnSet(g, C \cup {N})
    BY <1>1, <2>1 DEF Left, Gross
  <2> HIDE DEF f, g, C
  <2>6. SumFunctionOnSet(g, C \cup {N}) = Gross(doc.lines) + SumFunctionOnSet(g, C)
    BY <1>1, <2>2, <2>3, SumWithOne
  <2>7. SumFunctionOnSet(f, C) = SumFunctionOnSet(g, C) /\ SumFunctionOnSet(f, C) \in Int
    BY <1>1, <2>3, SumIsOfItsTerms, SumIsInt
  <2> QED
    BY <2>1, <2>2, <2>4, <2>5, <2>6, <2>7
<1>3. ASSUME NEW i \in DOMAIN docs[n].lines, NEW f \in Amount
      PROVE  /\ (\A k \in DOMAIN doc.lines : doc.lines[k].of # i) => LeftOf(n, i, f)' = LeftOf(n, i, f)
             /\ \A k \in DOMAIN doc.lines :
                  doc.lines[k].of = i /\ (\A l \in DOMAIN doc.lines : doc.lines[l].of = i => l = k)
                    => LeftOf(n, i, f)' = LeftOf(n, i, f) + doc.lines[k][f]
  <2> DEFINE D == Credited(n, i)
             h == [c \in D |-> docs[c[1]].lines[c[2]][f]]
             g == [c \in D' |-> docs'[c[1]].lines[c[2]][f]]
  <2>1. /\ \A c : c \in D <=>
             \E m \in C : \E k \in DOMAIN docs[m].lines : docs[m].lines[k].of = i /\ c = <<m, k>>
        /\ IsFiniteSet(D)
    BY CreditedIs, CreditedIsFinite
  <2>2. \A c : c \in D' <=>
          \E m \in C' : \E k \in DOMAIN docs'[m].lines : docs'[m].lines[k].of = i /\ c = <<m, k>>
    BY DEF Credited
  <2>3. /\ LeftOf(n, i, f) = docs[n].lines[i][f] + SumFunctionOnSet(h, D)
        /\ LeftOf(n, i, f)' = docs[n].lines[i][f] + SumFunctionOnSet(g, D')
    BY DEF LeftOf
  <2>4. docs[n].lines[i][f] \in Int
    BY AmountIsInt
  <2> HIDE DEF D, C
  <2>5. \A c : c \in D' <=>
          \/ c \in D
          \/ \E k \in DOMAIN doc.lines : doc.lines[k].of = i /\ c = <<N, k>>
    BY <1>1, <2>1, <2>2
  <2>6. ASSUME NEW c \in D PROVE c \in D' /\ h[c] = g[c] /\ h[c] \in Int
    <3>1. PICK m \in C : \E k \in DOMAIN docs[m].lines : c = <<m, k>>
      BY <2>1
    <3>2. PICK k \in DOMAIN docs[m].lines : c = <<m, k>>
      BY <3>1
    <3>3. m \in Numbers /\ docs'[m] = docs[m]
      BY <1>1
    <3>4. docs[m].lines[k][f] \in Int
      BY <3>2, <3>3, AmountIsInt
    <3> QED
      BY <2>5, <3>2, <3>3, <3>4
  <2>7. SumFunctionOnSet(h, D) = SumFunctionOnSet(g, D) /\ SumFunctionOnSet(h, D) \in Int
    <3> HIDE DEF h, g
    <3> QED
      BY <2>1, <2>6, SumIsOfItsTerms, SumIsInt
  <2>8. ASSUME \A k \in DOMAIN doc.lines : doc.lines[k].of # i
        PROVE  LeftOf(n, i, f)' = LeftOf(n, i, f)
    <3>1. D' = D
      BY <2>5, <2>8
    <3> QED
      BY <2>3, <2>7, <3>1
  <2>9. ASSUME NEW k \in DOMAIN doc.lines, doc.lines[k].of = i,
               \A l \in DOMAIN doc.lines : doc.lines[l].of = i => l = k
        PROVE  LeftOf(n, i, f)' = LeftOf(n, i, f) + doc.lines[k][f]
    <3> DEFINE x == <<N, k>>
    <3>1. D' = D \cup {x}
      BY <2>5, <2>9
    <3>2. x \notin D
      BY <1>1, <2>1
    <3>3. g[x] = doc.lines[k][f] /\ doc.lines[k][f] \in Int
      <4>1. x \in D'
        BY <3>1
      <4>2. doc.lines[k] \in LineOnDoc
        OBVIOUS
      <4>3. doc.lines[k][f] \in Int
        BY <4>2 DEF LineOnDoc, Amount
      <4> QED
        BY <4>1, <4>3
    <3> HIDE DEF x, h, g
    <3>4. SumFunctionOnSet(g, D \cup {x}) = g[x] + SumFunctionOnSet(g, D)
      BY <2>1, <2>6, <3>2, <3>3, SumWithOne
    <3> QED
      BY <2>3, <2>4, <2>7, <3>1, <3>3, <3>4
  <2> QED
    BY <2>8, <2>9
<1> QED
  BY <1>2, <1>3 DEF Takes

\* Of a document that has just come to be, all is left.
LEMMA NewIsWhole ==
  ASSUME NEW N, \A m \in Numbers' : docs'[m].of # N,
         docs'[N].lines \in Seq(BilledLine)
  PROVE  /\ Left(N)' = Gross(docs'[N].lines) /\ Left(N)' \in Nat
         /\ \A i \in DOMAIN docs'[N].lines :
              /\ QtyLeft(N, i)' = docs'[N].lines[i].qty /\ NetLeft(N, i)' = docs'[N].lines[i].net
              /\ VatLeft(N, i)' = docs'[N].lines[i].vat
         /\ ~Replaced(N)'
<1> DEFINE ls == docs'[N].lines
<1>1. CreditsOf(N)' = {} /\ ~Replaced(N)'
  BY DEF CreditsOf, Replaced, Corrections
<1>2. Left(N)' = Gross(ls) /\ Left(N)' \in Nat
  <2>1. Gross(ls) \in Nat
    BY GrossIsNat
  <2>2. Left(N)' = Gross(ls) + SumFunctionOnSet([m \in {} |-> Gross(docs'[m].lines)], {})
    BY <1>1 DEF Left, Gross
  <2> QED
    BY <2>1, <2>2, SumOfNone
<1>3. ASSUME NEW i \in DOMAIN ls, NEW f \in Amount PROVE LeftOf(N, i, f)' = ls[i][f]
  <2>1. Credited(N, i)' = {}
    BY <1>1 DEF Credited
  <2>2. ls[i] \in LineOnDoc
    BY BilledAreLines
  <2>3. ls[i][f] \in Int
    BY <2>2 DEF LineOnDoc, Amount
  <2>4. LeftOf(N, i, f)' = ls[i][f] + SumFunctionOnSet([c \in {} |-> docs'[c[1]].lines[c[2]][f]], {})
    BY <2>1 DEF LeftOf
  <2> QED
    BY <2>3, <2>4, SumOfNone
<1> QED
  BY <1>1, <1>2, <1>3 DEF QtyLeft, NetLeft, VatLeft, Amount

-----------------------------------------------------------------------------
(* What is true of the documents and of the transactions that add to them. *)

\* Of the documents that bill one job, all but one were replaced; and what was
\* replaced was taken back.
Chain ==
  /\ \A m, n \in Numbers :
       /\ docs[m].kind # "credit" /\ docs[n].kind # "credit" /\ docs[m].job = docs[n].job
       /\ ~Replaced(m) /\ ~Replaced(n)
       => m = n
  /\ \A n \in Numbers : docs[n].kind # "credit" /\ Replaced(n) => Left(n) = 0

Books ==
  /\ lines \in [Jobs -> Seq(LineOnJob)]
  /\ Bills /\ NeverOverCredited /\ CreditsAddUp /\ Chain

Ledger ==
  /\ reserved \in [Jobs \X Parts -> Int] /\ used \in [Jobs \X Parts -> Int]
  /\ shelf \in [Parts -> Int]

Under(t, what) == tx[t].at # "idle" /\ tx[t].req.does \in what

\* What a transaction is made of, and what was asked of it.
TxFits(t) ==
  /\ tx[t].at \in Stages /\ tx[t].number \in Nat
  /\ tx[t].bill \in Seq(LineOnDoc) /\ tx[t].want \subseteq Parts
  /\ tx[t].at = "idle" => tx[t] = Idle
  /\ Under(t, {"add line"}) => tx[t].req.line \in Offers
  /\ Under(t, {"take out", "put back", "count"}) => tx[t].req.part \in Parts /\ tx[t].req.qty \in Nat

\* Who corrects an invoice holds it, and what was decided of it is still so.
Corrects(t) ==
  /\ Under(t, {"credit", "rebill"}) =>
       /\ tx[t].req.of \in Numbers /\ tx[t].req.key \in Keys
       /\ <<InvoiceRow(tx[t].req.of), "update">> \in holds[t]
  /\ Under(t, {"credit"}) =>
       /\ tx[t].req.wish \in Wishes /\ MayCredit(tx[t].req.of, tx[t].req.wish)
       /\ tx[t].bill = CreditPlan(tx[t].req.of, tx[t].req.wish)
  /\ Under(t, {"rebill"}) =>
       MayRebill(tx[t].req.of) /\ tx[t].bill = docs[tx[t].req.of].lines

\* Who moves parts holds those it has come to, and what it moves is still what
\* the job needs, or what the count differs by.
Movers == {"issue", "take out", "put back", "count"}
Moves(t) ==
  tx[t].at = "moving" /\ tx[t].req.does \in Movers =>
    /\ DOMAIN tx[t].moves \subseteq Parts /\ \A p \in DOMAIN tx[t].moves : tx[t].moves[p] \in Int
    /\ \A p \in DOMAIN tx[t].moves \ tx[t].want : <<PartRow(p), "update">> \in holds[t]
    /\ tx[t].req.does = "issue" =>
         /\ DOMAIN tx[t].moves = Short(tx[t].req.job)
         /\ \A p \in DOMAIN tx[t].moves : tx[t].moves[p] = ToIssue(tx[t].req.job, p)
    /\ tx[t].req.does = "count" =>
         /\ DOMAIN tx[t].moves = {tx[t].req.part}
         /\ <<PartRow(tx[t].req.part), "update">> \in holds[t]
         /\ tx[t].moves[tx[t].req.part] = shelf[tx[t].req.part] - tx[t].req.qty

Sure(t) == TxFits(t) /\ Corrects(t) /\ Moves(t)
JInv == Books /\ Ledger /\ \A t \in Txs : Sure(t)

-----------------------------------------------------------------------------
(* What was decided stays so, whoever else commits.                        *)

LEMMA NumbersAreFinite == ASSUME IInv PROVE IsFiniteSet(Numbers) /\ 0 \notin Numbers /\ Numbers \subseteq Nat
<1>1. Numbers = 1..(next - 1) /\ next \in Nat
  BY DEF IInv, Papers, NoGaps
<1> QED
  BY <1>1, FS_Interval

LEMMA IdleIsSure ==
  ASSUME NEW t \in Txs, tx'[t] = Idle
  PROVE  Sure(t)'
<1>1. Idle.at = "idle" /\ Idle.number = 0 /\ Idle.bill = <<>> /\ Idle.want = {}
  BY DEF Idle
<1>2. TxFits(t)'
  BY <1>1 DEF TxFits, Under, Stages
<1>3. Corrects(t)' /\ Moves(t)'
  BY <1>1 DEF Corrects, Moves, Under
<1> QED
  BY <1>2, <1>3 DEF Sure

LEMMA InitIsSure == Init => JInv
<1> SUFFICES ASSUME Init PROVE JInv
  OBVIOUS
<1>1. Numbers = {}
  BY DEF Init, ShopInit, Numbers
<1>2. Books
  BY <1>1 DEF Init, ShopInit, Books, Bills, NeverOverCredited, CreditsAddUp, Chain
<1>3. Ledger
  BY DEF Init, ShopInit, Ledger
<1>4. \A t \in Txs : Sure(t)
  <2> SUFFICES ASSUME NEW t \in Txs PROVE Sure(t)
    OBVIOUS
  <2>1. tx[t] = Idle
    BY DEF Init
  <2>2. Idle.at = "idle" /\ Idle.number = 0 /\ Idle.bill = <<>> /\ Idle.want = {}
    BY DEF Idle
  <2>3. TxFits(t)
    BY <2>1, <2>2 DEF TxFits, Under, Stages
  <2>4. Corrects(t) /\ Moves(t)
    BY <2>1, <2>2 DEF Corrects, Moves, Under
  <2> QED
    BY <2>3, <2>4 DEF Sure
<1> QED
  BY <1>2, <1>3, <1>4 DEF JInv

\* What a job still needs is for whoever holds the job to change.
LEMMA NeedsStand ==
  ASSUME NEW j \in Jobs, lines'[j] = lines[j], \A p \in Parts : used'[<<j, p>>] = used[<<j, p>>]
  PROVE  Short(j)' = Short(j) /\ \A p \in Parts : ToIssue(j, p)' = ToIssue(j, p)
<1>1. \A p : Priced(j, p)' = Priced(j, p)
  BY DEF Priced, PricedOn
<1>2. \A p \in Parts : ToIssue(j, p)' = ToIssue(j, p)
  BY <1>1 DEF ToIssue
<1> QED
  BY <1>2 DEF Short

\* What the others are sure of they stay sure of, as long as what is written is
\* about rows the writer holds.
LEMMA OthersStaySure ==
  ASSUME IInv, NEW t \in Txs, NEW u \in Txs \ {t}, Sure(u),
         tx'[u] = tx[u], holds'[u] = holds[u],
         Numbers \subseteq Numbers', \A m \in Numbers : docs'[m] = docs[m],
         \A m \in Numbers' \ Numbers :
           docs'[m].of = 0 \/ <<InvoiceRow(docs'[m].of), "update">> \in holds[t],
         \A j \in Jobs : \/ lines'[j] = lines[j] /\ \A p \in Parts : used'[<<j, p>>] = used[<<j, p>>]
                         \/ <<JobRow(j), "update">> \in holds[t],
         \A p \in Parts : shelf'[p] = shelf[p] \/ <<PartRow(p), "update">> \in holds[t]
  PROVE  Sure(u)'
<1> DEFINE r == tx[u].req
<1>0. LocksHold /\ 0 \notin Numbers /\ Held(u)
  BY NumbersAreFinite DEF IInv
<1>1. TxFits(u)'
  BY DEF Sure, TxFits, Under
<1>2. Corrects(u)'
  <2>1. CASE Under(u, {"credit", "rebill"})
    <3>1. PICK n \in Numbers : n = r.of
      BY <2>1 DEF Sure, Corrects
    <3>2. r.key \in Keys /\ <<InvoiceRow(n), "update">> \in holds[u]
      BY <2>1, <3>1 DEF Sure, Corrects
    <3>3. ~(<<InvoiceRow(n), "update">> \in holds[t])
      BY <1>0, <3>2, OneHasTheRow
    <3>4. \A m \in Numbers' \ Numbers : docs'[m].of # n
      BY <1>0, <3>1, <3>3
    <3>5. /\ MayRebill(n)' = MayRebill(n)
          /\ \A w : CreditPlan(n, w)' = CreditPlan(n, w) /\ MayCredit(n, w)' = MayCredit(n, w)
      BY <3>4, Untouched
    <3>6. tx'[u].req = r /\ tx'[u].req.of = n /\ docs'[n] = docs[n]
      BY <3>1
    <3>7. ASSUME Under(u, {"credit"}), NEW w, w = r.wish
          PROVE  w \in Wishes /\ MayCredit(n, w)' /\ tx'[u].bill = CreditPlan(n, w)'
      BY <3>1, <3>5, <3>7 DEF Sure, Corrects
    <3>8. Under(u, {"rebill"}) => MayRebill(n)' /\ tx'[u].bill = docs'[n].lines
      BY <3>1, <3>5, <3>6 DEF Sure, Corrects
    <3>9. Under(u, {"credit"})' = Under(u, {"credit"}) /\ Under(u, {"rebill"})' = Under(u, {"rebill"})
      BY DEF Under
    <3>10. PICK w : w = r.wish
      OBVIOUS
    <3>11. Under(u, {"credit"})' =>
             /\ tx'[u].req.wish \in Wishes /\ MayCredit(tx[u].req.of, tx[u].req.wish)'
             /\ tx'[u].bill = CreditPlan(tx[u].req.of, tx[u].req.wish)'
      BY <3>6, <3>7, <3>9, <3>10
    <3>12. Under(u, {"rebill"})' => MayRebill(tx[u].req.of)' /\ tx'[u].bill = docs'[tx'[u].req.of].lines
      BY <3>6, <3>8, <3>9
    <3>13. /\ tx'[u].req.of \in Numbers' /\ tx'[u].req.key \in Keys
           /\ <<InvoiceRow(tx'[u].req.of), "update">> \in holds'[u]
      BY <3>1, <3>2, <3>6
    <3> QED
      BY <3>11, <3>12, <3>13 DEF Corrects
  <2>2. CASE ~Under(u, {"credit", "rebill"})
    BY <2>2 DEF Corrects, Under
  <2> QED
    BY <2>1, <2>2
<1>3. Moves(u)'
  <2>1. CASE tx[u].at = "moving" /\ r.does = "issue"
    <3>1. PICK j \in Jobs : j = r.job
      BY <1>0, <2>1 DEF Held, Orders
    <3>2. <<JobRow(j), "update">> \in holds[u]
      BY <1>0, <2>1, <3>1 DEF Held, Orders
    <3>3. ~(<<JobRow(j), "update">> \in holds[t])
      BY <1>0, <3>2, OneHasTheRow
    <3>4. Short(j)' = Short(j) /\ \A p \in Parts : ToIssue(j, p)' = ToIssue(j, p)
      BY <3>3, NeedsStand
    <3>5. Moves(u)
      BY DEF Sure
    <3>6. tx'[u].req.job = j
      BY <3>1
    <3> QED
      BY <2>1, <3>1, <3>4, <3>5, <3>6 DEF Moves, Movers
  <2>2. CASE tx[u].at = "moving" /\ r.does = "count"
    <3> DEFINE p == r.part
    <3>1. Moves(u) /\ p \in Parts
      BY <2>2 DEF Sure, TxFits, Under
    <3>2. <<PartRow(p), "update">> \in holds[u]
      BY <2>2, <3>1 DEF Moves, Movers
    <3>3. ~(<<PartRow(p), "update">> \in holds[t])
      BY <1>0, <3>2, OneHasTheRow
    <3>4. shelf'[p] = shelf[p]
      BY <3>1, <3>3
    <3> QED
      BY <2>2, <3>1, <3>4 DEF Moves, Movers
  <2>3. CASE ~(tx[u].at = "moving" /\ r.does \in {"issue", "count"})
    BY <2>3 DEF Sure, Moves
  <2> QED
    BY <2>1, <2>2, <2>3
<1> QED
  BY <1>1, <1>2, <1>3 DEF Sure

\* The books as they stand when no document is written.
LEMMA BooksStand ==
  ASSUME Books, UNCHANGED <<docs, state>>, lines' \in [Jobs -> Seq(LineOnJob)]
  PROVE  Books'
<1>1. Numbers' = Numbers
  BY DEF Numbers
<1>2. ASSUME NEW n \in Numbers
      PROVE  Left(n)' = Left(n) /\ Replaced(n)' = Replaced(n) /\ \A i, f : LeftOf(n, i, f)' = LeftOf(n, i, f)
  BY <1>1, Untouched
<1>3. Bills'
  BY <1>1 DEF Books, Bills
<1>4. NeverOverCredited'
  BY <1>1, <1>2 DEF Books, NeverOverCredited
<1>5. CreditsAddUp'
  BY <1>1, <1>2 DEF Books, CreditsAddUp, QtyLeft, NetLeft, VatLeft
<1>6. Chain'
  BY <1>1, <1>2 DEF Books, Chain
<1> QED
  BY <1>3, <1>4, <1>5, <1>6 DEF Books

\* A transaction went on without committing anything.
LEMMA QuietAndSure ==
  ASSUME IInv, JInv, NEW t \in Txs, UNCHANGED shop,
         \A u \in Txs \ {t} : tx'[u] = tx[u] /\ holds'[u] = holds[u], Sure(t)'
  PROVE  JInv'
<1>1. Numbers' = Numbers
  BY DEF Numbers, shop
<1>2. ASSUME NEW u \in Txs \ {t} PROVE Sure(u)'
  BY <1>1, OthersStaySure DEF JInv, shop
<1>3. Books'
  BY BooksStand DEF JInv, Books, shop
<1>4. Ledger'
  BY DEF JInv, Ledger, shop
<1> QED
  BY <1>2, <1>3, <1>4 DEF JInv

\* A transaction ended, and wrote only what it held the rows of.
LEMMA CommittedAndSure ==
  ASSUME IInv, JInv, NEW t \in Txs, Over(t), Books', Ledger',
         Numbers \subseteq Numbers', \A m \in Numbers : docs'[m] = docs[m],
         \A m \in Numbers' \ Numbers :
           docs'[m].of = 0 \/ <<InvoiceRow(docs'[m].of), "update">> \in holds[t],
         \A j \in Jobs : \/ lines'[j] = lines[j] /\ \A p \in Parts : used'[<<j, p>>] = used[<<j, p>>]
                         \/ <<JobRow(j), "update">> \in holds[t],
         \A p \in Parts : shelf'[p] = shelf[p] \/ <<PartRow(p), "update">> \in holds[t]
  PROVE  JInv'
<1>1. tx'[t] = Idle /\ \A u \in Txs \ {t} : tx'[u] = tx[u] /\ holds'[u] = holds[u]
  BY OverKeepsApart DEF IInv
<1>2. ASSUME NEW u \in Txs \ {t} PROVE Sure(u)'
  BY <1>1, OthersStaySure DEF JInv
<1>3. Sure(t)'
  BY <1>1, IdleIsSure
<1> QED
  BY <1>2, <1>3 DEF JInv

LEMMA TxsAre == ASSUME IInv, NEW t \in Txs PROVE DOMAIN tx = Txs /\ DOMAIN tx[t] = Fields
  BY DEF IInv, Shape

\* A transaction about a job knows what was asked of it.
LEMMA OpenIsSure == ASSUME IInv, JInv, NEW t \in Txs, OpenOrder(t) PROVE JInv'
<1>1. PICK r \in OrderRequests :
        /\ LockOrder(t, r.job)
        /\ tx' = [tx EXCEPT
             ![t].at = IF r.does \in {"issue", "add line"} THEN "referring" ELSE "moving",
             ![t].req = r,
             ![t].want = CASE r.does = "issue"    -> {p \in Parts : reserved[r.job, p] # 0}
                           [] r.does = "add line" -> {r.line.part} \ {NoPart}
                           [] OTHER               -> {r.part},
             ![t].moves = CASE r.does = "take out" -> [p \in {r.part} |-> r.qty]
                            [] r.does = "put back" -> [p \in {r.part} |-> -r.qty]
                            [] OTHER               -> <<>>]
  BY DEF OpenOrder
<1> DEFINE R == {p \in Parts : reserved[r.job, p] # 0}
           A == IF r.does \in {"issue", "add line"} THEN "referring" ELSE "moving"
           W == CASE r.does = "issue"    -> R
                  [] r.does = "add line" -> {r.line.part} \ {NoPart}
                  [] OTHER               -> {r.part}
           M == CASE r.does = "take out" -> [p \in {r.part} |-> r.qty]
                  [] r.does = "put back" -> [p \in {r.part} |-> -r.qty]
                  [] OTHER               -> <<>>
<1>2. tx' = [tx EXCEPT ![t].at = A, ![t].req = r, ![t].want = W, ![t].moves = M]
  BY <1>1
<1>3. /\ r.does \in Orders
      /\ r.does = "add line" => r.line \in Offers
      /\ r.does \in {"take out", "put back"} => r.part \in Parts /\ r.qty \in Amounts
  BY DEF OrderRequests, Orders
<1>0. R \subseteq Parts
  OBVIOUS
<1> HIDE DEF R
<1>4. W \subseteq Parts
  <2>1. CASE r.does = "issue"
    BY <1>0, <2>1
  <2>2. CASE r.does = "add line"
    <3>1. r.line \in LineOnJob
      BY <1>3, <2>2, OffersAreLines
    <3>2. r.line.part \in Parts \cup {NoPart}
      BY <3>1 DEF LineOnJob
    <3> QED
      BY <2>2, <3>2
  <2>3. CASE r.does \in {"take out", "put back"}
    BY <1>3, <2>3
  <2> QED
    BY <1>3, <2>1, <2>2, <2>3 DEF Orders
<1>5. r.does \in {"take out", "put back"} =>
        /\ W = {r.part} /\ DOMAIN M = {r.part} /\ M[r.part] \in Int /\ r.qty \in Nat
  <2>1. r.does \in {"take out", "put back"} => r.qty \in Nat
    BY <1>3, AmountsAreCounted
  <2>2. CASE r.does = "take out"
    <3>1. W = {r.part} /\ M = [p \in {r.part} |-> r.qty]
      BY <2>2
    <3> HIDE DEF W, M
    <3>2. PICK q \in Nat : q = r.qty
      BY <2>1, <2>2, Zenon
    <3>3. PICK x : x = r.part
      OBVIOUS
    <3>4. M = [p \in {x} |-> q] /\ W = {x}
      BY <3>1, <3>2, <3>3
    <3>5. DOMAIN M = {x} /\ M[x] \in Int
      BY <3>4
    <3> QED
      BY <3>2, <3>3, <3>4, <3>5
  <2>3. CASE r.does = "put back"
    <3>1. W = {r.part} /\ M = [p \in {r.part} |-> -r.qty]
      BY <2>3
    <3> HIDE DEF W, M
    <3>2. PICK q \in Nat : q = r.qty
      BY <2>1, <2>3, Zenon
    <3>3. PICK x : x = r.part
      OBVIOUS
    <3>4. M = [p \in {x} |-> -q] /\ W = {x}
      BY <3>1, <3>2, <3>3
    <3>5. DOMAIN M = {x} /\ M[x] \in Int
      BY <3>4
    <3> QED
      BY <3>2, <3>3, <3>4, <3>5
  <2> QED
    BY <2>2, <2>3
<1>6. A = IF r.does \in {"issue", "add line"} THEN "referring" ELSE "moving"
  OBVIOUS
<1> HIDE DEF A, W, M
<1>7. /\ tx'[t].at = A /\ tx'[t].req = r /\ tx'[t].want = W /\ tx'[t].moves = M
      /\ tx'[t].number = tx[t].number /\ tx'[t].bill = tx[t].bill
      /\ \A u \in Txs \ {t} : tx'[u] = tx[u]
  BY <1>2, TxsAre, Zenon DEF Fields
<1>8. \A u \in Txs \ {t} : holds'[u] = holds[u]
  BY <1>1, LockKeepsApart DEF IInv, LockOrder
<1>9. TxFits(t)
  BY DEF JInv, Sure
<1>10. TxFits(t)'
  BY <1>3, <1>4, <1>5, <1>6, <1>7, <1>9 DEF TxFits, Under, Orders, Stages
<1>11. Corrects(t)'
  BY <1>3, <1>7 DEF Corrects, Under, Orders
<1>12. Moves(t)'
  <2>1. CASE r.does \in {"issue", "add line"}
    BY <1>6, <1>7, <2>1 DEF Moves
  <2>2. CASE r.does \in {"take out", "put back"}
    BY <1>3, <1>5, <1>7, <2>2 DEF Moves
  <2> QED
    BY <1>3, <2>1, <2>2 DEF Orders
<1>13. UNCHANGED shop
  BY DEF OpenOrder
<1> QED
  BY <1>7, <1>8, <1>10, <1>11, <1>12, <1>13, QuietAndSure DEF Sure

\* A correction that got on without committing is as sure of its invoice as it was.
LEMMA StillCorrects ==
  ASSUME NEW t \in Txs, Corrects(t), UNCHANGED shop, holds[t] \subseteq holds'[t],
         tx'[t].req = tx[t].req, tx'[t].bill = tx[t].bill,
         (tx'[t].at = "idle") <=> (tx[t].at = "idle")
  PROVE  Corrects(t)'
<1>0. Numbers' = Numbers /\ docs' = docs
  BY DEF Numbers, shop
<1>1. CASE Under(t, {"credit", "rebill"})
  <2>1. PICK n \in Numbers : n = tx[t].req.of
    BY <1>1 DEF Corrects
  <2>2. /\ MayRebill(n)' = MayRebill(n)
        /\ \A w : CreditPlan(n, w)' = CreditPlan(n, w) /\ MayCredit(n, w)' = MayCredit(n, w)
    BY <1>0, Untouched
  <2>3. PICK w : w = tx[t].req.wish
    OBVIOUS
  <2>4. CreditPlan(n, w)' = CreditPlan(n, w) /\ MayCredit(n, w)' = MayCredit(n, w)
    BY <2>2
  <2>5. tx'[t].req.of = n /\ tx'[t].req.wish = w
    BY <2>1, <2>3
  <2>6. Under(t, {"credit"})' =>
          /\ tx'[t].req.wish \in Wishes /\ MayCredit(tx[t].req.of, tx[t].req.wish)'
          /\ tx'[t].bill = CreditPlan(tx[t].req.of, tx[t].req.wish)'
    <3> SUFFICES ASSUME Under(t, {"credit"})
                 PROVE  w \in Wishes /\ MayCredit(n, w) /\ tx[t].bill = CreditPlan(n, w)
      BY <2>4, <2>5 DEF Under
    <3> QED
      BY <2>1, <2>3 DEF Corrects
  <2>7. Under(t, {"rebill"})' => MayRebill(tx[t].req.of)' /\ tx'[t].bill = docs'[tx'[t].req.of].lines
    <3> SUFFICES ASSUME Under(t, {"rebill"})
                 PROVE  MayRebill(n) /\ tx[t].bill = docs[n].lines
      BY <1>0, <2>2, <2>5 DEF Under
    <3> QED
      BY <2>1 DEF Corrects
  <2>8. /\ tx'[t].req.of \in Numbers' /\ tx'[t].req.key \in Keys
        /\ <<InvoiceRow(tx'[t].req.of), "update">> \in holds'[t]
    BY <1>0, <1>1 DEF Corrects
  <2> QED
    BY <2>6, <2>7, <2>8 DEF Corrects
<1>2. CASE ~Under(t, {"credit", "rebill"})
  BY <1>2 DEF Corrects, Under
<1> QED
  BY <1>1, <1>2

\* One more of the rows it wants.
LEMMA WantIsSure ==
  ASSUME IInv, JInv, NEW t \in Txs, UNCHANGED shop, tx[t].at # "idle",
         NEW p, NEW mode \in {"share", "update"}, Lock(t, PartRow(p), mode),
         tx[t].at = "moving" => mode = "update",
         tx' = [tx EXCEPT ![t].want = tx[t].want \ {p}]
  PROVE  JInv'
<1>1. /\ tx'[t].want = tx[t].want \ {p} /\ tx'[t].at = tx[t].at /\ tx'[t].req = tx[t].req
      /\ tx'[t].moves = tx[t].moves /\ tx'[t].number = tx[t].number /\ tx'[t].bill = tx[t].bill
      /\ \A u \in Txs \ {t} : tx'[u] = tx[u]
  BY TxsAre, Zenon DEF Fields
<1>2. /\ holds[t] \subseteq holds'[t] /\ <<PartRow(p), mode>> \in holds'[t]
      /\ \A u \in Txs \ {t} : holds'[u] = holds[u]
  BY LockKeepsApart DEF IInv
<1>3. Sure(t)
  BY DEF JInv
<1>4. TxFits(t)'
  BY <1>1, <1>3 DEF Sure, TxFits, Under
<1>5. Numbers' = Numbers /\ docs' = docs /\ lines' = lines /\ used' = used /\ shelf' = shelf
  BY DEF Numbers, shop
<1>6. Corrects(t)'
  BY <1>1, <1>2, <1>3, StillCorrects DEF Sure, Under
<1>7. Moves(t)'
  <2>1. CASE tx[t].at = "moving" /\ tx[t].req.does \in Movers
    <3>1. Moves(t) /\ mode = "update"
      BY <1>3, <2>1 DEF Sure
    <3>2. /\ DOMAIN tx'[t].moves \subseteq Parts /\ \A q \in DOMAIN tx'[t].moves : tx'[t].moves[q] \in Int
          /\ \A q \in DOMAIN tx'[t].moves \ tx'[t].want : <<PartRow(q), "update">> \in holds'[t]
      BY <1>1, <1>2, <2>1, <3>1 DEF Moves
    <3>3. tx[t].req.does = "count" => /\ DOMAIN tx'[t].moves = {tx[t].req.part}
           /\ <<PartRow(tx[t].req.part), "update">> \in holds'[t]
           /\ tx'[t].moves[tx[t].req.part] = shelf'[tx[t].req.part] - tx[t].req.qty
      BY <1>1, <1>2, <1>5, <2>1, <3>1 DEF Moves
    <3>4. tx[t].req.does = "issue" =>
           /\ DOMAIN tx'[t].moves = Short(tx[t].req.job)'
           /\ \A q \in DOMAIN tx'[t].moves : tx'[t].moves[q] = ToIssue(tx[t].req.job, q)'
      <4> SUFFICES ASSUME tx[t].req.does = "issue"
                   PROVE  /\ DOMAIN tx'[t].moves = Short(tx[t].req.job)'
                          /\ \A q \in DOMAIN tx'[t].moves : tx'[t].moves[q] = ToIssue(tx[t].req.job, q)'
        OBVIOUS
      <4>1. PICK j \in Jobs : j = tx[t].req.job
        BY <2>1 DEF IInv, Held, Orders
      <4>2. Short(j)' = Short(j) /\ \A q \in Parts : ToIssue(j, q)' = ToIssue(j, q)
        BY <1>5, NeedsStand
      <4>3. DOMAIN tx[t].moves = Short(j) /\ \A q \in DOMAIN tx[t].moves : tx[t].moves[q] = ToIssue(j, q)
        BY <2>1, <3>1, <4>1 DEF Moves
      <4>4. tx'[t].req.job = j
        BY <1>1, <4>1
      <4> QED
        BY <1>1, <3>2, <4>2, <4>3, <4>4
    <3> QED
      BY <1>1, <3>2, <3>3, <3>4 DEF Moves
  <2>2. CASE ~(tx[t].at = "moving" /\ tx[t].req.does \in Movers)
    BY <1>1, <2>2 DEF Moves
  <2> QED
    BY <2>1, <2>2
<1> QED
  BY <1>1, <1>2, <1>4, <1>6, <1>7, QuietAndSure DEF Sure

LEMMA ReferIsSure == ASSUME IInv, JInv, NEW t \in Txs, Refer(t) PROVE JInv'
<1>1. PICK p : Lock(t, PartRow(p), "share") /\ tx' = [tx EXCEPT ![t].want = @ \ {p}]
  BY DEF Refer
<1>2. tx' = [tx EXCEPT ![t].want = tx[t].want \ {p}]
  BY <1>1, Zenon
<1> QED
  BY <1>1, <1>2, WantIsSure DEF Refer

LEMMA MoveIsSure == ASSUME IInv, JInv, NEW t \in Txs, Move(t) PROVE JInv'
<1>1. PICK p : Lock(t, PartRow(p), "update") /\ tx' = [tx EXCEPT ![t].want = @ \ {p}]
  BY DEF Move, LockPart
<1>2. tx' = [tx EXCEPT ![t].want = tx[t].want \ {p}]
  BY <1>1, Zenon
<1> QED
  BY <1>1, <1>2, WantIsSure DEF Move

\* Adding a line goes on to the part of the line.
LEMMA ReserveIsSure == ASSUME IInv, JInv, NEW t \in Txs, Reserve(t) PROVE JInv'
<1> DEFINE W == {tx[t].req.line.part} \ {NoPart}
<1>1. /\ tx[t].at = "referring" /\ tx[t].req.does = "add line" /\ UNCHANGED <<shop, holds>>
      /\ tx' = [tx EXCEPT ![t].at = "moving", ![t].want = W]
  BY DEF Reserve, Does
<1>2. TxFits(t)
  BY DEF JInv, Sure
<1>3. W \subseteq Parts
  <2>1. tx[t].req.line \in LineOnJob
    BY <1>1, <1>2, OffersAreLines DEF TxFits, Under
  <2> QED
    BY <2>1 DEF LineOnJob
<1> HIDE DEF W
<1>4. /\ tx'[t].at = "moving" /\ tx'[t].want = W /\ tx'[t].req = tx[t].req
      /\ tx'[t].number = tx[t].number /\ tx'[t].bill = tx[t].bill
      /\ \A u \in Txs \ {t} : tx'[u] = tx[u]
  BY <1>1, TxsAre, Zenon DEF Fields
<1>5. TxFits(t)'
  BY <1>1, <1>2, <1>3, <1>4 DEF TxFits, Under, Stages
<1>6. Corrects(t)' /\ Moves(t)'
  BY <1>1, <1>4 DEF Corrects, Moves, Movers, Under
<1> QED
  BY <1>1, <1>4, <1>5, <1>6, QuietAndSure DEF Sure

\* The row it asks about is held, and what it may do of it decided.
LEMMA CreditIsSure == ASSUME IInv, JInv, NEW t \in Txs, HoldCredited(t) PROVE JInv'
<1>1. PICK r \in [does : {"credit"}, of : Numbers, key : Keys, wish : Wishes] :
        /\ LockInvoice(t, r.of) /\ MayCredit(r.of, r.wish)
        /\ tx' = [tx EXCEPT ![t].at = "numbering", ![t].req = r, ![t].bill = CreditPlan(r.of, r.wish)]
  BY CreditAsked
<1>2. r.does = "credit" /\ r.of \in Numbers /\ r.key \in Keys /\ r.wish \in Wishes
  OBVIOUS
<1> DEFINE B == CreditPlan(r.of, r.wish)
<1>3. B \in Seq(LineOnDoc)
  <2>1. IsFiniteSet(Numbers) /\ Bills
    BY NumbersAreFinite DEF JInv, Books
  <2> QED
    BY <1>1, <1>2, <2>1, PlanFits
<1>4. UNCHANGED shop /\ Numbers' = Numbers /\ docs' = docs
  BY DEF HoldCredited, shop, Numbers
<1>5. PICK n \in Numbers, w \in Wishes : n = r.of /\ w = r.wish
  BY <1>2
<1>6. CreditPlan(n, w)' = CreditPlan(n, w) /\ MayCredit(n, w)' = MayCredit(n, w)
  BY <1>4, Untouched
<1> HIDE DEF B
<1>7. /\ tx'[t].at = "numbering" /\ tx'[t].req = r /\ tx'[t].bill = B
      /\ tx'[t].number = tx[t].number /\ tx'[t].want = tx[t].want
      /\ \A u \in Txs \ {t} : tx'[u] = tx[u]
  <2>1. tx' = [tx EXCEPT ![t].at = "numbering", ![t].req = r, ![t].bill = B]
    BY <1>1 DEF B
  <2> QED
    BY <2>1, TxsAre, Zenon DEF Fields
<1>8. /\ <<InvoiceRow(r.of), "update">> \in holds'[t]
      /\ \A u \in Txs \ {t} : holds'[u] = holds[u]
  BY <1>1, LockKeepsApart DEF IInv, LockInvoice
<1>9. TxFits(t)'
  <2>1. TxFits(t)
    BY DEF JInv, Sure
  <2> QED
    BY <1>2, <1>3, <1>7, <2>1 DEF TxFits, Under, Stages
<1>10. Corrects(t)'
  <2>1. Under(t, {"credit"})' /\ ~Under(t, {"rebill"})'
    BY <1>2, <1>7 DEF Under
  <2>2. /\ tx'[t].req.wish \in Wishes /\ MayCredit(tx[t].req.of, tx[t].req.wish)'
        /\ tx'[t].bill = CreditPlan(tx[t].req.of, tx[t].req.wish)'
    BY <1>1, <1>5, <1>6, <1>7 DEF B
  <2>3. tx'[t].req.of \in Numbers' /\ tx'[t].req.key \in Keys /\ <<InvoiceRow(tx'[t].req.of), "update">> \in holds'[t]
    BY <1>2, <1>4, <1>7, <1>8
  <2> QED
    BY <2>1, <2>2, <2>3 DEF Corrects
<1>11. Moves(t)'
  BY <1>7 DEF Moves
<1> QED
  BY <1>4, <1>7, <1>8, <1>9, <1>10, <1>11, QuietAndSure DEF Sure

LEMMA RebillIsSure == ASSUME IInv, JInv, NEW t \in Txs, HoldRebilled(t) PROVE JInv'
<1>1. PICK r \in Rebills :
        /\ LockInvoice(t, r.of) /\ MayRebill(r.of)
        /\ tx' = [tx EXCEPT ![t].at = "numbering", ![t].req = r, ![t].bill = docs[r.of].lines]
  BY DEF HoldRebilled
<1>2. r.does = "rebill" /\ r.of \in Numbers /\ r.key \in Keys
  BY DEF Rebills
<1> DEFINE B == docs[r.of].lines
<1>3. B \in Seq(LineOnDoc)
  BY <1>2 DEF JInv, Books, Bills, Document
<1>4. UNCHANGED shop /\ Numbers' = Numbers /\ docs' = docs
  BY DEF HoldRebilled, shop, Numbers
<1>5. PICK n \in Numbers : n = r.of
  BY <1>2
<1>6. MayRebill(n)' = MayRebill(n)
  BY <1>4, Untouched
<1> HIDE DEF B
<1>7. /\ tx'[t].at = "numbering" /\ tx'[t].req = r /\ tx'[t].bill = B
      /\ tx'[t].number = tx[t].number /\ tx'[t].want = tx[t].want
      /\ \A u \in Txs \ {t} : tx'[u] = tx[u]
  <2>1. tx' = [tx EXCEPT ![t].at = "numbering", ![t].req = r, ![t].bill = B]
    BY <1>1 DEF B
  <2> QED
    BY <2>1, TxsAre, Zenon DEF Fields
<1>8. /\ <<InvoiceRow(r.of), "update">> \in holds'[t]
      /\ \A u \in Txs \ {t} : holds'[u] = holds[u]
  BY <1>1, LockKeepsApart DEF IInv, LockInvoice
<1>9. TxFits(t)'
  <2>1. TxFits(t)
    BY DEF JInv, Sure
  <2> QED
    BY <1>2, <1>3, <1>7, <2>1 DEF TxFits, Under, Stages
<1>10. Corrects(t)'
  <2>1. Under(t, {"rebill"})' /\ ~Under(t, {"credit"})'
    BY <1>2, <1>7 DEF Under
  <2>2. MayRebill(tx[t].req.of)' /\ tx'[t].bill = docs'[tx'[t].req.of].lines
    BY <1>1, <1>4, <1>5, <1>6, <1>7 DEF B
  <2>3. tx'[t].req.of \in Numbers' /\ tx'[t].req.key \in Keys /\ <<InvoiceRow(tx'[t].req.of), "update">> \in holds'[t]
    BY <1>2, <1>4, <1>7, <1>8
  <2> QED
    BY <2>1, <2>2, <2>3 DEF Corrects
<1>11. Moves(t)'
  BY <1>7 DEF Moves
<1> QED
  BY <1>4, <1>7, <1>8, <1>9, <1>10, <1>11, QuietAndSure DEF Sure

\* A count is taken from what the shelf holds, of a part that is held.
LEMMA CountIsSure == ASSUME IInv, JInv, NEW t \in Txs, HoldCounted(t) PROVE JInv'
<1>1. PICK r \in Counts :
        /\ LockPart(t, r.part)
        /\ tx' = [tx EXCEPT ![t].at = "moving", ![t].req = r, ![t].moves = [p \in {r.part} |-> shelf[p] - r.qty]]
  BY DEF HoldCounted
<1>2. r.does = "count" /\ r.part \in Parts /\ r.qty \in Nat
  BY AmountsAreCounted DEF Counts
<1> DEFINE M == [p \in {r.part} |-> shelf[p] - r.qty]
<1>3. DOMAIN M = {r.part} /\ M[r.part] = shelf[r.part] - r.qty /\ M[r.part] \in Int
  <2>1. shelf[r.part] \in Int
    BY <1>2 DEF JInv, Ledger
  <2>2. PICK x \in Parts, q \in Nat : x = r.part /\ q = r.qty
    BY <1>2
  <2>3. M = [p \in {x} |-> shelf[p] - q]
    BY <2>2
  <2> QED
    BY <2>1, <2>2, <2>3
<1> HIDE DEF M
<1>4. UNCHANGED shop /\ shelf' = shelf
  BY DEF HoldCounted, shop
<1>5. /\ tx'[t].at = "moving" /\ tx'[t].req = r /\ tx'[t].moves = M
      /\ tx'[t].number = tx[t].number /\ tx'[t].want = tx[t].want /\ tx'[t].bill = tx[t].bill
      /\ \A u \in Txs \ {t} : tx'[u] = tx[u]
  <2>1. tx' = [tx EXCEPT ![t].at = "moving", ![t].req = r, ![t].moves = M]
    BY <1>1 DEF M
  <2> QED
    BY <2>1, TxsAre, Zenon DEF Fields
<1>6. /\ <<PartRow(r.part), "update">> \in holds'[t]
      /\ \A u \in Txs \ {t} : holds'[u] = holds[u]
  BY <1>1, LockKeepsApart DEF IInv, LockPart
<1>7. TxFits(t)'
  <2>1. TxFits(t)
    BY DEF JInv, Sure
  <2> QED
    BY <1>2, <1>5, <2>1 DEF TxFits, Under, Stages
<1>8. Corrects(t)'
  BY <1>2, <1>5 DEF Corrects, Under
<1>9. Moves(t)'
  BY <1>2, <1>3, <1>4, <1>5, <1>6 DEF Moves
<1> QED
  BY <1>4, <1>5, <1>6, <1>7, <1>8, <1>9, QuietAndSure DEF Sure

\* With its number an issue has its lines, and what they take off the shelf.
LEMMA NumberIsSure == ASSUME IInv, JInv, NEW t \in Txs, TakeNumber(t) PROVE JInv'
<1>1. /\ holds[t] \subseteq holds'[t]
      /\ \A u \in Txs \ {t} : holds'[u] = holds[u]
  BY LockKeepsApart DEF IInv, TakeNumber
<1>2. UNCHANGED shop /\ next \in Nat
  BY DEF TakeNumber, IInv, Papers
<1>3. Numbers' = Numbers /\ docs' = docs /\ lines' = lines /\ used' = used
  BY <1>2 DEF Numbers, shop
<1>4. Sure(t) /\ Held(t)
  BY DEF JInv, IInv
<1>5. /\ tx[t].at \in {"numbering", "referring"} /\ (tx[t].at = "referring" => tx[t].req.does = "issue")
      /\ tx[t].at = "numbering" => tx[t].req.does \in {"credit", "rebill"}
  BY DEF TakeNumber, MayNumber, Does, IInv, Shape
<1>6. CASE tx[t].req.does = "issue"
  <2>1. PICK j \in Jobs : j = tx[t].req.job
    BY <1>4, <1>5, <1>6 DEF Held, Orders
  <2> DEFINE B == AsBilled(j)
             W == Short(j)
             M == [p \in Short(j) |-> ToIssue(j, p)]
  <2>2. tx' = [tx EXCEPT ![t].at = "moving", ![t].number = next, ![t].bill = B, ![t].want = W, ![t].moves = M]
    BY <1>6, <2>1 DEF TakeNumber, Numbered, Does, On
  <2>3. B \in Seq(LineOnDoc)
    BY BillFits, BilledAreLines DEF JInv, Books
  <2>4. W \subseteq Parts /\ DOMAIN M = W /\ \A p \in W : M[p] = ToIssue(j, p) /\ M[p] \in Int
    <3>1. \A p \in Parts : ToIssue(j, p) \in Int
      <4> SUFFICES ASSUME NEW p \in Parts PROVE ToIssue(j, p) \in Int
        OBVIOUS
      <4>1. Priced(j, p) \in Int
        BY PricedIsInt DEF JInv, Books
      <4>2. used[<<j, p>>] \in Int
        BY DEF JInv, Ledger
      <4>3. ToIssue(j, p) = Priced(j, p) - used[<<j, p>>]
        BY Zenon DEF ToIssue
      <4> QED
        BY <4>1, <4>2, <4>3
    <3>2. Short(j) \subseteq Parts
      BY DEF Short
    <3> QED
      BY <3>1, <3>2
  <2>5. Short(j)' = Short(j) /\ \A p \in Parts : ToIssue(j, p)' = ToIssue(j, p)
    BY <1>3, NeedsStand
  <2>6. W = Short(j)
    OBVIOUS
  <2> HIDE DEF B, W, M
  <2>7. /\ tx'[t].at = "moving" /\ tx'[t].number = next /\ tx'[t].bill = B /\ tx'[t].want = W
        /\ tx'[t].moves = M /\ tx'[t].req = tx[t].req
        /\ \A u \in Txs \ {t} : tx'[u] = tx[u]
    BY <2>2, TxsAre, Zenon DEF Fields
  <2>8. TxFits(t)'
    BY <1>2, <1>4, <1>6, <2>3, <2>4, <2>7 DEF Sure, TxFits, Under, Stages
  <2>9. Corrects(t)'
    BY <1>6, <2>7 DEF Corrects, Under
  <2>10. /\ DOMAIN tx'[t].moves = Short(tx[t].req.job)'
         /\ \A p \in DOMAIN tx'[t].moves : tx'[t].moves[p] = ToIssue(tx[t].req.job, p)'
    <3>1. tx'[t].req.job = j
      BY <2>1, <2>7
    <3> QED
      BY <2>4, <2>5, <2>6, <2>7, <3>1
  <2>11. Moves(t)'
    <3>1. tx'[t].req.does = "issue"
      BY <1>6, <2>7
    <3> QED
      BY <2>4, <2>7, <2>10, <3>1 DEF Moves
  <2> QED
    BY <1>1, <1>2, <2>7, <2>8, <2>9, <2>11, QuietAndSure DEF Sure
<1>7. CASE tx[t].req.does # "issue"
  <2>1. tx' = [tx EXCEPT ![t].at = "moving", ![t].number = next]
    BY <1>7 DEF TakeNumber, Numbered, Does
  <2>2. /\ tx'[t].at = "moving" /\ tx'[t].number = next /\ tx'[t].req = tx[t].req
        /\ tx'[t].bill = tx[t].bill /\ tx'[t].want = tx[t].want
        /\ \A u \in Txs \ {t} : tx'[u] = tx[u]
    BY <2>1, TxsAre, Zenon DEF Fields
  <2>3. tx[t].req.does \in {"credit", "rebill"} /\ tx[t].at = "numbering"
    BY <1>5, <1>7
  <2>4. TxFits(t)'
    BY <1>2, <1>4, <2>2, <2>3 DEF Sure, TxFits, Under, Stages
  <2>5. Corrects(t)'
    BY <1>1, <1>2, <1>4, <2>2, <2>3, StillCorrects DEF Sure, Under
  <2>6. Moves(t)'
    BY <2>2, <2>3 DEF Moves, Movers
  <2> QED
    BY <1>1, <1>2, <2>2, <2>4, <2>5, <2>6, QuietAndSure DEF Sure
<1> QED
  BY <1>6, <1>7

-----------------------------------------------------------------------------
(* Documents that are written.                                             *)

\* A document was written under the next number.
LEMMA DocWritten ==
  ASSUME IInv, Bills, NEW doc, doc.of \in Numbers \cup {0},
         docs' = [n \in Numbers \cup {next} |-> IF n = next THEN doc ELSE docs[n]]
  PROVE  /\ next \in Nat \ {0} /\ next \notin Numbers /\ Numbers' = Numbers \cup {next}
         /\ docs'[next] = doc /\ \A m \in Numbers : docs'[m] = docs[m]
         /\ \A m \in Numbers' : docs'[m].of # next
<1>1. Numbers = 1..(next - 1) /\ next \in Nat \ {0}
  BY DEF IInv, Papers, NoGaps
<1>2. next \notin Numbers /\ next # 0
  BY <1>1
<1>3. Numbers' = Numbers \cup {next}
  BY DEF Numbers
<1>4. docs'[next] = doc /\ \A m \in Numbers : docs'[m] = docs[m]
  BY <1>2
<1>5. \A m \in Numbers' : docs'[m].of \in Numbers \cup {0}
  BY <1>3, <1>4 DEF Bills
<1> QED
  BY <1>1, <1>2, <1>3, <1>4, <1>5

LEMMA BillsWithOne ==
  ASSUME IInv, Bills, NEW doc \in Document, doc.of \in Numbers \cup {0},
         docs' = [n \in Numbers \cup {next} |-> IF n = next THEN doc ELSE docs[n]],
         doc.kind # "credit" => doc.lines \in Seq(BilledLine) /\ state'[doc.job] = "invoiced",
         \A k \in Jobs : state[k] = "invoiced" => state'[k] = "invoiced"
  PROVE  Bills'
<1>1. /\ next \in Nat \ {0} /\ next \notin Numbers /\ Numbers' = Numbers \cup {next}
      /\ docs'[next] = doc /\ \A m \in Numbers : docs'[m] = docs[m]
  BY DocWritten
<1>2. \A n \in Numbers : docs[n].job \in Jobs
  BY DEF Bills, Document
<1> QED
  BY <1>1, <1>2 DEF Bills

\* A bill was written: the first of its job, or one that replaces the last.
LEMMA BillAdded ==
  ASSUME IInv, Books, NEW doc \in Document, doc.of \in Numbers \cup {0}, lines' = lines,
         docs' = [n \in Numbers \cup {next} |-> IF n = next THEN doc ELSE docs[n]],
         doc.kind # "credit", doc.lines \in Seq(BilledLine), state'[doc.job] = "invoiced",
         \A k \in Jobs : state[k] = "invoiced" => state'[k] = "invoiced",
         \A n \in Numbers : docs[n].kind # "credit" /\ docs[n].job = doc.job /\ ~Replaced(n)
                            => doc.kind = "replacement" /\ doc.of = n,
         doc.kind = "replacement" => Left(doc.of) = 0
  PROVE  Books'
<1> DEFINE N == next
<1>1. /\ N \notin Numbers /\ Numbers' = Numbers \cup {N}
      /\ docs'[N] = doc /\ \A m \in Numbers : docs'[m] = docs[m]
      /\ \A m \in Numbers' : docs'[m].of # N
  BY DocWritten DEF Books
<1>2. ASSUME NEW n \in Numbers
      PROVE  /\ Left(n)' = Left(n) /\ \A i, f : LeftOf(n, i, f)' = LeftOf(n, i, f)
             /\ Replaced(n)' <=> Replaced(n) \/ (doc.kind = "replacement" /\ doc.of = n)
  <2>1. Left(n)' = Left(n) /\ \A i, f : LeftOf(n, i, f)' = LeftOf(n, i, f)
    BY <1>1, LeftStands
  <2>2. Replaced(n)' <=> Replaced(n) \/ (doc.kind = "replacement" /\ doc.of = n)
    BY <1>1 DEF Replaced, Corrections
  <2> QED
    BY <2>1, <2>2
<1>3. PICK M : M = N
  OBVIOUS
<1>4. /\ Left(M)' \in Nat
      /\ \A i \in DOMAIN doc.lines :
           /\ QtyLeft(M, i)' = doc.lines[i].qty /\ NetLeft(M, i)' = doc.lines[i].net
           /\ VatLeft(M, i)' = doc.lines[i].vat
      /\ ~Replaced(M)'
  BY <1>1, <1>3, NewIsWhole
<1>5. /\ M \notin Numbers /\ Numbers' = Numbers \cup {M}
      /\ docs'[M] = doc /\ \A m \in Numbers : docs'[m] = docs[m]
  BY <1>1, <1>3
<1> HIDE DEF N
<1>6. Bills'
  BY BillsWithOne DEF Books
<1>7. NeverOverCredited'
  BY <1>2, <1>4, <1>5 DEF Books, NeverOverCredited
<1>8. CreditsAddUp'
  <2>1. ASSUME NEW n \in Numbers, docs[n].kind # "credit", NEW i \in DOMAIN docs[n].lines
        PROVE  QtyLeft(n, i)' >= 0 /\ (QtyLeft(n, i)' = 0 => NetLeft(n, i)' = 0 /\ VatLeft(n, i)' = 0)
    BY <1>2, <2>1 DEF Books, CreditsAddUp, QtyLeft, NetLeft, VatLeft
  <2>2. ASSUME NEW i \in DOMAIN doc.lines
        PROVE  QtyLeft(M, i)' >= 0 /\ (QtyLeft(M, i)' = 0 => NetLeft(M, i)' = 0 /\ VatLeft(M, i)' = 0)
    <3>1. doc.lines[i] \in BilledLine
      OBVIOUS
    <3>2. doc.lines[i].qty \in Nat /\ (doc.lines[i].qty = 0 => doc.lines[i].net = 0 /\ doc.lines[i].vat = 0)
      BY <3>1 DEF BilledLine
    <3> QED
      BY <1>4, <3>2
  <2> QED
    BY <1>5, <2>1, <2>2 DEF CreditsAddUp
<1>9. Chain'
  <2>1. ASSUME NEW m \in Numbers', NEW n \in Numbers', docs'[m].kind # "credit", docs'[n].kind # "credit",
               docs'[m].job = docs'[n].job, ~Replaced(m)', ~Replaced(n)'
        PROVE  m = n
    <3>1. CASE m \in Numbers /\ n \in Numbers
      <4>1. ~Replaced(m) /\ ~Replaced(n)
        BY <1>2, <2>1, <3>1
      <4>2. docs'[m] = docs[m] /\ docs'[n] = docs[n]
        BY <1>5, <3>1
      <4> QED
        BY <2>1, <3>1, <4>1, <4>2 DEF Books, Chain
    <3>2. CASE m \in Numbers /\ n = M
      BY <1>2, <1>5, <2>1, <3>2
    <3>3. CASE n \in Numbers /\ m = M
      BY <1>2, <1>5, <2>1, <3>3
    <3> QED
      BY <1>5, <3>1, <3>2, <3>3
  <2>2. ASSUME NEW n \in Numbers', docs'[n].kind # "credit", Replaced(n)'
        PROVE  Left(n)' = 0
    <3>1. n \in Numbers
      BY <1>4, <1>5, <2>2
    <3>2. CASE Replaced(n)
      BY <1>2, <1>5, <2>2, <3>1, <3>2 DEF Books, Chain
    <3>3. CASE ~Replaced(n)
      BY <1>2, <2>2, <3>1, <3>3
    <3> QED
      BY <3>2, <3>3
  <2> QED
    BY <2>1, <2>2 DEF Chain
<1> QED
  BY <1>6, <1>7, <1>8, <1>9 DEF Books

\* A credit was written of a document, of as much as was left of it or less.
LEMMA CreditPut ==
  ASSUME IInv, Books, NEW doc \in Document, NEW n \in Numbers, docs[n].kind # "credit",
         doc.kind = "credit", doc.of = n, lines' = lines, state' = state,
         docs' = [m \in Numbers \cup {next} |-> IF m = next THEN doc ELSE docs[m]],
         -Gross(doc.lines) \in 1..Left(n), \A i \in DOMAIN docs[n].lines : Shares(n, i, doc.lines)
  PROVE  Books'
<1>1. PICK M : M = next
  OBVIOUS
<1>2. /\ M \notin Numbers /\ Numbers' = Numbers \cup {M}
      /\ docs'[M] = doc /\ \A m \in Numbers : docs'[m] = docs[m]
  BY <1>1, DocWritten DEF Books
<1>3. IsFiniteSet(Numbers) /\ Bills /\ doc.lines \in Seq(LineOnDoc)
  BY NumbersAreFinite DEF Books, Document
<1>4. Takes(n, doc.lines)
  BY <1>2, <1>3, CreditAdded
<1>5. Left(n) \in Int /\ Gross(doc.lines) \in Int
  BY <1>3, LeftIsInt, GrossIsInt
<1>6. Left(n) > 0 /\ Left(n)' >= 0
  BY <1>4, <1>5 DEF Takes
<1>7. ASSUME NEW m \in Numbers, m # n
      PROVE  Left(m)' = Left(m) /\ \A i, f : LeftOf(m, i, f)' = LeftOf(m, i, f)
  BY <1>2, <1>7, LeftStands
<1>8. \A m \in Numbers : Replaced(m)' <=> Replaced(m)
  BY <1>2 DEF Replaced, Corrections
<1>9. Bills'
  BY BillsWithOne DEF Books
<1>10. NeverOverCredited'
  BY <1>2, <1>6, <1>7 DEF Books, NeverOverCredited
<1>11. ASSUME NEW i \in DOMAIN docs[n].lines
       PROVE  QtyLeft(n, i)' >= 0 /\ (QtyLeft(n, i)' = 0 => NetLeft(n, i)' = 0 /\ VatLeft(n, i)' = 0)
  <2>1. QtyLeft(n, i) \in Int /\ NetLeft(n, i) \in Int /\ VatLeft(n, i) \in Int
    BY <1>3, LeftOfIsInt DEF QtyLeft, NetLeft, VatLeft, Amount
  <2>2. CASE \A k \in DOMAIN doc.lines : doc.lines[k].of # i
    <3>1. QtyLeft(n, i)' = QtyLeft(n, i) /\ NetLeft(n, i)' = NetLeft(n, i) /\ VatLeft(n, i)' = VatLeft(n, i)
      BY <1>4, <2>2 DEF Takes, QtyLeft, NetLeft, VatLeft, Amount
    <3> QED
      BY <3>1 DEF Books, CreditsAddUp
  <2>3. ASSUME NEW k \in DOMAIN doc.lines, doc.lines[k].of = i
        PROVE  QtyLeft(n, i)' >= 0 /\ (QtyLeft(n, i)' = 0 => NetLeft(n, i)' = 0 /\ VatLeft(n, i)' = 0)
    <3> DEFINE l == doc.lines[k]
    <3>1. /\ \A h \in DOMAIN doc.lines : doc.lines[h].of = i => h = k
          /\ -l.qty \in 1..QtyLeft(n, i)
          /\ -l.qty = QtyLeft(n, i) => l.net = -NetLeft(n, i) /\ l.vat = -VatLeft(n, i)
      BY <2>3 DEF Shares
    <3>2. /\ LeftOf(n, i, "qty")' = LeftOf(n, i, "qty") + l["qty"]
          /\ LeftOf(n, i, "net")' = LeftOf(n, i, "net") + l["net"]
          /\ LeftOf(n, i, "vat")' = LeftOf(n, i, "vat") + l["vat"]
      BY <1>4, <2>3, <3>1 DEF Takes, Amount
    <3>3. /\ QtyLeft(n, i)' = QtyLeft(n, i) + l.qty /\ NetLeft(n, i)' = NetLeft(n, i) + l.net
          /\ VatLeft(n, i)' = VatLeft(n, i) + l.vat
      BY <3>2 DEF QtyLeft, NetLeft, VatLeft
    <3>4. l.qty \in Int /\ l.net \in Int /\ l.vat \in Int
      <4>1. l \in LineOnDoc
        BY <1>3
      <4> QED
        BY <4>1 DEF LineOnDoc
    <3> HIDE DEF l
    <3> QED
      BY <2>1, <3>1, <3>3, <3>4
  <2> QED
    BY <2>2, <2>3
<1>12. CreditsAddUp'
  <2>1. ASSUME NEW m \in Numbers, m # n, docs[m].kind # "credit", NEW i \in DOMAIN docs[m].lines
        PROVE  QtyLeft(m, i)' >= 0 /\ (QtyLeft(m, i)' = 0 => NetLeft(m, i)' = 0 /\ VatLeft(m, i)' = 0)
    BY <1>7, <2>1 DEF Books, CreditsAddUp, QtyLeft, NetLeft, VatLeft
  <2> QED
    BY <1>2, <1>11, <2>1 DEF CreditsAddUp
<1>13. Chain'
  <2>1. ASSUME NEW m \in Numbers', docs'[m].kind # "credit"
        PROVE  m \in Numbers /\ docs'[m] = docs[m] /\ (Replaced(m)' <=> Replaced(m))
               /\ (Replaced(m) => m # n /\ Left(m)' = Left(m))
    <3>1. m \in Numbers /\ docs'[m] = docs[m]
      BY <1>2, <2>1
    <3>2. Replaced(m) => Left(m) = 0
      BY <2>1, <3>1 DEF Books, Chain
    <3> QED
      BY <1>6, <1>7, <1>8, <3>1, <3>2
  <2> QED
    BY <2>1 DEF Books, Chain
<1> QED
  BY <1>9, <1>10, <1>12, <1>13 DEF Books

LEMMA MaxOfTwo ==
  ASSUME NEW a \in Int, NEW b \in Int
  PROVE  /\ Max({a, b}) = (IF a >= b THEN a ELSE b) /\ Max({a, b}) \in Int
         /\ Min({a, b}) \in Int
<1>1. \E x \in {a, b} : \A y \in {a, b} : x >= y
  OBVIOUS
<1>2. Max({a, b}) \in {a, b} /\ \A y \in {a, b} : Max({a, b}) >= y
  BY <1>1 DEF Max
<1>3. \E x \in {a, b} : \A y \in {a, b} : x =< y
  OBVIOUS
<1>4. Min({a, b}) \in {a, b}
  BY <1>3 DEF Min
<1> QED
  BY <1>2, <1>4

LEMMA NothingMore == \A s \in Int : s + 0 = s
OBVIOUS

\* What is moved is moved by who holds the part, and for the job it holds.
LEMMA MovesAreHeld ==
  ASSUME IInv, JInv, NEW t \in Txs, tx[t].at = "moving", tx[t].want = {}, tx[t].req.does \in Movers
  PROVE  /\ \A p \in Parts : Moved(t, p) \in Int /\ (Moved(t, p) = 0 \/ <<PartRow(p), "update">> \in holds[t])
         /\ ShelfMoved(t) => /\ shelf' \in [Parts -> Int]
                             /\ \A p \in Parts : shelf'[p] = shelf[p] \/ <<PartRow(p), "update">> \in holds[t]
         /\ UsedMoved(t) => /\ used' \in [Jobs \X Parts -> Int]
                            /\ \A j \in Jobs : \A p \in Parts :
                                 used'[<<j, p>>] = used[<<j, p>>] + IF j = tx[t].req.job THEN Moved(t, p) ELSE 0
<1>1. /\ DOMAIN tx[t].moves \subseteq Parts /\ \A p \in DOMAIN tx[t].moves : tx[t].moves[p] \in Int
      /\ \A p \in DOMAIN tx[t].moves : <<PartRow(p), "update">> \in holds[t]
  BY DEF JInv, Sure, Moves
<1>2. \A p \in Parts : Moved(t, p) \in Int /\ (Moved(t, p) = 0 \/ <<PartRow(p), "update">> \in holds[t])
  BY <1>1 DEF Moved
<1>3. shelf \in [Parts -> Int] /\ used \in [Jobs \X Parts -> Int]
  BY DEF JInv, Ledger
<1>4. ASSUME ShelfMoved(t)
      PROVE  /\ shelf' \in [Parts -> Int]
             /\ \A p \in Parts : shelf'[p] = shelf[p] \/ <<PartRow(p), "update">> \in holds[t]
  <2>1. shelf' = [p \in Parts |-> shelf[p] - Moved(t, p)]
    BY <1>4 DEF ShelfMoved
  <2>2. ASSUME NEW p \in Parts
        PROVE  shelf[p] - Moved(t, p) \in Int /\ (shelf'[p] = shelf[p] \/ <<PartRow(p), "update">> \in holds[t])
    <3>1. PICK m \in Int, s \in Int : m = Moved(t, p) /\ s = shelf[p]
      BY <1>2, <1>3
    <3>2. shelf'[p] = s - m /\ (m = 0 => s - m = s)
      BY <2>1, <3>1
    <3> QED
      BY <1>2, <3>1, <3>2
  <2>3. shelf' \in [Parts -> Int]
    BY <2>1, <2>2
  <2> QED
    BY <2>2, <2>3
<1>5. ASSUME UsedMoved(t)
      PROVE  /\ used' \in [Jobs \X Parts -> Int]
             /\ \A j \in Jobs : \A p \in Parts :
                  used'[<<j, p>>] = used[<<j, p>>] + IF j = tx[t].req.job THEN Moved(t, p) ELSE 0
  <2>1. used' = [x \in Jobs \X Parts |-> used[x] + IF x[1] = tx[t].req.job THEN Moved(t, x[2]) ELSE 0]
    BY <1>5 DEF UsedMoved, On
  <2>2. \A x \in Jobs \X Parts : used[x] + (IF x[1] = tx[t].req.job THEN Moved(t, x[2]) ELSE 0) \in Int
    <3> SUFFICES ASSUME NEW x \in Jobs \X Parts
                 PROVE  used[x] + (IF x[1] = tx[t].req.job THEN Moved(t, x[2]) ELSE 0) \in Int
      OBVIOUS
    <3>1. x[2] \in Parts
      OBVIOUS
    <3>2. PICK m \in Int, s \in Int : m = Moved(t, x[2]) /\ s = used[x]
      BY <1>2, <1>3, <3>1
    <3> QED
      BY <3>2
  <2>3. used' \in [Jobs \X Parts -> Int]
    BY <2>1, <2>2
  <2>4. ASSUME NEW j \in Jobs, NEW p \in Parts
        PROVE  used'[<<j, p>>] = used[<<j, p>>] + IF j = tx[t].req.job THEN Moved(t, p) ELSE 0
    BY <2>1
  <2> QED
    BY <2>3, <2>4
<1> QED
  BY <1>2, <1>4, <1>5

\* What the job's own transaction writes of it is its own.
LEMMA UsedIsOfItsJob ==
  ASSUME IInv, JInv, NEW t \in Txs, tx[t].at = "moving", tx[t].want = {},
         tx[t].req.does \in {"issue", "take out", "put back"}, UsedMoved(t)
  PROVE  /\ used' \in [Jobs \X Parts -> Int]
         /\ \A j \in Jobs : \/ \A p \in Parts : used'[<<j, p>>] = used[<<j, p>>]
                            \/ <<JobRow(j), "update">> \in holds[t]
<1>1. /\ used' \in [Jobs \X Parts -> Int]
      /\ \A j \in Jobs : \A p \in Parts :
           used'[<<j, p>>] = used[<<j, p>>] + IF j = tx[t].req.job THEN Moved(t, p) ELSE 0
  BY MovesAreHeld DEF Movers
<1>2. <<JobRow(tx[t].req.job), "update">> \in holds[t]
  BY DEF IInv, Held, Orders
<1>3. ASSUME NEW j \in Jobs, j # tx[t].req.job, NEW p \in Parts PROVE used'[<<j, p>>] = used[<<j, p>>]
  <2>1. used'[<<j, p>>] = used[<<j, p>>] + 0
    BY <1>1, <1>3
  <2>2. used[<<j, p>>] \in Int
    BY DEF JInv, Ledger
  <2>3. used[<<j, p>>] + 0 = used[<<j, p>>]
    BY <2>2, NothingMore, Zenon
  <2> QED
    BY <2>1, <2>3, Zenon
<1> QED
  BY <1>1, <1>2, <1>3

LEMMA InvoiceIsSure == ASSUME IInv, JInv, NEW t \in Txs, CommitInvoice(t) PROVE JInv'
<1>1. tx[t].at = "moving" /\ tx[t].want = {} /\ tx[t].req.does = "issue"
  BY DEF CommitInvoice, Ready, Does
<1>2. PICK j \in Jobs : j = tx[t].req.job
  BY <1>1 DEF IInv, Held, Orders
<1>3. state[j] = "open" /\ tx[t].bill = AsBilled(j) /\ tx[t].number = next
  BY <1>1, <1>2 DEF IInv, Held, HasNumber, Orders, Writes
<1> DEFINE doc == [kind |-> "invoice", of |-> 0, job |-> j, key |-> NoKey, lines |-> tx[t].bill]
<1>4. /\ Over(t) /\ lines' = lines /\ state' = [state EXCEPT ![j] = "invoiced"]
      /\ reserved' = [x \in Jobs \X Parts |-> IF x[1] = j THEN 0 ELSE reserved[x]]
      /\ docs' = [n \in Numbers \cup {next} |-> IF n = next THEN doc ELSE docs[n]]
      /\ ShelfMoved(t) /\ UsedMoved(t)
  BY <1>2, <1>3 DEF CommitInvoice, WriteDoc, On
<1>5. Books /\ Bills /\ state \in [Jobs -> {"open", "invoiced"}]
  BY DEF JInv, Books, IInv, Shape
<1>6. tx[t].bill \in Seq(BilledLine) /\ tx[t].bill \in Seq(LineOnDoc)
  BY <1>3, BillFits, BilledAreLines DEF JInv, Books
<1>7. /\ doc \in Document /\ doc.kind = "invoice" /\ doc.of = 0 /\ doc.job = j
      /\ doc.lines \in Seq(BilledLine)
  BY <1>6 DEF Document
<1> HIDE DEF doc
<1>8. /\ state'[j] = "invoiced" /\ \A k \in Jobs : state[k] = "invoiced" => state'[k] = "invoiced"
      /\ \A n \in Numbers : docs[n].kind # "credit" => docs[n].job # j
  BY <1>3, <1>4, <1>5 DEF Bills
<1>9. Books'
  BY <1>4, <1>5, <1>7, <1>8, BillAdded
<1>10. /\ Numbers' = Numbers \cup {next} /\ docs'[next] = doc /\ \A m \in Numbers : docs'[m] = docs[m]
  BY <1>4, <1>5, <1>7, DocWritten
<1>11. /\ shelf' \in [Parts -> Int]
       /\ \A p \in Parts : shelf'[p] = shelf[p] \/ <<PartRow(p), "update">> \in holds[t]
  BY <1>1, <1>4, MovesAreHeld DEF Movers
<1>12. /\ used' \in [Jobs \X Parts -> Int]
       /\ \A k \in Jobs : \/ \A p \in Parts : used'[<<k, p>>] = used[<<k, p>>]
                          \/ <<JobRow(k), "update">> \in holds[t]
  BY <1>1, <1>4, UsedIsOfItsJob
<1>13. Ledger'
  <2>1. reserved' \in [Jobs \X Parts -> Int]
    BY <1>4 DEF JInv, Ledger
  <2> QED
    BY <1>11, <1>12, <2>1 DEF Ledger
<1> QED
  BY <1>4, <1>7, <1>9, <1>10, <1>11, <1>12, <1>13, CommittedAndSure

LEMMA CorrectionIsSure == ASSUME IInv, JInv, NEW t \in Txs, CommitCorrection(t) PROVE JInv'
<1>1. tx[t].at = "moving" /\ tx[t].req.does \in {"credit", "rebill"}
  BY DEF CommitCorrection, Ready, Does
<1>2. Corrects(t) /\ TxFits(t) /\ Books /\ Bills
  BY DEF JInv, Sure, Books
<1>3. PICK n \in Numbers : n = tx[t].req.of
  BY <1>1, <1>2 DEF Corrects, Under
<1>4. tx[t].req.key \in Keys /\ <<InvoiceRow(n), "update">> \in holds[t] /\ tx[t].number = next
  BY <1>1, <1>2, <1>3 DEF Corrects, Under, IInv, HasNumber, Writes
<1> DEFINE kind == IF tx[t].req.does = "credit" THEN "credit" ELSE "replacement"
           doc == [kind |-> kind, of |-> n, job |-> docs[n].job, key |-> tx[t].req.key, lines |-> tx[t].bill]
<1>5. /\ Over(t) /\ UNCHANGED <<state, lines, reserved, used, shelf>>
      /\ docs' = [m \in Numbers \cup {next} |-> IF m = next THEN doc ELSE docs[m]]
  BY <1>3, <1>4 DEF CommitCorrection, WriteDoc
<1>6. docs[n].job \in Jobs /\ n \in Nat /\ tx[t].bill \in Seq(LineOnDoc)
  BY <1>2 DEF Bills, Document, TxFits
<1>7. /\ doc \in Document /\ doc.kind = kind /\ doc.of = n /\ doc.job = docs[n].job
      /\ doc.lines = tx[t].bill
  BY <1>4, <1>6 DEF Document
<1>8. kind = IF tx[t].req.does = "credit" THEN "credit" ELSE "replacement"
  OBVIOUS
<1> HIDE DEF doc, kind
<1>9. Books'
  <2>1. CASE tx[t].req.does = "credit"
    <3>1. PICK w \in Wishes : w = tx[t].req.wish
      BY <1>1, <1>2, <2>1 DEF Corrects, Under
    <3>2. MayCredit(n, w) /\ doc.lines = CreditPlan(n, w)
      BY <1>1, <1>2, <1>3, <1>7, <2>1, <3>1 DEF Corrects, Under
    <3>3. \A i \in DOMAIN docs[n].lines : Shares(n, i, doc.lines)
      BY <1>2, <3>2, NumbersAreFinite, PlanFits
    <3>4. docs[n].kind # "credit" /\ -Gross(doc.lines) \in 1..Left(n)
      BY <3>2 DEF MayCredit
    <3> QED
      BY <1>2, <1>5, <1>7, <1>8, <2>1, <3>3, <3>4, CreditPut
  <2>2. CASE tx[t].req.does = "rebill"
    <3>1. MayRebill(n) /\ doc.lines = docs[n].lines
      BY <1>1, <1>2, <1>3, <1>7, <2>2 DEF Corrects, Under
    <3>2. docs[n].kind # "credit" /\ ~Replaced(n) /\ Left(n) = 0
      BY <3>1 DEF MayRebill
    <3>3. doc.lines \in Seq(BilledLine) /\ state'[doc.job] = "invoiced"
      BY <1>2, <1>5, <1>7, <3>1, <3>2 DEF Bills
    <3>4. \A m \in Numbers : docs[m].kind # "credit" /\ docs[m].job = doc.job /\ ~Replaced(m) => n = m
      BY <1>2, <1>7, <3>2 DEF Books, Chain
    <3>5. doc.kind = "replacement" /\ \A k \in Jobs : state[k] = "invoiced" => state'[k] = "invoiced"
      BY <1>5, <1>7, <1>8, <2>2
    <3>6. lines' = lines /\ doc.of \in Numbers \cup {0} /\ Left(doc.of) = 0
      BY <1>5, <1>7, <3>2
    <3> QED
      BY <1>2, <1>5, <1>7, <3>3, <3>4, <3>5, <3>6, BillAdded
  <2> QED
    BY <1>1, <2>1, <2>2
<1>10. Numbers' = Numbers \cup {next} /\ docs'[next] = doc /\ \A m \in Numbers : docs'[m] = docs[m]
  BY <1>2, <1>5, <1>7, DocWritten
<1>11. Ledger'
  BY <1>5 DEF JInv, Ledger
<1> QED
  BY <1>4, <1>5, <1>7, <1>9, <1>10, <1>11, CommittedAndSure

\* What the shelf and the jobs hold was written, and no document.
LEMMA ShelfIsSure ==
  ASSUME IInv, JInv, NEW t \in Txs, Over(t), UNCHANGED <<docs, state>>,
         lines' \in [Jobs -> Seq(LineOnJob)], Ledger',
         \A j \in Jobs : \/ lines'[j] = lines[j] /\ \A p \in Parts : used'[<<j, p>>] = used[<<j, p>>]
                         \/ <<JobRow(j), "update">> \in holds[t],
         \A p \in Parts : shelf'[p] = shelf[p] \/ <<PartRow(p), "update">> \in holds[t]
  PROVE  JInv'
<1>1. Books'
  BY BooksStand DEF JInv
<1>2. Numbers' = Numbers
  BY DEF Numbers
<1> QED
  BY <1>1, <1>2, CommittedAndSure

LEMMA LineIsSure == ASSUME IInv, JInv, NEW t \in Txs, CommitLine(t) PROVE JInv'
<1>1. tx[t].at = "moving" /\ tx[t].req.does = "add line"
  BY DEF CommitLine, Ready, Does
<1>2. PICK j \in Jobs : j = tx[t].req.job
  BY <1>1 DEF IInv, Held, Orders
<1>3. <<JobRow(j), "update">> \in holds[t]
  BY <1>1, <1>2 DEF IInv, Held, Orders
<1>4. PICK l \in LineOnJob : l = tx[t].req.line
  BY <1>1, OffersAreLines DEF JInv, Sure, TxFits, Under
<1>5. /\ Over(t) /\ UNCHANGED <<state, used, shelf, docs>>
      /\ lines' = [lines EXCEPT ![j] = Append(lines[j], l)]
      /\ reserved' = [x \in Jobs \X Parts |-> reserved[x] + IF x = <<j, l.part>> THEN l.qty ELSE 0]
  BY <1>2, <1>4 DEF CommitLine
<1>6. lines \in [Jobs -> Seq(LineOnJob)] /\ Ledger
  BY DEF JInv, Books
<1>7. lines' \in [Jobs -> Seq(LineOnJob)] /\ \A k \in Jobs : k # j => lines'[k] = lines[k]
  <2>1. Append(lines[j], l) \in Seq(LineOnJob)
    BY <1>6
  <2> QED
    BY <1>5, <1>6, <2>1
<1>8. Ledger'
  <2>1. PICK q \in Nat : q = l.qty
    BY DEF LineOnJob
  <2>2. \A x \in Jobs \X Parts : reserved[x] \in Int
    BY <1>6 DEF Ledger
  <2>3. ASSUME NEW x \in Jobs \X Parts
        PROVE  reserved[x] + (IF x = <<j, l.part>> THEN l.qty ELSE 0) \in Int
    <3>1. PICK s \in Int : s = reserved[x]
      BY <2>2
    <3>2. s + q \in Int /\ s + 0 \in Int
      BY <2>1, <3>1
    <3> QED
      BY <2>1, <3>1, <3>2
  <2>4. reserved' \in [Jobs \X Parts -> Int]
    BY <1>5, <2>3
  <2> QED
    BY <1>5, <1>6, <2>4 DEF Ledger
<1> QED
  BY <1>3, <1>5, <1>7, <1>8, ShelfIsSure

LEMMA TakeOutIsSure == ASSUME IInv, JInv, NEW t \in Txs, CommitTakeOut(t) PROVE JInv'
<1>1. tx[t].at = "moving" /\ tx[t].want = {} /\ tx[t].req.does = "take out"
  BY DEF CommitTakeOut, Ready, Does
<1>2. PICK j \in Jobs, p \in Parts, q \in Nat : j = tx[t].req.job /\ p = tx[t].req.part /\ q = tx[t].req.qty
  <2>1. tx[t].req.job \in Jobs
    BY <1>1 DEF IInv, Held, Orders
  <2>2. tx[t].req.part \in Parts /\ tx[t].req.qty \in Nat
    BY <1>1 DEF JInv, Sure, TxFits, Under
  <2> QED
    BY <2>1, <2>2
<1>3. /\ Over(t) /\ UNCHANGED <<state, lines, docs>> /\ ShelfMoved(t) /\ UsedMoved(t)
      /\ reserved' = [reserved EXCEPT ![<<j, p>>] =
                        reserved[<<j, p>>] - Max({0, Min({reserved[<<j, p>>], q})})]
  BY <1>2 DEF CommitTakeOut
<1>4. lines \in [Jobs -> Seq(LineOnJob)] /\ reserved \in [Jobs \X Parts -> Int]
  BY DEF JInv, Books, Ledger
<1>5. reserved' \in [Jobs \X Parts -> Int]
  <2>1. PICK s \in Int : s = reserved[<<j, p>>]
    BY <1>4
  <2>2. Min({s, q}) \in Int
    <3>1. s \in Int /\ q \in Int
      BY <1>2, <2>1
    <3> QED
      BY <3>1, MaxOfTwo, Zenon
  <2>3. Max({0, Min({s, q})}) \in Int
    BY <2>2, MaxOfTwo
  <2>4. s - Max({0, Min({s, q})}) \in Int
    BY <2>1, <2>3
  <2> QED
    BY <1>3, <1>4, <2>1, <2>4
<1>6. /\ shelf' \in [Parts -> Int]
      /\ \A x \in Parts : shelf'[x] = shelf[x] \/ <<PartRow(x), "update">> \in holds[t]
  BY <1>1, <1>3, MovesAreHeld DEF Movers
<1>7. /\ used' \in [Jobs \X Parts -> Int]
      /\ \A k \in Jobs : \/ \A x \in Parts : used'[<<k, x>>] = used[<<k, x>>]
                         \/ <<JobRow(k), "update">> \in holds[t]
  BY <1>1, <1>3, UsedIsOfItsJob
<1>8. Ledger'
  BY <1>5, <1>6, <1>7 DEF Ledger
<1> QED
  BY <1>3, <1>4, <1>6, <1>7, <1>8, ShelfIsSure

LEMMA PutBackIsSure == ASSUME IInv, JInv, NEW t \in Txs, CommitPutBack(t) PROVE JInv'
<1>1. tx[t].at = "moving" /\ tx[t].want = {} /\ tx[t].req.does = "put back"
  BY DEF CommitPutBack, Ready, Does
<1>2. /\ Over(t) /\ UNCHANGED <<state, lines, reserved, docs>>
      /\ (ShelfMoved(t) /\ UsedMoved(t)) \/ UNCHANGED <<shelf, used>>
  BY DEF CommitPutBack
<1>3. lines \in [Jobs -> Seq(LineOnJob)] /\ Ledger
  BY DEF JInv, Books
<1>4. /\ shelf' \in [Parts -> Int]
      /\ \A p \in Parts : shelf'[p] = shelf[p] \/ <<PartRow(p), "update">> \in holds[t]
  BY <1>1, <1>2, <1>3, MovesAreHeld DEF Movers, Ledger
<1>5. /\ used' \in [Jobs \X Parts -> Int]
      /\ \A k \in Jobs : \/ \A p \in Parts : used'[<<k, p>>] = used[<<k, p>>]
                         \/ <<JobRow(k), "update">> \in holds[t]
  BY <1>1, <1>2, <1>3, UsedIsOfItsJob DEF Ledger
<1>6. Ledger'
  BY <1>2, <1>3, <1>4, <1>5 DEF Ledger
<1> QED
  BY <1>2, <1>3, <1>4, <1>5, <1>6, ShelfIsSure

LEMMA CountIsBooked == ASSUME IInv, JInv, NEW t \in Txs, CommitCount(t) PROVE JInv'
<1>1. tx[t].at = "moving" /\ tx[t].want = {} /\ tx[t].req.does = "count"
  BY DEF CommitCount, Ready, Does
<1>2. Over(t) /\ UNCHANGED <<state, lines, reserved, used, docs>> /\ ShelfMoved(t)
  BY DEF CommitCount
<1>3. lines \in [Jobs -> Seq(LineOnJob)] /\ Ledger
  BY DEF JInv, Books
<1>4. /\ shelf' \in [Parts -> Int]
      /\ \A p \in Parts : shelf'[p] = shelf[p] \/ <<PartRow(p), "update">> \in holds[t]
  BY <1>1, <1>2, MovesAreHeld DEF Movers
<1>5. Ledger'
  BY <1>2, <1>3, <1>4 DEF Ledger
<1> QED
  BY <1>2, <1>3, <1>4, <1>5, ShelfIsSure

LEMMA RollBackIsSure == ASSUME IInv, JInv, NEW t \in Txs, RollBack(t) PROVE JInv'
<1>1. tx'[t] = Idle /\ \A u \in Txs \ {t} : tx'[u] = tx[u] /\ holds'[u] = holds[u]
  BY OverKeepsApart DEF IInv, RollBack
<1>2. Sure(t)'
  BY <1>1, IdleIsSure
<1> QED
  BY <1>1, <1>2, QuietAndSure DEF RollBack

LEMMA NextKeepsJInv == ASSUME IInv, JInv, [Next]_vars PROVE JInv'
<1>1. ASSUME NEW t \in Txs, Step(t) PROVE JInv'
  <2>1. CASE OpenOrder(t)
    BY <2>1, OpenIsSure
  <2>2. CASE Refer(t)
    BY <2>2, ReferIsSure
  <2>3. CASE Reserve(t)
    BY <2>3, ReserveIsSure
  <2>4. CASE HoldCredited(t)
    BY <2>4, CreditIsSure
  <2>5. CASE HoldRebilled(t)
    BY <2>5, RebillIsSure
  <2>6. CASE TakeNumber(t)
    BY <2>6, NumberIsSure
  <2>7. CASE HoldCounted(t)
    BY <2>7, CountIsSure
  <2>8. CASE Move(t)
    BY <2>8, MoveIsSure
  <2>9. CASE CommitInvoice(t)
    BY <2>9, InvoiceIsSure
  <2>10. CASE CommitCorrection(t)
    BY <2>10, CorrectionIsSure
  <2>11. CASE CommitLine(t)
    BY <2>11, LineIsSure
  <2>12. CASE CommitTakeOut(t)
    BY <2>12, TakeOutIsSure
  <2>13. CASE CommitPutBack(t)
    BY <2>13, PutBackIsSure
  <2>14. CASE CommitCount(t)
    BY <2>14, CountIsBooked
  <2>15. CASE RollBack(t)
    BY <2>15, RollBackIsSure
  <2> QED
    BY <1>1, <2>1, <2>2, <2>3, <2>4, <2>5, <2>6, <2>7, <2>8, <2>9, <2>10, <2>11, <2>12, <2>13,
       <2>14, <2>15 DEF Step
<1>2. CASE UNCHANGED vars
  <2>1. UNCHANGED shop /\ \A t \in Txs : tx'[t] = tx[t] /\ holds'[t] = holds[t]
    BY <1>2 DEF vars
  <2>2. Books' /\ Ledger'
    BY <2>1, BooksStand DEF JInv, Books, Ledger, shop
  <2>3. Numbers' = Numbers
    BY <2>1 DEF Numbers, shop
  <2>4. ASSUME NEW t \in Txs PROVE Sure(t)'
    <3>1. Sure(t) /\ docs' = docs /\ shelf' = shelf /\ used' = used /\ lines' = lines
      BY <2>1 DEF JInv, shop
    <3>2. tx'[t] = tx[t] /\ holds'[t] = holds[t]
      BY <2>1
    <3>3. TxFits(t)'
      BY <3>1, <3>2 DEF Sure, TxFits, Under
    <3>4. Corrects(t)'
      BY <2>1, <3>1, <3>2, StillCorrects DEF Sure
    <3>5. Moves(t)'
      <4>1. CASE tx[t].at = "moving" /\ tx[t].req.does = "issue"
        <5>1. PICK j \in Jobs : j = tx[t].req.job
          BY <4>1 DEF IInv, Held, Orders
        <5>2. Short(j)' = Short(j) /\ \A p \in Parts : ToIssue(j, p)' = ToIssue(j, p)
          BY <3>1, NeedsStand
        <5>3. tx'[t].req.job = j
          BY <3>2, <5>1
        <5> QED
          BY <3>1, <3>2, <4>1, <5>1, <5>2, <5>3 DEF Sure, Moves
      <4>2. CASE ~(tx[t].at = "moving" /\ tx[t].req.does = "issue")
        BY <3>1, <3>2, <4>2 DEF Sure, Moves
      <4> QED
        BY <4>1, <4>2
    <3> QED
      BY <3>3, <3>4, <3>5 DEF Sure
  <2> QED
    BY <2>2, <2>4 DEF JInv
<1> QED
  BY <1>1, <1>2 DEF Next

\* Each transaction decides on rows it holds, and what it decided is so until it
\* commits it: of every document, of every line of it and of every part.
THEOREM WhatWasDecidedIsSo == Spec => []JInv
<1>1. Init => JInv
  BY InitIsSure
<1>2. IInv /\ JInv /\ [Next]_vars => JInv'
  BY NextKeepsJInv
<1> QED
  BY <1>1, <1>2, TransactionsKeepApart, PTL DEF Spec

\* Orders, documents, the shelf and the transactions are what they are said to be.
THEOREM InvoicingIsTyped == Spec => []TypeOK
<1>1. IInv /\ JInv => TypeOK
  BY DEF IInv, Shape, Papers, JInv, Books, Bills, Ledger, Sure, TxFits, TypeOK
<1> QED
  BY <1>1, TransactionsKeepApart, WhatWasDecidedIsSo, PTL

\* However often the buyer is corrected, what a job is owed for is on one
\* document: what was replaced was taken back whole.
LEMMA OneIsOwed == ASSUME IInv, Books PROVE BilledOnce
<1> SUFFICES ASSUME NEW j \in Jobs
             PROVE  Cardinality({n \in Numbers : docs[n].kind # "credit" /\ docs[n].job = j /\ Left(n) # 0}) =< 1
  BY DEF BilledOnce
<1> DEFINE S == {n \in Numbers : docs[n].kind # "credit" /\ docs[n].job = j /\ Left(n) # 0}
<1>1. \A m, n \in S : m = n
  BY DEF Books, Chain
<1>2. CASE S = {}
  BY <1>2, FS_EmptySet
<1>3. ASSUME NEW n \in S PROVE Cardinality(S) = 1
  <2>1. S = {n}
    BY <1>1
  <2> HIDE DEF S
  <2> QED
    BY <2>1, FS_Singleton
<1> QED
  BY <1>2, <1>3

\* No more is credited of an invoice than was billed, in whole or by the line,
\* in whatever parts and by however many at once (credit.go:22-26, 243-246), and
\* the work of a job is owed on one document (credit.go:503-511).
THEOREM CreditsStayWithinInvoices == Spec => []CreditsWithinInvoice
<1>1. IInv /\ JInv => CreditsWithinInvoice
  BY OneIsOwed DEF CreditsWithinInvoice, JInv, Books
<1> QED
  BY <1>1, TransactionsKeepApart, WhatWasDecidedIsSo, PTL

-----------------------------------------------------------------------------
(* The shelf.                                                              *)

\* A job is invoiced by the commit of its invoice and by nothing else.
LEMMA InvoicedByItsInvoice ==
  ASSUME IInv, [Next]_vars, NEW j \in Jobs, state[j] = "open", state'[j] = "invoiced"
  PROVE  \E t \in Txs : CommitInvoice(t) /\ tx[t].req.job = j
<1>1. state' # state
  OBVIOUS
<1>2. PICK t \in Txs : Step(t)
  BY <1>1 DEF Next, vars, shop
<1>3. CommitInvoice(t)
  BY <1>1, <1>2 DEF Step, OpenOrder, Refer, Reserve, HoldCredited, HoldRebilled, TakeNumber,
     HoldCounted, Move, CommitCorrection, CommitLine, CommitTakeOut, CommitPutBack, CommitCount,
     RollBack, shop
<1>4. state' = [state EXCEPT ![tx[t].req.job] = "invoiced"]
  BY <1>3 DEF CommitInvoice, On
<1>5. tx[t].req.job = j
  BY <1>4
<1> QED
  BY <1>3, <1>5

LEMMA IssuesLeaveOnce == ASSUME IInv, JInv, [Next]_vars PROVE EachPartLeavesOnce
<1> SUFFICES ASSUME NEW j \in Jobs, state[j] = "open", state'[j] = "invoiced", NEW p \in Parts
             PROVE  used'[<<j, p>>] = Max({used[<<j, p>>], Priced(j, p)})
  BY Zenon DEF EachPartLeavesOnce
<1>1. PICK t \in Txs : CommitInvoice(t) /\ tx[t].req.job = j
  BY InvoicedByItsInvoice
<1>2. /\ tx[t].at = "moving" /\ tx[t].want = {} /\ tx[t].req.does = "issue" /\ UsedMoved(t)
  BY <1>1 DEF CommitInvoice, Ready, Does
<1>3. used'[<<j, p>>] = used[<<j, p>>] + Moved(t, p)
  BY <1>1, <1>2, MovesAreHeld DEF Movers
<1>4. PICK s \in Int, q \in Int : s = used[<<j, p>>] /\ q = Priced(j, p)
  BY PricedIsInt DEF JInv, Books, Ledger
<1>5. ToIssue(j, p) = q - s
  BY <1>4, Zenon DEF ToIssue
<1>6. p \in Short(j) <=> q - s > 0
  BY <1>5 DEF Short
<1>7. /\ DOMAIN tx[t].moves = Short(j)
      /\ \A x \in DOMAIN tx[t].moves : tx[t].moves[x] = ToIssue(j, x)
  BY <1>1, <1>2 DEF JInv, Sure, Moves, Movers
<1>8. Moved(t, p) = IF q - s > 0 THEN q - s ELSE 0
  BY <1>5, <1>6, <1>7 DEF Moved
<1>9. Max({s, q}) = IF s >= q THEN s ELSE q
  BY <1>4, MaxOfTwo
<1>10. s + (IF q - s > 0 THEN q - s ELSE 0) = IF s >= q THEN s ELSE q
  BY <1>4
<1> QED
  BY <1>3, <1>4, <1>8, <1>9, <1>10

LEMMA CountsAreTrue == ASSUME IInv, JInv PROVE CountsAreOfNow
<1> SUFFICES ASSUME NEW t \in Txs, CommitCount(t) PROVE shelf'[tx[t].req.part] = tx[t].req.qty
  BY DEF CountsAreOfNow
<1>1. tx[t].at = "moving" /\ tx[t].want = {} /\ tx[t].req.does = "count" /\ ShelfMoved(t)
  BY DEF CommitCount, Ready, Does
<1>2. PICK p \in Parts, q \in Nat : p = tx[t].req.part /\ q = tx[t].req.qty
  BY <1>1 DEF JInv, Sure, TxFits, Under
<1>3. PICK s \in Int : s = shelf[p]
  BY DEF JInv, Ledger
<1>4. p \in DOMAIN tx[t].moves /\ tx[t].moves[p] = s - q
  BY <1>1, <1>2, <1>3 DEF JInv, Sure, Moves, Movers
<1>5. shelf'[p] = s - (s - q)
  BY <1>1, <1>3, <1>4 DEF ShelfMoved, Moved
<1> QED
  BY <1>2, <1>3, <1>5

\* Issuing takes off the shelf what was priced and is not out already, so that
\* each part leaves once (invoice.go:357-361), and a count is what the shelf
\* holds when it is booked (stock.go:728-738).
THEOREM TheShelfIsTrue == Spec => ShelfIsTrue
<1>1. IInv /\ JInv /\ [Next]_vars => [EachPartLeavesOnce /\ CountsAreOfNow]_vars
  BY IssuesLeaveOnce, CountsAreTrue
<1> QED
  BY <1>1, TransactionsKeepApart, WhatWasDecidedIsSo, PTL DEF Spec, ShelfIsTrue

-----------------------------------------------------------------------------
(* One at a time.                                                          *)

\* What was asked can still be done as it was asked, with nobody else's leave.
StillAsked(t) ==
  /\ Under(t, {"issue"}) => lines[tx[t].req.job] # <<>>
  /\ Under(t, {"credit", "rebill"}) => ~KeyUsed(tx[t].req.of, tx[t].req.key)
  /\ Under(t, {"take out", "put back", "count"}) => tx[t].req.qty \in Amounts
  /\ Under(t, {"take out"}) => tx[t].moves = [p \in {tx[t].req.part} |-> tx[t].req.qty]
  /\ Under(t, {"put back"}) => tx[t].moves = [p \in {tx[t].req.part} |-> -tx[t].req.qty]

KInv == \A t \in Txs : StillAsked(t)

LEMMA KeyStands ==
  ASSUME NEW n \in Numbers, Numbers \subseteq Numbers', \A m \in Numbers : docs'[m] = docs[m],
         \A m \in Numbers' \ Numbers : docs'[m].of # n
  PROVE  \A k : KeyUsed(n, k)' = KeyUsed(n, k)
<1>1. ASSUME NEW k PROVE KeyUsed(n, k)' = KeyUsed(n, k)
  BY DEF KeyUsed, Corrections
<1> QED
  BY <1>1

\* While nothing is committed, whoever is asked the same can still do it.
LEMMA AskedOfTheSame ==
  ASSUME NEW u \in Txs, StillAsked(u), UNCHANGED shop, tx[u].at # "idle" \/ tx'[u] = tx[u],
         tx'[u].req = tx[u].req, tx'[u].moves = tx[u].moves \/ tx[u].req.does = "issue"
  PROVE  StillAsked(u)'
<1>1. ASSUME NEW what, Under(u, what)' PROVE Under(u, what)
  BY <1>1 DEF Under
<1>2. lines' = lines /\ docs' = docs
  BY DEF shop
<1>3. Under(u, {"issue"})' => lines'[tx'[u].req.job] # <<>>
  BY <1>1, <1>2 DEF StillAsked
<1>4. Under(u, {"credit", "rebill"})' => ~KeyUsed(tx[u].req.of, tx[u].req.key)'
  <2>1. PICK n, k : n = tx[u].req.of /\ k = tx[u].req.key
    OBVIOUS
  <2>2. KeyUsed(n, k)' = KeyUsed(n, k)
    BY <1>2 DEF KeyUsed, Corrections, Numbers
  <2>3. Under(u, {"credit", "rebill"})' => ~KeyUsed(n, k)
    BY <1>1, <2>1 DEF StillAsked
  <2>4. tx'[u].req.of = n /\ tx'[u].req.key = k
    BY <2>1
  <2> QED
    BY <2>2, <2>3, <2>4
<1>5. Under(u, {"take out", "put back"})' => tx'[u].moves = tx[u].moves
  BY <1>1 DEF Under
<1>6. /\ Under(u, {"take out", "put back", "count"})' => tx'[u].req.qty \in Amounts
      /\ Under(u, {"take out"})' => tx'[u].moves = [p \in {tx'[u].req.part} |-> tx'[u].req.qty]
      /\ Under(u, {"put back"})' => tx'[u].moves = [p \in {tx'[u].req.part} |-> -tx'[u].req.qty]
  BY <1>1, <1>5 DEF StillAsked, Under
<1> QED
  BY <1>3, <1>4, <1>6 DEF StillAsked

\* A transaction went on without committing anything.
LEMMA QuietAndAsked ==
  ASSUME KInv, NEW t \in Txs, UNCHANGED shop, \A u \in Txs \ {t} : tx'[u] = tx[u], StillAsked(t)'
  PROVE  KInv'
<1>1. ASSUME NEW u \in Txs \ {t} PROVE StillAsked(u)'
  <2>1. StillAsked(u) /\ tx'[u] = tx[u]
    BY DEF KInv
  <2> QED
    BY <2>1, AskedOfTheSame
<1> QED
  BY <1>1 DEF KInv

\* A transaction got a row, or its number, and is asked what it was asked.
LEMMA AskedTheSame ==
  ASSUME IInv, KInv, NEW t \in Txs, UNCHANGED shop,
         tx[t].at # "idle", tx'[t].req = tx[t].req,
         tx'[t].moves = tx[t].moves \/ tx[t].req.does = "issue",
         \A u \in Txs \ {t} : tx'[u] = tx[u]
  PROVE  KInv'
<1>1. StillAsked(t)'
  BY AskedOfTheSame DEF KInv
<1> QED
  BY <1>1, QuietAndAsked

\* A transaction ended, and wrote only what it held the rows of.
LEMMA CommittedAndAsked ==
  ASSUME IInv, JInv, KInv, NEW t \in Txs, Over(t),
         Numbers \subseteq Numbers', \A m \in Numbers : docs'[m] = docs[m],
         \A m \in Numbers' \ Numbers :
           docs'[m].of = 0 \/ <<InvoiceRow(docs'[m].of), "update">> \in holds[t],
         \A j \in Jobs : lines'[j] = lines[j] \/ <<JobRow(j), "update">> \in holds[t]
  PROVE  KInv'
<1>1. tx'[t] = Idle /\ \A u \in Txs \ {t} : tx'[u] = tx[u] /\ holds'[u] = holds[u]
  BY OverKeepsApart DEF IInv
<1>2. StillAsked(t)'
  BY <1>1 DEF StillAsked, Under, Idle
<1>3. ASSUME NEW u \in Txs \ {t} PROVE StillAsked(u)'
  <2>1. LocksHold /\ 0 \notin Numbers /\ Held(u) /\ Corrects(u) /\ StillAsked(u)
    BY NumbersAreFinite DEF IInv, JInv, Sure, KInv
  <2>2. Under(u, {"issue"})' => lines'[tx'[u].req.job] # <<>>
    <3> SUFFICES ASSUME Under(u, {"issue"}) PROVE lines'[tx[u].req.job] # <<>>
      BY <1>1 DEF Under
    <3>1. PICK j \in Jobs : j = tx[u].req.job
      BY <2>1 DEF Held, Under, Orders
    <3>2. <<JobRow(j), "update">> \in holds[u] /\ lines[j] # <<>>
      BY <2>1, <3>1 DEF Held, StillAsked, Under, Orders
    <3>3. ~(<<JobRow(j), "update">> \in holds[t])
      BY <2>1, <3>2, OneHasTheRow
    <3> QED
      BY <3>1, <3>2, <3>3
  <2>3. Under(u, {"credit", "rebill"})' => ~KeyUsed(tx[u].req.of, tx[u].req.key)'
    <3> SUFFICES ASSUME Under(u, {"credit", "rebill"}) PROVE ~KeyUsed(tx[u].req.of, tx[u].req.key)'
      BY <1>1 DEF Under
    <3>1. PICK n \in Numbers : n = tx[u].req.of
      BY <2>1 DEF Corrects
    <3>2. PICK k \in Keys : k = tx[u].req.key
      BY <2>1 DEF Corrects
    <3>3. <<InvoiceRow(n), "update">> \in holds[u] /\ ~KeyUsed(n, k)
      BY <2>1, <3>1, <3>2 DEF Corrects, StillAsked
    <3>4. ~(<<InvoiceRow(n), "update">> \in holds[t])
      BY <2>1, <3>3, OneHasTheRow
    <3>5. \A m \in Numbers' \ Numbers : docs'[m].of # n
      BY <2>1, <3>1, <3>4
    <3>6. ~KeyUsed(n, k)'
      BY <3>3, <3>5, KeyStands
    <3>7. tx'[u].req.of = n /\ tx'[u].req.key = k
      BY <1>1, <3>1, <3>2
    <3> QED
      BY <3>6, <3>7
  <2>4. /\ Under(u, {"take out", "put back", "count"})' => tx'[u].req.qty \in Amounts
        /\ Under(u, {"take out"})' => tx'[u].moves = [p \in {tx'[u].req.part} |-> tx'[u].req.qty]
        /\ Under(u, {"put back"})' => tx'[u].moves = [p \in {tx'[u].req.part} |-> -tx'[u].req.qty]
    BY <1>1, <2>1 DEF StillAsked, Under
  <2> QED
    BY <2>2, <2>3, <2>4 DEF StillAsked
<1> QED
  BY <1>2, <1>3 DEF KInv

\* Who asks about a job is told what stands on it, and what will be moved.
LEMMA OpenIsAsked == ASSUME IInv, KInv, NEW t \in Txs, OpenOrder(t) PROVE KInv'
<1>1. PICK r \in OrderRequests :
        /\ ~Refused(r)
        /\ \E w : tx' = [tx EXCEPT
             ![t].at = IF r.does \in {"issue", "add line"} THEN "referring" ELSE "moving",
             ![t].req = r, ![t].want = w,
             ![t].moves = CASE r.does = "take out" -> [p \in {r.part} |-> r.qty]
                            [] r.does = "put back" -> [p \in {r.part} |-> -r.qty]
                            [] OTHER               -> <<>>]
  BY DEF OpenOrder
<1> DEFINE stage == IF r.does \in {"issue", "add line"} THEN "referring" ELSE "moving"
           away  == [p \in {r.part} |-> r.qty]
           back  == [p \in {r.part} |-> -r.qty]
           M == CASE r.does = "take out" -> away
                  [] r.does = "put back" -> back
                  [] OTHER               -> <<>>
<1>2. PICK w : tx' = [tx EXCEPT ![t].at = stage, ![t].req = r, ![t].want = w, ![t].moves = M]
  BY <1>1
<1> HIDE DEF stage, M
<1>3. /\ tx'[t].req = r /\ tx'[t].moves = M
      /\ \A u \in Txs \ {t} : tx'[u] = tx[u]
  BY <1>2, TxsAre, Zenon DEF Fields
<1>4. UNCHANGED shop
  BY DEF OpenOrder
<1>5. r.does = "take out" => M = away
  BY Zenon DEF M
<1>6. r.does = "put back" => M = back
  <2>1. "take out" # "put back"
    OBVIOUS
  <2> QED
    BY <2>1, Zenon DEF M
<1>7. r.does = "issue" => lines[r.job] # <<>>
  BY <1>1 DEF Refused
<1>8. r.does \in Orders /\ (r.does \in {"take out", "put back"} => r.qty \in Amounts)
  BY DEF OrderRequests, Orders
<1>9. /\ Under(t, {"issue"})' => lines'[tx'[t].req.job] # <<>>
      /\ ~Under(t, {"credit", "rebill"})'
      /\ Under(t, {"take out", "put back", "count"})' => tx'[t].req.qty \in Amounts
  BY <1>3, <1>4, <1>7, <1>8 DEF Under, Orders, shop
<1>10. /\ Under(t, {"take out"})' => tx'[t].moves = [p \in {tx'[t].req.part} |-> tx'[t].req.qty]
       /\ Under(t, {"put back"})' => tx'[t].moves = [p \in {tx'[t].req.part} |-> -tx'[t].req.qty]
  BY <1>3, <1>5, <1>6 DEF Under
<1>11. StillAsked(t)'
  BY <1>9, <1>10 DEF StillAsked
<1> QED
  BY <1>3, <1>4, <1>11, QuietAndAsked

LEMMA CreditIsAsked == ASSUME IInv, KInv, NEW t \in Txs, HoldCredited(t) PROVE KInv'
<1>1. PICK r \in [does : {"credit"}, of : Numbers, key : Keys, wish : Wishes] :
        /\ ~KeyUsed(r.of, r.key)
        /\ \E b : tx' = [tx EXCEPT ![t].at = "numbering", ![t].req = r, ![t].bill = b]
  BY CreditAsked
<1>2. tx'[t].req = r /\ \A u \in Txs \ {t} : tx'[u] = tx[u]
  BY <1>1, TxsAre, Zenon DEF Fields
<1>3. UNCHANGED shop
  BY DEF HoldCredited
<1>4. StillAsked(t)'
  BY <1>1, <1>2, <1>3 DEF StillAsked, Under, KeyUsed, Corrections, Numbers, shop
<1> QED
  BY <1>2, <1>3, <1>4, QuietAndAsked

LEMMA RebillIsAsked == ASSUME IInv, KInv, NEW t \in Txs, HoldRebilled(t) PROVE KInv'
<1>1. PICK r \in Rebills :
        /\ ~KeyUsed(r.of, r.key)
        /\ \E b : tx' = [tx EXCEPT ![t].at = "numbering", ![t].req = r, ![t].bill = b]
  BY DEF HoldRebilled
<1>2. tx'[t].req = r /\ \A u \in Txs \ {t} : tx'[u] = tx[u]
  BY <1>1, TxsAre, Zenon DEF Fields
<1>3. UNCHANGED shop /\ r.does = "rebill"
  BY DEF HoldRebilled, Rebills
<1>4. StillAsked(t)'
  BY <1>1, <1>2, <1>3 DEF StillAsked, Under, KeyUsed, Corrections, Numbers, shop
<1> QED
  BY <1>2, <1>3, <1>4, QuietAndAsked

LEMMA CountIsAsked == ASSUME IInv, KInv, NEW t \in Txs, HoldCounted(t) PROVE KInv'
<1>1. PICK r \in Counts : \E m : tx' = [tx EXCEPT ![t].at = "moving", ![t].req = r, ![t].moves = m]
  BY DEF HoldCounted
<1>2. tx'[t].req = r /\ \A u \in Txs \ {t} : tx'[u] = tx[u]
  BY <1>1, TxsAre, Zenon DEF Fields
<1>3. UNCHANGED shop /\ r.does = "count" /\ r.qty \in Amounts
  BY DEF HoldCounted, Counts
<1>4. StillAsked(t)'
  BY <1>2, <1>3 DEF StillAsked, Under
<1> QED
  BY <1>2, <1>3, <1>4, QuietAndAsked

\* The rows a transaction still wants, and its number.
LEMMA WaitingIsAsked ==
  ASSUME IInv, KInv, NEW t \in Txs, Refer(t) \/ Reserve(t) \/ Move(t) \/ TakeNumber(t)
  PROVE  KInv'
<1>1. DOMAIN tx = Txs /\ DOMAIN tx[t] = Fields
  BY TxsAre
<1>2. UNCHANGED shop /\ tx[t].at # "idle"
  BY DEF Refer, Reserve, Move, TakeNumber, MayNumber, shop
<1>3. /\ tx'[t].req = tx[t].req /\ (tx'[t].moves = tx[t].moves \/ tx[t].req.does = "issue")
      /\ \A u \in Txs \ {t} : tx'[u] = tx[u]
  <2>1. CASE Refer(t) \/ Move(t)
    <3>1. PICK p : tx' = [tx EXCEPT ![t].want = @ \ {p}]
      BY <2>1 DEF Refer, Move
    <3> QED
      BY <1>1, <3>1, Zenon DEF Fields
  <2>2. CASE Reserve(t)
    <3>1. PICK w : tx' = [tx EXCEPT ![t].at = "moving", ![t].want = w]
      BY <2>2 DEF Reserve
    <3> QED
      BY <1>1, <3>1, Zenon DEF Fields
  <2>3. CASE TakeNumber(t) /\ tx[t].req.does = "issue"
    <3>1. PICK n, b, w, m : tx' = [tx EXCEPT ![t].at = "moving", ![t].number = n, ![t].bill = b,
                                             ![t].want = w, ![t].moves = m]
      BY <2>3 DEF TakeNumber, Numbered, Does
    <3> QED
      BY <1>1, <2>3, <3>1, Zenon DEF Fields
  <2>4. CASE TakeNumber(t) /\ tx[t].req.does # "issue"
    <3>1. PICK n : tx' = [tx EXCEPT ![t].at = "moving", ![t].number = n]
      BY <2>4 DEF TakeNumber, Numbered, Does
    <3> QED
      BY <1>1, <3>1, Zenon DEF Fields
  <2> QED
    BY <2>1, <2>2, <2>3, <2>4
<1> QED
  BY <1>2, <1>3, AskedTheSame

\* What a commit does is what the shop does at once.
LEMMA InvoiceAtOnce ==
  ASSUME IInv, JInv, KInv, NEW t \in Txs, CommitInvoice(t)
  PROVE  KInv' /\ \E j \in Jobs : Issue(j)
<1>1. tx[t].at = "moving" /\ tx[t].want = {} /\ tx[t].req.does = "issue"
  BY DEF CommitInvoice, Ready, Does
<1>2. PICK j \in Jobs : j = tx[t].req.job
  BY <1>1 DEF IInv, Held, Orders
<1>3. state[j] = "open" /\ tx[t].bill = AsBilled(j) /\ tx[t].number = next /\ lines[j] # <<>>
  BY <1>1, <1>2 DEF IInv, Held, HasNumber, Orders, Writes, KInv, StillAsked, Under
<1> DEFINE doc == [kind |-> "invoice", of |-> 0, job |-> j, key |-> NoKey, lines |-> AsBilled(j)]
<1>4. /\ Over(t) /\ lines' = lines /\ state' = [state EXCEPT ![j] = "invoiced"]
      /\ reserved' = [x \in Jobs \X Parts |-> IF x[1] = j THEN 0 ELSE reserved[x]]
      /\ next' = next + 1
      /\ docs' = [n \in Numbers \cup {next} |-> IF n = next THEN doc ELSE docs[n]]
      /\ shelf' = [p \in Parts |-> shelf[p] - Moved(t, p)]
      /\ used' = [x \in Jobs \X Parts |-> used[x] + IF x[1] = j THEN Moved(t, x[2]) ELSE 0]
  BY <1>2, <1>3 DEF CommitInvoice, WriteDoc, On, ShelfMoved, UsedMoved
<1>5. doc.of = 0
  OBVIOUS
<1> HIDE DEF doc
<1>6. /\ DOMAIN tx[t].moves = Short(j)
      /\ \A p \in DOMAIN tx[t].moves : tx[t].moves[p] = ToIssue(j, p)
  BY <1>1, <1>2 DEF JInv, Sure, Moves, Movers
<1>7. \A p \in Parts : Moved(t, p) = Leaving(j, p)
  BY <1>6 DEF Moved, Leaving
<1>8. shelf' = [p \in Parts |-> shelf[p] - Leaving(j, p)]
  BY <1>4, <1>7
<1>9. used' = [x \in Jobs \X Parts |-> used[x] + IF x[1] = j THEN Leaving(j, x[2]) ELSE 0]
  <2>1. \A x \in Jobs \X Parts : x[2] \in Parts
    OBVIOUS
  <2> QED
    BY <1>4, <1>7, <2>1
<1>10. Issue(j)
  BY <1>3, <1>4, <1>8, <1>9 DEF Issue, PutDoc, doc
<1>11. Numbers' = Numbers \cup {next} /\ docs'[next] = doc /\ \A m \in Numbers : docs'[m] = docs[m]
  <2>1. next \notin Numbers
    BY DEF IInv, Papers, NoGaps
  <2> QED
    BY <1>4, <2>1 DEF Numbers
<1>12. KInv'
  BY <1>4, <1>5, <1>11, CommittedAndAsked
<1> QED
  BY <1>10, <1>12

LEMMA CorrectionAtOnce ==
  ASSUME IInv, JInv, KInv, NEW t \in Txs, CommitCorrection(t)
  PROVE  KInv' /\ Correct
<1>1. tx[t].at = "moving" /\ tx[t].req.does \in {"credit", "rebill"}
  BY DEF CommitCorrection, Ready, Does
<1>2. Corrects(t)
  BY DEF JInv, Sure
<1>3. PICK n \in Numbers, k \in Keys : n = tx[t].req.of /\ k = tx[t].req.key
  BY <1>1, <1>2 DEF Corrects, Under
<1>4. <<InvoiceRow(n), "update">> \in holds[t] /\ tx[t].number = next /\ ~KeyUsed(n, k)
  BY <1>1, <1>2, <1>3 DEF Corrects, Under, IInv, HasNumber, Writes, KInv, StillAsked
<1> DEFINE kind == IF tx[t].req.does = "credit" THEN "credit" ELSE "replacement"
           doc == [kind |-> kind, of |-> n, job |-> docs[n].job, key |-> k, lines |-> tx[t].bill]
<1>5. /\ Over(t) /\ UNCHANGED <<state, lines, reserved, used, shelf>> /\ next' = next + 1
      /\ docs' = [m \in Numbers \cup {next} |-> IF m = next THEN doc ELSE docs[m]]
  BY <1>3, <1>4 DEF CommitCorrection, WriteDoc
<1>6. doc.of = n
  OBVIOUS
<1>7. PutDoc(doc)
  BY <1>5 DEF PutDoc
<1>8. Rebill(n) \/ \E wish \in Wishes : Credit(n, wish)
  <2>1. CASE tx[t].req.does = "credit"
    <3>1. PICK w \in Wishes : w = tx[t].req.wish
      BY <1>1, <1>2, <2>1 DEF Corrects, Under
    <3>2. MayCredit(n, w) /\ tx[t].bill = CreditPlan(n, w)
      BY <1>1, <1>2, <1>3, <2>1, <3>1 DEF Corrects, Under
    <3>3. doc = [kind |-> "credit", of |-> n, job |-> docs[n].job, key |-> k, lines |-> CreditPlan(n, w)]
      BY <2>1, <3>2
    <3> HIDE DEF doc
    <3>4. Answer(n, "credit", CreditPlan(n, w))
      BY <1>4, <1>7, <3>3 DEF Answer
    <3> QED
      BY <3>2, <3>4 DEF Credit
  <2>2. CASE tx[t].req.does = "rebill"
    <3>1. MayRebill(n) /\ tx[t].bill = docs[n].lines
      BY <1>1, <1>2, <1>3, <2>2 DEF Corrects, Under
    <3>2. doc = [kind |-> "replacement", of |-> n, job |-> docs[n].job, key |-> k, lines |-> docs[n].lines]
      BY <2>2, <3>1
    <3> HIDE DEF doc
    <3>3. Answer(n, "replacement", docs[n].lines)
      BY <1>4, <1>7, <3>2 DEF Answer
    <3> QED
      BY <3>1, <3>3 DEF Rebill
  <2> QED
    BY <1>1, <2>1, <2>2
<1>9. Correct
  BY <1>5, <1>8 DEF Correct
<1> HIDE DEF doc
<1>10. Numbers' = Numbers \cup {next} /\ docs'[next] = doc /\ \A m \in Numbers : docs'[m] = docs[m]
  <2>1. next \notin Numbers
    BY DEF IInv, Papers, NoGaps
  <2> QED
    BY <1>5, <2>1 DEF Numbers
<1>11. KInv'
  BY <1>4, <1>5, <1>6, <1>10, CommittedAndAsked
<1> QED
  BY <1>9, <1>11

LEMMA LineAtOnce ==
  ASSUME IInv, JInv, KInv, NEW t \in Txs, CommitLine(t)
  PROVE  KInv' /\ \E j \in Jobs, l \in Offers : AddLine(j, l)
<1>1. tx[t].at = "moving" /\ tx[t].req.does = "add line"
  BY DEF CommitLine, Ready, Does
<1>2. PICK j \in Jobs : j = tx[t].req.job
  BY <1>1 DEF IInv, Held, Orders
<1>3. <<JobRow(j), "update">> \in holds[t] /\ state[j] = "open"
  BY <1>1, <1>2 DEF IInv, Held, Orders
<1>4. PICK l \in Offers : l = tx[t].req.line
  BY <1>1 DEF JInv, Sure, TxFits, Under
<1>5. /\ Over(t) /\ UNCHANGED <<state, used, shelf, next, docs>>
      /\ lines' = [lines EXCEPT ![j] = Append(@, l)]
      /\ reserved' = [x \in Jobs \X Parts |-> reserved[x] + IF x = <<j, l.part>> THEN l.qty ELSE 0]
  BY <1>2, <1>4 DEF CommitLine
<1>6. AddLine(j, l)
  BY <1>3, <1>5 DEF AddLine
<1>7. Numbers' = Numbers
  BY <1>5 DEF Numbers
<1>8. \A i \in Jobs : lines'[i] = lines[i] \/ <<JobRow(i), "update">> \in holds[t]
  <2>1. DOMAIN lines = Jobs
    BY DEF IInv, Shape
  <2> QED
    BY <1>3, <1>5, <2>1
<1>9. KInv'
  BY <1>5, <1>7, <1>8, CommittedAndAsked
<1> QED
  BY <1>6, <1>9

\* One part of the job's moved, and nothing else.
LEMMA OffShelfIs ==
  ASSUME Ledger, NEW t \in Txs, NEW j \in Jobs, NEW p \in Parts, NEW q \in Int, j = On(t),
         DOMAIN tx[t].moves = {p}, tx[t].moves[p] = q, ShelfMoved(t), UsedMoved(t)
  PROVE  OffShelf(j, p, q)
<1>1. \A x \in Parts : Moved(t, x) = IF x = p THEN q ELSE 0
  BY DEF Moved
<1>2. shelf \in [Parts -> Int] /\ used \in [Jobs \X Parts -> Int]
  BY DEF Ledger
<1>3. shelf' = [shelf EXCEPT ![p] = @ - q]
  <2>1. shelf' = [x \in Parts |-> shelf[x] - Moved(t, x)]
    BY DEF ShelfMoved
  <2>2. ASSUME NEW x \in Parts PROVE shelf[x] - Moved(t, x) = IF x = p THEN shelf[p] - q ELSE shelf[x]
    <3>1. PICK s \in Int : s = shelf[x]
      BY <1>2
    <3>2. s - 0 = s
      BY <3>1
    <3> QED
      BY <1>1, <3>1, <3>2
  <2> QED
    BY <1>2, <2>1, <2>2
<1>4. used' = [used EXCEPT ![<<j, p>>] = @ + q]
  <2>1. used' = [x \in Jobs \X Parts |-> used[x] + IF x[1] = j THEN Moved(t, x[2]) ELSE 0]
    BY DEF UsedMoved
  <2>2. ASSUME NEW x \in Jobs \X Parts
        PROVE  used[x] + (IF x[1] = j THEN Moved(t, x[2]) ELSE 0)
               = IF x = <<j, p>> THEN used[<<j, p>>] + q ELSE used[x]
    <3>1. PICK s \in Int : s = used[x]
      BY <1>2
    <3>2. s + 0 = s
      BY <3>1
    <3>3. PICK i \in Jobs, y \in Parts : x = <<i, y>>
      OBVIOUS
    <3>4. x[1] = i /\ x[2] = y /\ (x = <<j, p>> <=> i = j /\ y = p)
      BY <3>3
    <3> QED
      BY <1>1, <3>1, <3>2, <3>3, <3>4
  <2> QED
    BY <1>2, <2>1, <2>2
<1> QED
  BY <1>3, <1>4 DEF OffShelf

LEMMA TakeOutAtOnce ==
  ASSUME IInv, JInv, KInv, NEW t \in Txs, CommitTakeOut(t)
  PROVE  KInv' /\ \E j \in Jobs, p \in Parts, qty \in Amounts : TakeOut(j, p, qty)
<1>1. tx[t].at = "moving" /\ tx[t].want = {} /\ tx[t].req.does = "take out"
  BY DEF CommitTakeOut, Ready, Does
<1>2. PICK j \in Jobs, p \in Parts, q \in Amounts : j = tx[t].req.job /\ p = tx[t].req.part /\ q = tx[t].req.qty
  <2>1. tx[t].req.job \in Jobs
    BY <1>1 DEF IInv, Held, Orders
  <2>2. tx[t].req.part \in Parts /\ tx[t].req.qty \in Amounts
    BY <1>1 DEF JInv, Sure, TxFits, Under, KInv, StillAsked
  <2> QED
    BY <2>1, <2>2
<1>3. q \in Int /\ state[j] = "open" /\ Ledger
  <2>1. q \in Nat
    BY <1>2, AmountsAreCounted
  <2>2. q \in Int
    BY <2>1
  <2>3. Held(t) /\ Ledger
    BY DEF IInv, JInv
  <2>4. state[j] = "open"
    BY <1>1, <1>2, <2>3 DEF Held, Orders
  <2> QED
    BY <2>2, <2>3, <2>4
<1>4. DOMAIN tx[t].moves = {p} /\ tx[t].moves[p] = q
  BY <1>1, <1>2 DEF KInv, StillAsked, Under
<1>5. /\ Over(t) /\ UNCHANGED <<state, lines, next, docs>> /\ ShelfMoved(t) /\ UsedMoved(t)
      /\ reserved' = [reserved EXCEPT ![<<j, p>>] = @ - Max({0, Min({@, q})})]
  BY <1>2 DEF CommitTakeOut
<1>6. OffShelf(j, p, q)
  BY <1>2, <1>3, <1>4, <1>5, OffShelfIs DEF On
<1>7. TakeOut(j, p, q)
  BY <1>3, <1>5, <1>6 DEF TakeOut
<1>8. KInv'
  <2>1. Numbers' = Numbers
    BY <1>5 DEF Numbers
  <2> QED
    BY <1>5, <2>1, CommittedAndAsked
<1> QED
  BY <1>7, <1>8

\* What was not taken out is refused when it is put back.
LEMMA PutBackAtOnce ==
  ASSUME IInv, JInv, KInv, NEW t \in Txs, CommitPutBack(t)
  PROVE  KInv' /\ (Refuse \/ \E j \in Jobs, p \in Parts, qty \in Amounts : PutBack(j, p, qty))
<1>1. tx[t].at = "moving" /\ tx[t].want = {} /\ tx[t].req.does = "put back"
  BY DEF CommitPutBack, Ready, Does
<1>2. PICK j \in Jobs, p \in Parts, q \in Amounts : j = tx[t].req.job /\ p = tx[t].req.part /\ q = tx[t].req.qty
  <2>1. tx[t].req.job \in Jobs
    BY <1>1 DEF IInv, Held, Orders
  <2>2. tx[t].req.part \in Parts /\ tx[t].req.qty \in Amounts
    BY <1>1 DEF JInv, Sure, TxFits, Under, KInv, StillAsked
  <2> QED
    BY <2>1, <2>2
<1>3. -q \in Int /\ state[j] = "open" /\ Ledger
  <2>1. q \in Nat
    BY <1>2, AmountsAreCounted
  <2>2. -q \in Int
    BY <2>1
  <2>3. Held(t) /\ Ledger
    BY DEF IInv, JInv
  <2>4. state[j] = "open"
    BY <1>1, <1>2, <2>3 DEF Held, Orders
  <2> QED
    BY <2>2, <2>3, <2>4
<1>4. DOMAIN tx[t].moves = {p} /\ tx[t].moves[p] = -q
  BY <1>1, <1>2 DEF KInv, StillAsked, Under
<1>5. /\ Over(t) /\ UNCHANGED <<state, lines, reserved, next, docs>>
      /\ IF q <= used[j, p] THEN ShelfMoved(t) /\ UsedMoved(t) ELSE UNCHANGED <<shelf, used>>
  BY <1>2, Zenon DEF CommitPutBack, On
<1>6. Refuse \/ PutBack(j, p, q)
  <2>1. CASE q <= used[j, p]
    <3>1. ShelfMoved(t) /\ UsedMoved(t)
      BY <1>5, <2>1, Zenon
    <3>2. OffShelf(j, p, -q)
      BY <1>2, <1>3, <1>4, <3>1, OffShelfIs DEF On
    <3> QED
      BY <1>3, <1>5, <2>1, <3>2, Zenon DEF PutBack
  <2>2. CASE ~(q <= used[j, p])
    <3>1. UNCHANGED <<shelf, used>>
      BY <1>5, <2>2, Zenon
    <3>2. UNCHANGED <<state, lines, reserved, next, docs>>
      BY <1>5, Zenon
    <3> QED
      BY <3>1, <3>2 DEF Refuse, shop
  <2> QED
    BY <2>1, <2>2
<1>7. KInv'
  <2>1. Numbers' = Numbers /\ Over(t) /\ UNCHANGED <<lines, docs>>
    BY <1>5, Zenon DEF Numbers
  <2> QED
    BY <2>1, CommittedAndAsked
<1> QED
  BY <1>6, <1>7

LEMMA CountAtOnce ==
  ASSUME IInv, JInv, KInv, NEW t \in Txs, CommitCount(t)
  PROVE  KInv' /\ \E p \in Parts, qty \in Amounts : BookCount(p, qty)
<1>1. tx[t].at = "moving" /\ tx[t].want = {} /\ tx[t].req.does = "count" /\ ShelfMoved(t)
  BY DEF CommitCount, Ready, Does
<1>2. PICK p \in Parts, q \in Amounts : p = tx[t].req.part /\ q = tx[t].req.qty
  BY <1>1 DEF JInv, Sure, TxFits, Under, KInv, StillAsked
<1>3. Over(t) /\ UNCHANGED <<state, lines, reserved, used, next, docs>>
  BY DEF CommitCount
<1>4. q \in Int /\ shelf \in [Parts -> Int]
  BY <1>2, AmountsAreCounted DEF JInv, Ledger
<1>5. DOMAIN tx[t].moves = {p} /\ tx[t].moves[p] = shelf[p] - q
  BY <1>1, <1>2 DEF JInv, Sure, Moves, Movers
<1>6. shelf' = [shelf EXCEPT ![p] = q]
  <2>1. shelf' = [x \in Parts |-> shelf[x] - Moved(t, x)]
    BY <1>1 DEF ShelfMoved
  <2>2. ASSUME NEW x \in Parts PROVE shelf[x] - Moved(t, x) = IF x = p THEN q ELSE shelf[x]
    <3>1. PICK s \in Int : s = shelf[x]
      BY <1>4
    <3>2. s - 0 = s /\ s - (s - q) = q
      BY <1>4, <3>1
    <3> QED
      BY <1>5, <3>1, <3>2 DEF Moved
  <2> QED
    BY <1>4, <2>1, <2>2
<1>7. BookCount(p, q)
  BY <1>3, <1>6 DEF BookCount
<1>8. KInv'
  <2>1. Numbers' = Numbers
    BY <1>3 DEF Numbers
  <2> QED
    BY <1>3, <2>1, CommittedAndAsked
<1> QED
  BY <1>7, <1>8

\* Each step is one of the shop's, or leaves the books as they are.
LEMMA NextIsAtOnce == ASSUME IInv, JInv, KInv, [Next]_vars PROVE KInv' /\ [ShopNext]_shop
<1>1. ASSUME NEW t \in Txs, Step(t) PROVE KInv' /\ [ShopNext]_shop
  <2>1. CASE OpenOrder(t)
    BY <2>1, OpenIsAsked DEF OpenOrder
  <2>2. CASE Refer(t) \/ Reserve(t) \/ Move(t) \/ TakeNumber(t)
    BY <2>2, WaitingIsAsked DEF Refer, Reserve, Move, TakeNumber, shop
  <2>3. CASE HoldCredited(t)
    BY <2>3, CreditIsAsked DEF HoldCredited
  <2>4. CASE HoldRebilled(t)
    BY <2>4, RebillIsAsked DEF HoldRebilled
  <2>5. CASE HoldCounted(t)
    BY <2>5, CountIsAsked DEF HoldCounted
  <2>6. CASE CommitInvoice(t)
    BY <2>6, InvoiceAtOnce DEF ShopNext
  <2>7. CASE CommitCorrection(t)
    BY <2>7, CorrectionAtOnce DEF ShopNext
  <2>8. CASE CommitLine(t)
    BY <2>8, LineAtOnce DEF ShopNext
  <2>9. CASE CommitTakeOut(t)
    BY <2>9, TakeOutAtOnce DEF ShopNext
  <2>10. CASE CommitPutBack(t)
    BY <2>10, PutBackAtOnce DEF ShopNext
  <2>11. CASE CommitCount(t)
    BY <2>11, CountAtOnce DEF ShopNext
  <2>12. CASE RollBack(t)
    <3>1. UNCHANGED shop /\ tx'[t] = Idle /\ \A u \in Txs \ {t} : tx'[u] = tx[u]
      BY <2>12, OverKeepsApart DEF RollBack, IInv
    <3>2. StillAsked(t)'
      BY <3>1 DEF StillAsked, Under, Idle
    <3> QED
      BY <3>1, <3>2, QuietAndAsked
  <2> QED
    BY <1>1, <2>1, <2>2, <2>3, <2>4, <2>5, <2>6, <2>7, <2>8, <2>9, <2>10, <2>11, <2>12 DEF Step
<1>2. CASE UNCHANGED vars
  <2>1. UNCHANGED shop /\ \A t \in Txs : tx'[t] = tx[t]
    BY <1>2 DEF vars
  <2>2. KInv'
    BY <2>1, AskedOfTheSame DEF KInv
  <2> QED
    BY <2>1, <2>2
<1> QED
  BY <1>1, <1>2 DEF Next

\* The third inductive invariant: what was asked can still be done as it was
\* asked -- there is something to bill, the form was not answered yet, as much
\* is moved as was to be.
THEOREM WhatWasAskedIsSo == Spec => []KInv
<1>1. Init => KInv
  <2> SUFFICES ASSUME Init, NEW t \in Txs PROVE StillAsked(t)
    BY DEF KInv
  <2>1. tx[t] = Idle
    BY DEF Init
  <2> QED
    BY <2>1 DEF StillAsked, Under, Idle
<1>2. IInv /\ JInv /\ KInv /\ [Next]_vars => KInv'
  BY NextIsAtOnce
<1> QED
  BY <1>1, <1>2, TransactionsKeepApart, WhatWasDecidedIsSo, PTL DEF Spec

\* However many transactions are under way at once, in whatever order they get
\* their rows and whichever of them fail, the shop comes to what it would have
\* come to had each been done at once when it was committed (invoice.go:142,
\* credit.go:403, takeout.go:82, stock.go:728).
THEOREM OneAtATime == Spec => ShopSpec
<1>1. Init => ShopInit
  BY DEF Init
<1>2. IInv /\ JInv /\ KInv /\ [Next]_vars => [ShopNext]_shop
  BY NextIsAtOnce
<1> QED
  BY <1>1, <1>2, TransactionsKeepApart, WhatWasDecidedIsSo, WhatWasAskedIsSo, PTL DEF Spec, ShopSpec

\* The documents come one after the other, and correct earlier ones.
InOrder ==
  /\ next \in Nat \ {0} /\ Numbers = 1..(next - 1)
  /\ \A m \in Numbers : docs[m].of \in Int /\ docs[m].of < m

LEMMA DocPut ==
  ASSUME InOrder, FormsCountOnce, NEW n \in Int, n < next, NEW k, NEW doc, doc.of = n, doc.key = k,
         n \notin Numbers \/ ~KeyUsed(n, k), next' = next + 1, PutDoc(doc)
  PROVE  InOrder' /\ FormsCountOnce'
<1>1. /\ Numbers' = Numbers \cup {next} /\ next \notin Numbers /\ docs'[next] = doc
      /\ \A m \in Numbers : docs'[m] = docs[m]
  BY DEF PutDoc, Numbers, InOrder
<1>2. InOrder'
  BY <1>1 DEF InOrder
<1>3. ASSUME NEW i \in Numbers', NEW l \in Corrections(i)', NEW m \in Corrections(i)',
             docs'[l].key = docs'[m].key
      PROVE  l = m
  <2>1. i \in Numbers
    <3>1. l \in Numbers' /\ docs'[l].of = i
      BY <1>3 DEF Corrections
    <3>2. i < next
      BY <1>1, <3>1 DEF InOrder
    <3> QED
      BY <1>1, <3>2 DEF InOrder
  <2>2. ASSUME NEW x, x \in Corrections(i)' PROVE x \in Corrections(i) \/ (x = next /\ i = n)
    <3>1. x \in Numbers' /\ docs'[x].of = i
      BY <2>2 DEF Corrections
    <3>2. CASE x \in Numbers
      BY <1>1, <3>1, <3>2 DEF Corrections
    <3>3. CASE x = next
      BY <1>1, <3>1, <3>3
    <3> QED
      BY <1>1, <3>1, <3>2, <3>3
  <2>3. \A x \in Corrections(i) : docs'[x] = docs[x] /\ x \in Numbers
    BY <1>1 DEF Corrections
  <2>4. CASE l \in Corrections(i) /\ m \in Corrections(i)
    BY <1>3, <2>1, <2>3, <2>4 DEF FormsCountOnce
  <2>5. ASSUME NEW x \in Corrections(i), i = n, docs'[x].key = docs'[next].key PROVE FALSE
    BY <1>1, <2>1, <2>3, <2>5 DEF KeyUsed
  <2> QED
    BY <1>3, <2>2, <2>4, <2>5
<1> QED
  BY <1>2, <1>3 DEF FormsCountOnce

LEMMA ShopKeepsOrder == ASSUME InOrder, FormsCountOnce, [ShopNext]_shop PROVE InOrder' /\ FormsCountOnce'
<1>1. CASE UNCHANGED <<next, docs>>
  BY <1>1 DEF InOrder, FormsCountOnce, Corrections, Numbers
<1>2. ASSUME NEW j \in Jobs, Issue(j) PROVE InOrder' /\ FormsCountOnce'
  <2> DEFINE doc == [kind |-> "invoice", of |-> 0, job |-> j, key |-> NoKey, lines |-> AsBilled(j)]
  <2>1. next' = next + 1 /\ PutDoc(doc) /\ doc.of = 0 /\ doc.key = NoKey
    BY <1>2 DEF Issue
  <2>2. 0 \notin Numbers /\ 0 < next
    BY DEF InOrder
  <2> HIDE DEF doc
  <2> QED
    BY <2>1, <2>2, DocPut
<1>3. ASSUME NEW n \in Numbers, NEW kind, NEW ls, Answer(n, kind, ls), next' = next + 1
      PROVE  InOrder' /\ FormsCountOnce'
  <2>1. PICK k \in Keys :
          /\ ~KeyUsed(n, k)
          /\ PutDoc([kind |-> kind, of |-> n, job |-> docs[n].job, key |-> k, lines |-> ls])
    BY <1>3 DEF Answer
  <2> DEFINE doc == [kind |-> kind, of |-> n, job |-> docs[n].job, key |-> k, lines |-> ls]
  <2>2. PutDoc(doc) /\ doc.of = n /\ doc.key = k
    BY <2>1
  <2>3. n \in Int /\ n < next
    BY DEF InOrder
  <2> HIDE DEF doc
  <2> QED
    BY <1>3, <2>1, <2>2, <2>3, DocPut
<1>4. CASE Correct
  <2>1. PICK n \in Numbers : Rebill(n) \/ \E wish \in Wishes : Credit(n, wish)
    BY <1>4 DEF Correct
  <2>2. next' = next + 1
    BY <1>4 DEF Correct
  <2> QED
    BY <1>3, <2>1, <2>2 DEF Rebill, Credit
<1>5. CASE ShopNext
  BY <1>1, <1>2, <1>4, <1>5 DEF ShopNext, Refuse, shop, AddLine, TakeOut, PutBack, BookCount
<1> QED
  BY <1>1, <1>5 DEF shop

\* A form sent twice, from however many windows at once, makes one document
\* (credit.go:402, 554-567): that follows from doing one thing at a time.
THEOREM FormsAreAnsweredOnce == Spec => []FormsCountOnce
<1>1. ShopInit => InOrder /\ FormsCountOnce
  <2> SUFFICES ASSUME ShopInit PROVE InOrder /\ FormsCountOnce
    OBVIOUS
  <2>1. Numbers = {} /\ next = 1
    BY DEF ShopInit, Numbers
  <2>2. 1..(next - 1) = {}
    BY <2>1
  <2> QED
    BY <2>1, <2>2 DEF InOrder, FormsCountOnce
<1>2. InOrder /\ FormsCountOnce /\ [ShopNext]_shop => InOrder' /\ FormsCountOnce'
  BY ShopKeepsOrder
<1> QED
  BY <1>1, <1>2, OneAtATime, PTL DEF ShopSpec
==============================================================================
