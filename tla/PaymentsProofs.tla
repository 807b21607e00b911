--------------------------- MODULE PaymentsProofs ---------------------------
(***************************************************************************)
(* About the payment journal, for any invoices, deposits, payouts,         *)
(* connections, keys and amounts, in three layers of an invariant.         *)
(*                                                                         *)
(* IInv: a key moves money once, and nobody who moves money waits for      *)
(* somebody who waits for them.  The first rests on the series, held from  *)
(* the look at the unique index to the commit (HasSeries); the second on   *)
(* every transaction locking its rows upwards: deposits, invoices, the     *)
(* series, jobs (Climbs), for which an application has to be of a deposit  *)
(* to an invoice wherever it is kept (Pairs, Own, Asked).                  *)
(*                                                                         *)
(* MoneyInv: nothing pays out more than came in.  A row says of the        *)
(* journal only what is so (Lawful), the halves of an application are      *)
(* decided, reversed and looked at together (HalvesAreWhole, Looked,       *)
(* Written), and what the database let in still is let in at the commit,   *)
(* since nobody else is past the series (StillLetIn).                      *)
(*                                                                         *)
(* PayInv: what was decided still holds at the commit.  Whatever it was    *)
(* decided from is locked until then: what the rows are against (Under)    *)
(* and, for closing the job, the job (Closing).                            *)
(*                                                                         *)
(* Then what one rental comes to, RentalMoney, whose invariant is          *)
(* RentalInv: for any charges, invoices and requests.  At the end both in  *)
(* the parts that a run looks at, and from where it starts.                *)
(***************************************************************************)
EXTENDS MCPaymentsParts, CommonProofs, SequenceTheorems

Fields    == {"at", "req", "seen", "want", "rows", "closes"}
RowFields == {"on", "amount", "rounding", "deposit", "reverses", "refunds", "key"}

IsSeq(s) == s \in Seq({s[k] : k \in DOMAIN s})
IsRow(r) == DOMAIN r = RowFields /\ r.on \in Invoices \cup Deposits \cup Payouts
\* Rows that can be a request's.
Writable(s) ==
  /\ IsSeq(s) /\ \A k \in DOMAIN s : IsRow(s[k])
  /\ \A k, l \in DOMAIN s : s[k].key # NoKey /\ s[k].key = s[l].key => k = l
Pair(s) == Len(s) = 2 /\ s[1].on \in Deposits /\ s[2].on \in Invoices

Shape ==
  /\ DOMAIN tx = Txs /\ \A t \in Txs : DOMAIN tx[t] = Fields
  /\ IsSeq(rows) /\ \A n \in Numbers : IsRow(rows[n])
Pairs ==
  \A h \in halves : /\ h[1] \in Numbers /\ rows[h[1]].on \in Deposits
                    /\ h[2] \in Numbers /\ rows[h[2]].on \in Invoices

Own(t) ==
  /\ Writable(tx[t].rows)
  /\ tx[t].at \in {"writing", "closing", "ending"} /\ Does(t, "apply") => Pair(tx[t].rows)
Asked(t) ==
  tx[t].at = "locking" =>
    /\ Does(t, "apply") => /\ tx[t].req.from \in Deposits /\ tx[t].req.on \in Invoices
                           /\ tx[t].want = <<tx[t].req.on>>
    /\ ~Does(t, "apply") => tx[t].req.does \in {"refund", "reverse"} /\ tx[t].req.row \in Numbers
    /\ Does(t, "reverse") /\ rows[tx[t].req.row].deposit => IsHalf(tx[t].req.row)

\* The order rows are locked in.
Rank(row) == IF row[1] = "target" THEN IF row[2] \in Deposits THEN 1 ELSE 2
             ELSE IF row[1] = "series" THEN 3 ELSE 4
HoldsUpTo(t, k) == \A h \in holds[t] : Rank(h[1]) <= k
Climbs(t) ==
  /\ tx[t].at = "idle" => holds[t] = {}
  /\ tx[t].at = "locking" =>
       \/ tx[t].want = <<>> /\ holds[t] = {}
       \/ \E x \in Deposits : tx[t].want = <<x>> /\ holds[t] = {}
       \/ \E x \in Invoices : tx[t].want = <<x>> /\ HoldsUpTo(t, 1)
       \/ \E d \in Deposits, i \in Invoices : tx[t].want = <<d, i>> /\ holds[t] = {}
  /\ tx[t].at = "writing" => HoldsUpTo(t, 2)
  /\ tx[t].at = "closing" => HoldsUpTo(t, 3)

HasSeries(t) ==
  tx[t].at \in {"closing", "ending"} =>
    /\ <<SeriesRow, "update">> \in holds[t]
    /\ \A k \in DOMAIN tx[t].rows : ~KeyUsed(tx[t].rows[k].key)

Stage(t) == tx[t].at \in {"idle", "locking", "writing", "closing", "ending"}
Good(t)  == Stage(t) /\ Own(t) /\ Asked(t) /\ Climbs(t) /\ HasSeries(t)

IInv == Shape /\ LocksHold /\ Pairs /\ (\A t \in Txs : Good(t)) /\ OneRowPerKey

-----------------------------------------------------------------------------
(* Sequences of rows.                                                      *)

LEMMA SeqOfItsElements == ASSUME NEW S, NEW s \in Seq(S) PROVE IsSeq(s)
BY DEF IsSeq

LEMMA EmptyIsWritable == Writable(<<>>)
BY DEF Writable, IsSeq

LEMMA OneIsWritable == ASSUME NEW r, IsRow(r) PROVE Writable(<<r>>)
BY DEF Writable, IsSeq

LEMMA TwoAreWritable ==
  ASSUME NEW r, NEW q, IsRow(r), IsRow(q), r.key = NoKey \/ r.key # q.key
  PROVE  Writable(<<r, q>>)
BY DEF Writable, IsSeq

LEMMA OneAndOne ==
  ASSUME NEW a, NEW b
  PROVE  /\ <<>> \o <<>> = <<>> /\ <<a>> \o <<>> = <<a>>
         /\ <<>> \o <<b>> = <<b>> /\ <<a>> \o <<b>> = <<a, b>>
<1>1. <<>> \in Seq({a, b}) /\ <<a>> \in Seq({a, b}) /\ <<b>> \in Seq({a, b})
  OBVIOUS
<1>2. /\ <<>> \o <<>> = <<>> /\ <<a>> \o <<>> = <<a>> /\ <<>> \o <<b>> = <<b>>
  BY <1>1, ConcatEmptySeq
<1>3. <<a>> \o <<b>> = <<a, b>>
  <2> DEFINE s == <<a>> \o <<b>>
  <2>1. /\ s \in Seq({a, b}) /\ Len(s) = 2 /\ s[1] = a /\ s[2] = b
    BY <1>1, ConcatProperties
  <2> HIDE DEF s
  <2>2. <<a, b>> \in Seq({a, b}) /\ Len(<<a, b>>) = 2 /\ <<a, b>>[1] = a /\ <<a, b>>[2] = b
    OBVIOUS
  <2>3. s = <<a, b>>
    BY <2>1, <2>2, \A k \in 1..2 : k = 1 \/ k = 2, SeqEqual
  <2> QED
    BY <2>3 DEF s
<1> QED
  BY <1>2, <1>3

LEMMA Appended ==
  ASSUME NEW s, NEW w, IsSeq(s), IsSeq(w)
  PROVE  /\ IsSeq(s \o w) /\ Len(s) \in Nat /\ Len(w) \in Nat
         /\ DOMAIN s = 1..Len(s) /\ DOMAIN w = 1..Len(w)
         /\ DOMAIN (s \o w) = 1..(Len(s) + Len(w))
         /\ \A k \in DOMAIN s : k \in DOMAIN (s \o w) /\ (s \o w)[k] = s[k]
         /\ \A k \in DOMAIN w : Len(s) + k \in DOMAIN (s \o w) /\ (s \o w)[Len(s) + k] = w[k]
         /\ \A k \in DOMAIN (s \o w) : k \in DOMAIN s \/ k - Len(s) \in DOMAIN w
<1> DEFINE S == {s[k] : k \in DOMAIN s} \cup {w[k] : k \in DOMAIN w}
<1>1. s \in Seq(S) /\ w \in Seq(S)
  BY DEF IsSeq
<1> HIDE DEF S
<1>2. /\ s \o w \in Seq(S) /\ Len(s \o w) = Len(s) + Len(w)
      /\ \A i \in 1..Len(s) + Len(w) : (s \o w)[i] = IF i <= Len(s) THEN s[i] ELSE w[i - Len(s)]
  BY <1>1, ConcatProperties
<1>3. IsSeq(s \o w)
  BY <1>2, SeqOfItsElements
<1>4. /\ Len(s) \in Nat /\ Len(w) \in Nat /\ DOMAIN s = 1..Len(s) /\ DOMAIN w = 1..Len(w)
      /\ DOMAIN (s \o w) = 1..(Len(s) + Len(w))
  BY <1>1, <1>2
<1> QED
  BY <1>2, <1>3, <1>4

-----------------------------------------------------------------------------
(* Steps.                                                                  *)

LEMMA InitIsGood == Init => IInv
<1> SUFFICES ASSUME Init PROVE IInv
  OBVIOUS
<1> USE DEF Init
<1>1. Shape
  BY DEF Shape, Fields, Idle, IsSeq, Numbers
<1>2. LocksHold
  BY DEF NothingHeld, LocksHold, Modes, Apart
<1>3. \A t \in Txs : Good(t)
  <2> SUFFICES ASSUME NEW t \in Txs PROVE Good(t)
    OBVIOUS
  <2>1. tx[t] = Idle /\ holds[t] = {}
    BY DEF NothingHeld
  <2>2. tx[t].at = "idle" /\ tx[t].rows = <<>>
    BY <2>1 DEF Idle
  <2>3. Own(t)
    BY <2>2, EmptyIsWritable DEF Own
  <2> QED
    BY <2>1, <2>2, <2>3 DEF Good, Stage, Asked, Climbs, HasSeries
<1>4. Pairs /\ OneRowPerKey
  BY DEF Pairs, OneRowPerKey, Numbers
<1> QED
  BY <1>1, <1>2, <1>3, <1>4 DEF IInv

\* A transaction that locks a row holds that row more, and nobody else any.
LEMMA LockAdds ==
  ASSUME LocksHold, NEW t \in Txs, NEW row, Lock(t, row, "update")
  PROVE  /\ LocksHold' /\ holds'[t] = holds[t] \cup {<<row, "update">>}
         /\ \A u \in Txs \ {t} : holds'[u] = holds[u]
<1>1. LocksHold' /\ \A u \in Txs \ {t} : holds'[u] = holds[u]
  BY LockKeepsApart
<1>2. holds'[t] = holds[t] \cup {<<row, "update">>}
  BY DEF Lock, LocksHold
<1> QED
  BY <1>1, <1>2

\* What is said of a transaction stays so while the journal and it stay.
LEMMA OthersStayGood ==
  ASSUME NEW u \in Txs, Good(u), UNCHANGED <<rows, halves>>, tx'[u] = tx[u], holds'[u] = holds[u]
  PROVE  Good(u)'
<1>1. Own(u)'
  BY DEF Good, Own, Does
<1>2. Asked(u)'
  BY DEF Good, Asked, Does, Numbers, IsHalf
<1>3. Climbs(u)'
  BY DEF Good, Climbs, HoldsUpTo
<1>4. HasSeries(u)'
  BY DEF Good, HasSeries, KeyUsed, Numbers
<1> QED
  BY <1>1, <1>2, <1>3, <1>4 DEF Good, Stage

\* What a transaction has to write stays what it was decided to be.
LEMMA OwnStays ==
  ASSUME NEW t \in Txs, Own(t), tx'[t].rows = tx[t].rows,
         \/ tx'[t].at \in {"idle", "locking"}
         \/ tx[t].at \in {"writing", "closing", "ending"} /\ tx'[t].req = tx[t].req
  PROVE  Own(t)'
<1>1. Writable(tx[t].rows)
  BY DEF Own
<1>2. Writable(tx'[t].rows)
  BY <1>1
<1>3. Does(t, "apply")' /\ tx'[t].at \in {"writing", "closing", "ending"} => Pair(tx'[t].rows)
  BY DEF Own, Does
<1> QED
  BY <1>2, <1>3 DEF Own, Writable, IsSeq, IsRow, Pair

\* A transaction went on without committing anything.
LEMMA QuietStep ==
  ASSUME IInv, NEW t \in Txs, UNCHANGED <<rows, halves>>, LocksHold',
         DOMAIN tx' = Txs, DOMAIN tx'[t] = Fields,
         \A u \in Txs \ {t} : tx'[u] = tx[u] /\ holds'[u] = holds[u],
         Good(t)'
  PROVE  IInv'
<1>1. Shape'
  BY DEF IInv, Shape, Numbers
<1>2. Pairs'
  BY DEF IInv, Pairs, Numbers
<1>3. OneRowPerKey'
  BY DEF IInv, OneRowPerKey, Numbers
<1>4. \A u \in Txs : Good(u)'
  BY OthersStayGood DEF IInv
<1> QED
  BY <1>1, <1>2, <1>3, <1>4 DEF IInv

\* Nobody's transaction went on.
LEMMA StillStep == ASSUME IInv, UNCHANGED <<rows, halves, tx, holds>> PROVE IInv'
<1>1. Shape' /\ Pairs' /\ OneRowPerKey'
  BY DEF IInv, Shape, Pairs, OneRowPerKey, Numbers, IsSeq, IsRow
<1>2. LocksHold'
  BY DEF IInv, LocksHold, Modes, Apart
<1>3. \A u \in Txs : Good(u)'
  BY OthersStayGood DEF IInv
<1> QED
  BY <1>1, <1>2, <1>3 DEF IInv

\* The rows are decided, under locks no higher than an invoice.
LEMMA DecideStep ==
  ASSUME IInv, NEW t \in Txs, NEW r, NEW w, Decided(t, r, w), UNCHANGED <<rows, halves>>,
         LocksHold', \A u \in Txs \ {t} : holds'[u] = holds[u],
         HoldsUpTo(t, 2)', Writable(w), r.does = "apply" => Pair(w)
  PROVE  IInv'
<1>1. DOMAIN tx = Txs /\ DOMAIN tx[t] = Fields
  BY DEF IInv, Shape
<1>2. DOMAIN tx' = Txs /\ DOMAIN tx'[t] = Fields /\ \A u \in Txs \ {t} : tx'[u] = tx[u]
  BY <1>1, Zenon DEF Decided
<1>3. tx'[t].at = "writing" /\ tx'[t].req = r /\ tx'[t].rows = w
  BY <1>1, Zenon DEF Decided, Fields
<1>4. Own(t)'
  BY <1>3 DEF Own, Does, Writable, IsSeq, IsRow, Pair
<1>5. Asked(t)' /\ Climbs(t)' /\ HasSeries(t)' /\ Stage(t)'
  BY <1>3 DEF Asked, Climbs, HasSeries, Stage
<1> QED
  BY <1>2, <1>4, <1>5, QuietStep DEF Good

\* A deposit is locked below an invoice, both below the rest.
LEMMA Ranks ==
  /\ \A x \in Deposits : Rank(Target(x)) = 1
  /\ \A x \in Invoices : Rank(Target(x)) = 2
  /\ Rank(SeriesRow) = 3 /\ \A x : Rank(JobRow(x)) = 4
BY TargetsDiffer DEF Rank, Target, SeriesRow, JobRow

\* The first and only row of a request.
LEMMA FirstLock ==
  ASSUME IInv, NEW t \in Txs, tx[t].at = "idle", NEW x \in Deposits \cup Invoices, LockTarget(t, x)
  PROVE  /\ LocksHold' /\ \A u \in Txs \ {t} : holds'[u] = holds[u]
         /\ HoldsUpTo(t, 2)' /\ (x \in Deposits => HoldsUpTo(t, 1)')
<1>1. /\ LocksHold' /\ holds'[t] = holds[t] \cup {<<Target(x), "update">>}
      /\ \A u \in Txs \ {t} : holds'[u] = holds[u]
  BY LockAdds DEF LockTarget, IInv
<1>2. holds[t] = {}
  BY DEF IInv, Good, Climbs
<1>3. \A h \in holds'[t] : h[1] = Target(x)
  BY <1>1, <1>2
<1>4. HoldsUpTo(t, 2)' /\ (x \in Deposits => HoldsUpTo(t, 1)')
  BY <1>3, Ranks DEF HoldsUpTo
<1> QED
  BY <1>1, <1>4

\* An invoice locked after a deposit.
LEMMA LockedOnTop ==
  ASSUME NEW t \in Txs, NEW x \in Invoices, HoldsUpTo(t, 1),
         holds'[t] = holds[t] \cup {<<Target(x), "update">>}
  PROVE  HoldsUpTo(t, 2)'
<1> SUFFICES ASSUME NEW h \in holds'[t] PROVE Rank(h[1]) <= 2
  BY DEF HoldsUpTo
<1>1. Rank(h[1]) \in {1, 2, 3, 4}
  BY DEF Rank
<1>2. CASE h \in holds[t]
  BY <1>1, <1>2 DEF HoldsUpTo
<1>3. CASE h[1] = Target(x)
  BY <1>3, Ranks
<1> QED
  BY <1>2, <1>3

LEMMA MovedIsRow ==
  ASSUME NEW x \in Invoices \cup Deposits \cup Payouts, NEW a, NEW k
  PROVE  IsRow(Moved(x, a, k)) /\ Moved(x, a, k).key = k /\ Moved(x, a, k).on = x
BY DEF IsRow, Moved, RowFields

LEMMA PayStep == ASSUME IInv, NEW t \in Txs, Pay(t) PROVE IInv'
<1>1. PICK r \in Paid :
        /\ LockTarget(t, r.on)
        /\ Decided(t, r, <<IF r.amount = 0 THEN Settlement(r) ELSE Moved(r.on, r.amount, r.key)>>)
  BY DEF Pay
<1>2. tx[t].at = "idle" /\ UNCHANGED <<rows, halves>>
  BY DEF Pay, Ready, books
<1>3. r.on \in Invoices /\ r.does = "pay"
  BY DEF Paid
<1> DEFINE row == IF r.amount = 0 THEN Settlement(r) ELSE Moved(r.on, r.amount, r.key)
<1>4. IsRow(row)
  <2>1. IsRow(Moved(r.on, r.amount, r.key))
    BY <1>3, MovedIsRow
  <2>2. IsRow(Settlement(r))
    BY <1>3 DEF Settlement, Moved, IsRow, RowFields
  <2> QED
    BY <2>1, <2>2
<1> HIDE DEF row
<1>5. Decided(t, r, <<row>>)
  BY <1>1 DEF row
<1>6. Writable(<<row>>)
  BY <1>4, OneIsWritable
<1>7. /\ LocksHold' /\ \A u \in Txs \ {t} : holds'[u] = holds[u]
      /\ HoldsUpTo(t, 2)'
  BY <1>1, <1>2, <1>3, FirstLock
<1> QED
  BY <1>2, <1>3, <1>5, <1>6, <1>7, DecideStep

LEMMA ReceiveStep == ASSUME IInv, NEW t \in Txs, Receive(t) PROVE IInv'
<1>1. PICK r \in Received :
        LockTarget(t, r.on) /\ Decided(t, r, <<Moved(r.on, r.amount, r.key)>>)
  BY DEF Receive
<1>2. tx[t].at = "idle" /\ UNCHANGED <<rows, halves>>
  BY DEF Receive, Ready, books
<1>3. r.on \in Deposits /\ r.does = "receive"
  BY DEF Received
<1>4. Writable(<<Moved(r.on, r.amount, r.key)>>)
  BY <1>3, MovedIsRow, OneIsWritable
<1>5. /\ LocksHold' /\ \A u \in Txs \ {t} : holds'[u] = holds[u]
      /\ HoldsUpTo(t, 2)'
  BY <1>1, <1>2, <1>3, FirstLock
<1> QED
  BY <1>1, <1>2, <1>3, <1>4, <1>5, DecideStep

LEMMA PayOutStep == ASSUME IInv, NEW t \in Txs, PayOut(t) PROVE IInv'
<1>1. PICK r \in PaidOut : Decided(t, r, <<Moved(r.on, -r.amount, r.key)>>)
  BY DEF PayOut
<1>2. tx[t].at = "idle" /\ UNCHANGED <<rows, halves, holds>>
  BY DEF PayOut, Ready, books
<1>3. r.on \in Payouts /\ r.does = "pay out"
  BY DEF PaidOut
<1>4. Writable(<<Moved(r.on, -r.amount, r.key)>>)
  BY <1>3, MovedIsRow, OneIsWritable
<1>5. LocksHold' /\ HoldsUpTo(t, 2)'
  BY <1>2 DEF IInv, LocksHold, Modes, Apart, Good, Climbs, HoldsUpTo
<1> QED
  BY <1>1, <1>2, <1>3, <1>4, <1>5, DecideStep

LEMMA ApplyStep == ASSUME IInv, NEW t \in Txs, Apply(t) PROVE IInv'
<1>1. PICK r \in Applied :
        /\ LockTarget(t, r.from)
        /\ tx' = [tx EXCEPT ![t].at = "locking", ![t].req = r, ![t].want = <<r.on>>]
  BY DEF Apply
<1>2. tx[t].at = "idle" /\ UNCHANGED <<rows, halves>>
  BY DEF Apply, Ready, books
<1>3. r.from \in Deposits /\ r.on \in Invoices /\ r.does = "apply"
  BY DEF Applied
<1>4. DOMAIN tx = Txs /\ DOMAIN tx[t] = Fields
  BY DEF IInv, Shape
<1>5. DOMAIN tx' = Txs /\ DOMAIN tx'[t] = Fields /\ \A u \in Txs \ {t} : tx'[u] = tx[u]
  BY <1>1, <1>4, Zenon
<1>6. tx'[t].at = "locking" /\ tx'[t].req = r /\ tx'[t].want = <<r.on>> /\ tx'[t].rows = tx[t].rows
  BY <1>1, <1>4, Zenon DEF Fields
<1>7. /\ LocksHold' /\ \A u \in Txs \ {t} : holds'[u] = holds[u]
      /\ HoldsUpTo(t, 1)'
  BY <1>1, <1>2, <1>3, FirstLock
<1>8. Own(t)'
  BY <1>6, OwnStays DEF IInv, Good
<1>9. Asked(t)' /\ Climbs(t)' /\ HasSeries(t)' /\ Stage(t)'
  BY <1>3, <1>6, <1>7 DEF Asked, Does, Climbs, HasSeries, Stage
<1> QED
  BY <1>2, <1>5, <1>7, <1>8, <1>9, QuietStep DEF Good

LEMMA DecideApplyStep == ASSUME IInv, NEW t \in Txs, DecideApply(t) PROVE IInv'
<1> DEFINE r == tx[t].req
           out == [Moved(r.from, -r.amount, r.key) EXCEPT !.deposit = TRUE]
           in  == [Moved(r.on, r.amount, NoKey) EXCEPT !.deposit = TRUE]
<1>1. /\ tx[t].at = "locking" /\ r.does = "apply" /\ LockTarget(t, r.on)
      /\ Decided(t, r, <<out, in>>) /\ UNCHANGED <<rows, halves>>
  BY DEF DecideApply, Does, books
<1>2. r.from \in Deposits /\ r.on \in Invoices /\ tx[t].want = <<r.on>>
  BY <1>1 DEF IInv, Good, Asked, Does
<1>3. IsRow(out) /\ IsRow(in) /\ in.key = NoKey /\ out.on = r.from /\ in.on = r.on
  BY <1>2 DEF Moved, IsRow, RowFields
<1> HIDE DEF out, in
<1>4. Writable(<<out, in>>)
  BY <1>3, TwoAreWritable
<1>5. Pair(<<out, in>>)
  BY <1>2, <1>3 DEF Pair
<1>6. /\ LocksHold' /\ holds'[t] = holds[t] \cup {<<Target(r.on), "update">>}
      /\ \A u \in Txs \ {t} : holds'[u] = holds[u]
  BY <1>1, LockAdds DEF LockTarget, IInv
<1>7. HoldsUpTo(t, 1)
  <2>1. r.on \notin Deposits
    BY <1>2, TargetsDiffer
  <2>2. \A x : tx[t].want = <<x>> => x = r.on
    BY <1>2
  <2> QED
    BY <1>1, <1>2, <2>1, <2>2 DEF IInv, Good, Climbs, HoldsUpTo
<1>8. HoldsUpTo(t, 2)'
  BY <1>2, <1>6, <1>7, LockedOnTop
<1> QED
  BY <1>1, <1>4, <1>5, <1>6, <1>8, DecideStep

\* Looking at a payment tells which rows to lock, and in which order.
LEMMA LookStep == ASSUME IInv, NEW t \in Txs, Look(t) PROVE IInv'
<1>1. PICK r \in Refunding \cup Reversing :
        /\ IF r.does = "refund" THEN IsReceipt(r.row) /\ ~Reversed(r.row)
           ELSE IF rows[r.row].deposit THEN IsHalf(r.row) ELSE rows[r.row].reverses = 0
        /\ \E k : tx' = [tx EXCEPT ![t].at = "locking", ![t].req = r, ![t].want = ToLock(r.row),
                                   ![t].seen = k]
  BY DEF Look
<1>2. tx[t].at = "idle" /\ UNCHANGED <<rows, halves, holds>>
  BY DEF Look, Ready, books
<1>3. r.row \in Numbers /\ r.does \in {"refund", "reverse"}
  BY DEF Refunding, Reversing
<1>4. DOMAIN tx = Txs /\ DOMAIN tx[t] = Fields
  BY DEF IInv, Shape
<1> DEFINE want == ToLock(r.row)
<1> HIDE DEF want
<1>5. PICK k : tx' = [tx EXCEPT ![t].at = "locking", ![t].req = r, ![t].want = want, ![t].seen = k]
  BY <1>1 DEF want
<1>6. DOMAIN tx' = Txs /\ DOMAIN tx'[t] = Fields /\ \A u \in Txs \ {t} : tx'[u] = tx[u]
  BY <1>4, <1>5, Zenon
<1>7. tx'[t].at = "locking" /\ tx'[t].req = r /\ tx'[t].want = want /\ tx'[t].rows = tx[t].rows
  BY <1>4, <1>5, Zenon DEF Fields
<1>8. \/ want = <<>>
      \/ \E x \in Deposits \cup Invoices : want = <<x>>
      \/ \E d \in Deposits, i \in Invoices : want = <<d, i>>
  <2>1. CASE rows[r.row].deposit
    <3>1. IsHalf(r.row)
      BY <1>1, <1>3, <2>1 DEF IsReceipt
    <3>2. HalvesOf(r.row) \in halves
      BY <3>1 DEF IsHalf, HalvesOf
    <3>3. rows[HalvesOf(r.row)[1]].on \in Deposits /\ rows[HalvesOf(r.row)[2]].on \in Invoices
      BY <3>2 DEF IInv, Pairs
    <3>4. want = <<rows[HalvesOf(r.row)[1]].on, rows[HalvesOf(r.row)[2]].on>>
      BY <2>1 DEF ToLock, want
    <3> QED
      BY <3>3, <3>4
  <2>2. CASE ~rows[r.row].deposit
    <3>1. rows[r.row].on \in Invoices \cup Deposits \cup Payouts
      BY <1>3 DEF IInv, Shape, IsRow
    <3>2. want = IF rows[r.row].on \in Payouts THEN <<>> ELSE <<rows[r.row].on>>
      BY <2>2 DEF ToLock, want
    <3> QED
      BY <3>1, <3>2
  <2> QED
    BY <2>1, <2>2
<1>9. holds'[t] = {} /\ LocksHold'
  BY <1>2 DEF IInv, Good, Climbs, LocksHold, Modes, Apart
<1>10. Climbs(t)'
  BY <1>7, <1>8, <1>9 DEF Climbs, HoldsUpTo
<1>11. Own(t)'
  BY <1>7 DEF IInv, Good, Own, Writable, IsSeq, IsRow
<1>12. Asked(t)' /\ HasSeries(t)' /\ Stage(t)'
  <2>1. r.does = "reverse" /\ rows[r.row].deposit => IsHalf(r.row)
    BY <1>1
  <2> QED
    BY <1>2, <1>3, <1>7, <2>1 DEF Asked, Does, HasSeries, Stage, Numbers, IsHalf
<1> QED
  BY <1>2, <1>6, <1>9, <1>10, <1>11, <1>12, QuietStep DEF Good

\* The deposit of an application that is reversed.
LEMMA LockDepositStep == ASSUME IInv, NEW t \in Txs, LockDeposit(t) PROVE IInv'
<1>0. tx[t].at = "locking"
  BY DEF LockDeposit
<1>1. UNCHANGED <<rows, halves>> /\ Len(tx[t].want) = 2
  BY DEF LockDeposit, books
<1>2. PICK d \in Deposits, i \in Invoices : tx[t].want = <<d, i>> /\ holds[t] = {}
  <2>1. \A x : tx[t].want = <<x>> => Len(tx[t].want) = 1
    OBVIOUS
  <2>2. tx[t].want = <<>> => Len(tx[t].want) = 0
    OBVIOUS
  <2> QED
    BY <1>0, <1>1, <2>1, <2>2 DEF IInv, Good, Climbs
<1>3. LockTarget(t, d) /\ tx' = [tx EXCEPT ![t].want = <<i>>]
  <2>1. Head(tx[t].want) = d /\ Tail(tx[t].want) = <<i>>
    BY <1>2
  <2>2. LockTarget(t, Head(tx[t].want)) /\ tx' = [tx EXCEPT ![t].want = Tail(tx[t].want)]
    BY Zenon DEF LockDeposit
  <2> QED
    BY <2>1, <2>2, Zenon
<1>4. DOMAIN tx = Txs /\ DOMAIN tx[t] = Fields
  BY DEF IInv, Shape
<1>5. DOMAIN tx' = Txs /\ DOMAIN tx'[t] = Fields /\ \A u \in Txs \ {t} : tx'[u] = tx[u]
  BY <1>3, <1>4, Zenon
<1>6. /\ tx'[t].at = tx[t].at /\ tx'[t].req = tx[t].req /\ tx'[t].want = <<i>>
      /\ tx'[t].rows = tx[t].rows
  BY <1>3, <1>4, Zenon DEF Fields
<1>7. /\ LocksHold' /\ holds'[t] = holds[t] \cup {<<Target(d), "update">>}
      /\ \A u \in Txs \ {t} : holds'[u] = holds[u]
  BY <1>3, LockAdds DEF LockTarget, IInv
<1>8. HoldsUpTo(t, 1)'
  <2>1. \A h \in holds'[t] : h[1] = Target(d)
    BY <1>2, <1>7
  <2> QED
    BY <2>1, Ranks DEF HoldsUpTo
<1>9. Climbs(t)'
  BY <1>0, <1>6, <1>8 DEF Climbs
<1>10. ~Does(t, "apply")
  <2>1. Does(t, "apply") => tx[t].want = <<tx[t].req.on>>
    BY <1>0 DEF IInv, Good, Asked
  <2>2. Does(t, "apply") => Len(tx[t].want) = 1
    BY <2>1
  <2> QED
    BY <1>1, <2>2
<1>11. Asked(t)'
  <2> DEFINE n == tx[t].req.row
  <2>1. tx[t].req.does \in {"refund", "reverse"} /\ n \in Numbers
    BY <1>0, <1>10 DEF IInv, Good, Asked
  <2>2. tx[t].req.does = "reverse" /\ rows[n].deposit => IsHalf(n)
    BY <1>0, Zenon DEF IInv, Good, Asked, Does
  <2>3. tx[t].req.does = "reverse" /\ rows'[n].deposit => IsHalf(n)'
    BY <1>1, <1>6, <2>2, Zenon DEF IsHalf
  <2>4. n \in Numbers'
    BY <1>1, <2>1 DEF Numbers
  <2> QED
    BY <1>6, <2>1, <2>3, <2>4, Zenon DEF Asked, Does
<1>12. Own(t)'
  BY <1>6, OwnStays DEF IInv, Good, LockDeposit
<1>13. HasSeries(t)' /\ Stage(t)'
  BY <1>0, <1>6 DEF HasSeries, Stage
<1> QED
  BY <1>1, <1>5, <1>7, <1>9, <1>11, <1>12, <1>13, QuietStep DEF Good

\* The last row of a refund or a reversal, if there is one.
LEMMA LastLock ==
  ASSUME IInv, NEW t \in Txs, tx[t].at = "locking", LockLast(t)
  PROVE  /\ LocksHold' /\ \A u \in Txs \ {t} : holds'[u] = holds[u]
         /\ HoldsUpTo(t, 2)'
<1>1. CASE tx[t].want = <<>>
  <2>1. UNCHANGED holds
    BY <1>1 DEF LockLast
  <2>2. \A x, y : <<x>> # <<>> /\ <<x, y>> # <<>>
    OBVIOUS
  <2>3. holds[t] = {}
    BY <1>1, <2>2 DEF IInv, Good, Climbs
  <2> QED
    BY <2>1, <2>3 DEF IInv, LocksHold, Modes, Apart, HoldsUpTo
<1>2. ASSUME NEW x \in Deposits \cup Invoices, tx[t].want = <<x>>,
             IF x \in Deposits THEN holds[t] = {} ELSE HoldsUpTo(t, 1)
      PROVE  /\ LocksHold' /\ \A u \in Txs \ {t} : holds'[u] = holds[u]
             /\ HoldsUpTo(t, 2)'
  <2>1. Len(tx[t].want) = 1 /\ Head(tx[t].want) = x /\ tx[t].want # <<>>
    BY <1>2
  <2>2. LockTarget(t, x)
    BY <2>1 DEF LockLast
  <2>3. /\ LocksHold' /\ holds'[t] = holds[t] \cup {<<Target(x), "update">>}
        /\ \A u \in Txs \ {t} : holds'[u] = holds[u]
    BY <2>2, LockAdds DEF LockTarget, IInv
  <2>4. CASE x \in Deposits
    <3>1. \A h \in holds'[t] : h[1] = Target(x)
      BY <1>2, <2>3, <2>4
    <3> QED
      BY <2>3, <2>4, <3>1, Ranks DEF HoldsUpTo
  <2>5. CASE x \notin Deposits
    BY <1>2, <2>3, <2>5, LockedOnTop
  <2> QED
    BY <2>4, <2>5
<1>3. ASSUME NEW d, NEW i, tx[t].want = <<d, i>> PROVE FALSE
  <2>1. Len(tx[t].want) = 2 /\ tx[t].want # <<>>
    BY <1>3
  <2> QED
    BY <2>1 DEF LockLast
<1>4. \/ tx[t].want = <<>>
      \/ \E x \in Deposits \cup Invoices : /\ tx[t].want = <<x>>
                                           /\ IF x \in Deposits THEN holds[t] = {} ELSE HoldsUpTo(t, 1)
      \/ \E d, i : tx[t].want = <<d, i>>
  BY TargetsDiffer DEF IInv, Good, Climbs
<1> QED
  BY <1>1, <1>2, <1>3, <1>4

LEMMA DecideRefundStep == ASSUME IInv, NEW t \in Txs, DecideRefund(t) PROVE IInv'
<1> DEFINE r == tx[t].req
           row == [Moved(rows[r.row].on, -r.amount, r.key) EXCEPT !.refunds = r.row]
<1>1. /\ tx[t].at = "locking" /\ r.does = "refund" /\ LockLast(t)
      /\ Decided(t, r, <<row>>) /\ UNCHANGED <<rows, halves>>
  BY DEF DecideRefund, Does, books
<1>2. r.row \in Numbers
  BY <1>1 DEF IInv, Good, Asked, Does
<1>3. rows[r.row].on \in Invoices \cup Deposits \cup Payouts
  BY <1>2 DEF IInv, Shape, IsRow
<1>4. IsRow(row)
  BY <1>3 DEF Moved, IsRow, RowFields
<1> HIDE DEF row
<1>5. Writable(<<row>>)
  BY <1>4, OneIsWritable
<1> QED
  BY <1>1, <1>5, LastLock, DecideStep

\* What undoes a payment is a row against the same thing, without a key.
LEMMA UndoneIsRow ==
  ASSUME IInv, NEW n \in Numbers
  PROVE  IsRow(Undone(n)) /\ Undone(n).key = NoKey
<1>1. DOMAIN rows[n] = RowFields /\ rows[n].on \in Invoices \cup Deposits \cup Payouts
  BY DEF IInv, Shape, IsRow
<1>2. DOMAIN Undone(n) = RowFields /\ Undone(n).on = rows[n].on /\ Undone(n).key = NoKey
  BY <1>1, Zenon DEF Undone, RowFields
<1> QED
  BY <1>1, <1>2 DEF IsRow

LEMMA UndoneTogetherIsWritable ==
  ASSUME IInv, NEW n, IsHalf(n), NEW seen
  PROVE  Writable(UndoneTogether(n, seen))
<1> DEFINE a == HalvesOf(n)[1]
           b == HalvesOf(n)[2]
<1>1. a \in Numbers /\ b \in Numbers
  <2>1. HalvesOf(n) \in halves
    BY DEF IsHalf, HalvesOf
  <2> QED
    BY <2>1 DEF IInv, Pairs
<1>2. IsRow(Undone(a)) /\ IsRow(Undone(b)) /\ Undone(a).key = NoKey
  BY <1>1, UndoneIsRow
<1>3. UndoneTogether(n, seen) =
        (IF ReversedBy(a, seen) THEN <<>> ELSE <<Undone(a)>>)
        \o (IF ReversedBy(b, seen) THEN <<>> ELSE <<Undone(b)>>)
  BY DEF UndoneTogether
<1> DEFINE ra == Undone(a)
           rb == Undone(b)
<1>4. /\ <<>> \o <<>> = <<>> /\ <<ra>> \o <<>> = <<ra>>
      /\ <<>> \o <<rb>> = <<rb>> /\ <<ra>> \o <<rb>> = <<ra, rb>>
  BY OneAndOne
<1>5. Writable(<<>>) /\ Writable(<<ra>>) /\ Writable(<<rb>>) /\ Writable(<<ra, rb>>)
  BY <1>2, EmptyIsWritable, OneIsWritable, TwoAreWritable
<1> HIDE DEF a, b
<1> QED
  BY <1>3, <1>4, <1>5

LEMMA DecideReverseStep == ASSUME IInv, NEW t \in Txs, DecideReverse(t) PROVE IInv'
<1> DEFINE n      == tx[t].req.row
           undone == IF rows[n].deposit THEN UndoneTogether(n, tx[t].seen) ELSE <<Undone(n)>>
<1>1. /\ tx[t].at = "locking" /\ tx[t].req.does = "reverse" /\ LockLast(t)
      /\ Decided(t, tx[t].req, undone) /\ UNCHANGED <<rows, halves>>
  BY DEF DecideReverse, Does, books
<1>2. n \in Numbers
  BY <1>1 DEF IInv, Good, Asked, Does
<1>3. rows[n].deposit => IsHalf(n)
  BY <1>1, Zenon DEF IInv, Good, Asked, Does
<1>4. Writable(undone)
  BY <1>2, <1>3, UndoneIsRow, OneIsWritable, UndoneTogetherIsWritable
<1> HIDE DEF undone
<1> QED
  BY <1>1, <1>4, LastLock, DecideStep

\* The series is locked, and the keys are free.
LEMMA InsertStep == ASSUME IInv, NEW t \in Txs, Insert(t) PROVE IInv'
<1> DEFINE stage == IF Does(t, "pay") \/ Does(t, "apply") THEN "closing" ELSE "ending"
<1>1. /\ tx[t].at = "writing" /\ Lock(t, SeriesRow, "update")
      /\ \A k \in DOMAIN tx[t].rows : LetIn(tx[t].rows[k])
      /\ tx' = [tx EXCEPT ![t].at = stage] /\ UNCHANGED <<rows, halves>>
  BY DEF Insert, books
<1>2. stage \in {"closing", "ending"}
  OBVIOUS
<1> HIDE DEF stage
<1>3. DOMAIN tx = Txs /\ DOMAIN tx[t] = Fields
  BY DEF IInv, Shape
<1>4. DOMAIN tx' = Txs /\ DOMAIN tx'[t] = Fields /\ \A u \in Txs \ {t} : tx'[u] = tx[u]
  BY <1>1, <1>3, Zenon
<1>5. tx'[t].at = stage /\ tx'[t].req = tx[t].req /\ tx'[t].rows = tx[t].rows
  BY <1>1, <1>3, Zenon DEF Fields
<1>6. /\ LocksHold' /\ holds'[t] = holds[t] \cup {<<SeriesRow, "update">>}
      /\ \A u \in Txs \ {t} : holds'[u] = holds[u]
  BY <1>1, LockAdds DEF IInv
<1>7. HoldsUpTo(t, 3)'
  <2> SUFFICES ASSUME NEW h \in holds'[t] PROVE Rank(h[1]) <= 3
    BY DEF HoldsUpTo
  <2>1. Rank(h[1]) \in {1, 2, 3, 4}
    BY DEF Rank
  <2>2. CASE h \in holds[t]
    BY <1>1, <2>1, <2>2 DEF IInv, Good, Climbs, HoldsUpTo
  <2>3. CASE h[1] = SeriesRow
    BY <2>3, Ranks
  <2> QED
    BY <1>6, <2>2, <2>3
<1>8. \A k \in DOMAIN tx[t].rows : ~KeyUsed(tx[t].rows[k].key)
  BY <1>1 DEF LetIn, OncePerKey
<1>9. HasSeries(t)'
  BY <1>1, <1>5, <1>6, <1>8 DEF HasSeries, KeyUsed, Numbers
<1>10. Own(t)'
  BY <1>1, <1>5, OwnStays DEF IInv, Good
<1>11. Asked(t)' /\ Climbs(t)' /\ Stage(t)'
  BY <1>2, <1>5, <1>7 DEF Asked, Climbs, Stage
<1> QED
  BY <1>1, <1>4, <1>6, <1>9, <1>10, <1>11, QuietStep DEF Good

LEMMA CloseStep == ASSUME IInv, NEW t \in Txs, Close(t) PROVE IInv'
<1>1. /\ tx[t].at = "closing" /\ Lock(t, JobRow(tx[t].req.on), "update")
      /\ UNCHANGED <<rows, halves>>
  BY DEF Close, books
<1>2. PICK c : tx' = [tx EXCEPT ![t].at = "ending", ![t].closes = c]
  BY DEF Close
<1>3. DOMAIN tx = Txs /\ DOMAIN tx[t] = Fields
  BY DEF IInv, Shape
<1>4. DOMAIN tx' = Txs /\ DOMAIN tx'[t] = Fields /\ \A u \in Txs \ {t} : tx'[u] = tx[u]
  BY <1>2, <1>3, Zenon
<1>5. tx'[t].at = "ending" /\ tx'[t].req = tx[t].req /\ tx'[t].rows = tx[t].rows
  BY <1>2, <1>3, Zenon DEF Fields
<1>6. /\ LocksHold' /\ holds[t] \subseteq holds'[t]
      /\ \A u \in Txs \ {t} : holds'[u] = holds[u]
  BY <1>1, LockAdds DEF IInv
<1>7. HasSeries(t)'
  BY <1>1, <1>5, <1>6 DEF IInv, Good, HasSeries, KeyUsed, Numbers
<1>8. Own(t)'
  BY <1>1, <1>5, OwnStays DEF IInv, Good
<1>9. Asked(t)' /\ Climbs(t)' /\ Stage(t)'
  BY <1>5 DEF Asked, Climbs, Stage
<1> QED
  BY <1>1, <1>4, <1>6, <1>7, <1>8, <1>9, QuietStep DEF Good

\* A transaction that is over is idle again and holds nothing.
LEMMA OverStep ==
  ASSUME IInv, NEW t \in Txs, Over(t)
  PROVE  /\ DOMAIN tx' = Txs /\ DOMAIN tx'[t] = Fields /\ LocksHold' /\ Good(t)'
         /\ \A u \in Txs \ {t} : tx'[u] = tx[u] /\ holds'[u] = holds[u]
<1>1. DOMAIN tx' = Txs /\ tx'[t] = Idle /\ \A u \in Txs \ {t} : tx'[u] = tx[u]
  BY DEF Over, IInv, Shape
<1>2. /\ LocksHold' /\ holds'[t] = {} /\ \A u \in Txs \ {t} : holds'[u] = holds[u]
  BY UnlockKeepsApart DEF Over, IInv
<1>3. tx'[t].at = "idle" /\ tx'[t].rows = <<>> /\ DOMAIN tx'[t] = Fields
  BY <1>1 DEF Idle, Fields
<1>4. Own(t)'
  BY <1>3 DEF Own, Writable, IsSeq
<1>5. Asked(t)' /\ Climbs(t)' /\ HasSeries(t)' /\ Stage(t)'
  BY <1>2, <1>3 DEF Asked, Climbs, HasSeries, Stage
<1> QED
  BY <1>1, <1>2, <1>3, <1>4, <1>5 DEF Good

LEMMA LeaveStep == ASSUME IInv, NEW t \in Txs, Leave(t) PROVE IInv'
<1>1. Over(t) /\ UNCHANGED <<rows, halves>>
  BY DEF Leave, books
<1> QED
  BY <1>1, OverStep, QuietStep

\* The rows are there for everybody: nobody else was past the series.
LEMMA CommitStep == ASSUME IInv, NEW t \in Txs, Commit(t) PROVE IInv'
<1> DEFINE own == tx[t].rows
<1>1. /\ tx[t].at = "ending" /\ rows' = rows \o own /\ Over(t)
      /\ halves' = halves \cup IF Does(t, "apply") THEN {<<Len(rows) + 1, Len(rows) + 2>>} ELSE {}
  BY DEF Commit
<1>2. Writable(own) /\ (Does(t, "apply") => Pair(own)) /\ HasSeries(t)
  BY <1>1 DEF IInv, Good, Own
<1>3. /\ DOMAIN tx' = Txs /\ DOMAIN tx'[t] = Fields /\ LocksHold' /\ Good(t)'
      /\ \A u \in Txs \ {t} : tx'[u] = tx[u] /\ holds'[u] = holds[u]
  BY <1>1, OverStep
<1> HIDE DEF own
<1>4. /\ IsSeq(rows') /\ Len(rows) \in Nat /\ Len(own) \in Nat
      /\ Numbers = 1..Len(rows) /\ DOMAIN own = 1..Len(own) /\ Numbers' = 1..(Len(rows) + Len(own))
      /\ \A k \in Numbers : k \in Numbers' /\ rows'[k] = rows[k]
      /\ \A k \in DOMAIN own : Len(rows) + k \in Numbers' /\ rows'[Len(rows) + k] = own[k]
      /\ \A k \in Numbers' : k \in Numbers \/ k - Len(rows) \in DOMAIN own
  BY <1>1, <1>2, Appended DEF Numbers, IInv, Shape, Writable
<1>5. \A k \in Numbers' : /\ k \in Numbers => rows'[k] = rows[k]
                          /\ k \notin Numbers => k - Len(rows) \in DOMAIN own /\ rows'[k] = own[k - Len(rows)]
  BY <1>4
<1>6. Shape'
  <2>1. \A n \in Numbers' : IsRow(rows'[n])
    BY <1>2, <1>5 DEF IInv, Shape, Writable
  <2>2. \A u \in Txs : DOMAIN tx'[u] = Fields
    BY <1>3 DEF IInv, Shape
  <2> QED
    BY <1>3, <1>4, <2>1, <2>2 DEF Shape, IsRow
<1>7. Pairs'
  <2> SUFFICES ASSUME NEW h \in halves'
               PROVE  /\ h[1] \in Numbers' /\ rows'[h[1]].on \in Deposits
                      /\ h[2] \in Numbers' /\ rows'[h[2]].on \in Invoices
    BY DEF Pairs
  <2>1. CASE h \in halves
    BY <1>4, <2>1 DEF IInv, Pairs
  <2>2. CASE Does(t, "apply") /\ h = <<Len(rows) + 1, Len(rows) + 2>>
    <3>1. Len(own) = 2 /\ own[1].on \in Deposits /\ own[2].on \in Invoices
      BY <1>2, <2>2 DEF Pair
    <3>2. 1 \in DOMAIN own /\ 2 \in DOMAIN own
      BY <1>4, <3>1
    <3> QED
      BY <1>4, <2>2, <3>1, <3>2
  <2> QED
    BY <1>1, <2>1, <2>2
<1>8. OneRowPerKey'
  <2> SUFFICES ASSUME NEW m \in Numbers', NEW n \in Numbers',
                      rows'[m].key # NoKey, rows'[m].key = rows'[n].key
               PROVE  m = n
    BY DEF OneRowPerKey
  <2>1. \A k \in DOMAIN own, l \in Numbers : own[k].key # NoKey => rows[l].key # own[k].key
    BY <1>1, <1>2 DEF HasSeries, KeyUsed, own
  <2>2. CASE m \in Numbers /\ n \in Numbers
    BY <1>5, <2>2 DEF IInv, OneRowPerKey
  <2>3. CASE m \notin Numbers /\ n \notin Numbers
    <3>1. m - Len(rows) = n - Len(rows)
      BY <1>2, <1>5, <2>3 DEF Writable
    <3> QED
      BY <1>4, <3>1
  <2>4. CASE m \in Numbers /\ n \notin Numbers
    BY <1>5, <2>1, <2>4
  <2>5. CASE m \notin Numbers /\ n \in Numbers
    BY <1>5, <2>1, <2>5
  <2> QED
    BY <2>2, <2>3, <2>4, <2>5
<1>9. ASSUME NEW u \in Txs \ {t} PROVE Good(u)'
  <2>1. Good(u) /\ tx'[u] = tx[u] /\ holds'[u] = holds[u]
    BY <1>3 DEF IInv
  <2>2. Own(u)' /\ Climbs(u)' /\ Stage(u)'
    BY <2>1 DEF Good, Own, Does, Climbs, HoldsUpTo, Stage, Writable, IsSeq, IsRow, Pair
  <2>3. Asked(u)'
    <3> DEFINE n == tx[u].req.row
    <3> SUFFICES ASSUME tx[u].at = "locking" PROVE Asked(u)'
      BY <2>1 DEF Asked
    <3>1. ~Does(u, "apply") => tx[u].req.does \in {"refund", "reverse"} /\ n \in Numbers /\ n \in Numbers'
      BY <1>4, <2>1 DEF Good, Asked
    <3>2. Does(u, "reverse") /\ rows[n].deposit => IsHalf(n)
      BY <2>1, Zenon DEF Good, Asked
    <3>3. halves \subseteq halves'
      BY <1>1
    <3>4. Does(u, "reverse") /\ rows'[n].deposit => IsHalf(n)'
      <4> SUFFICES ASSUME Does(u, "reverse"), rows'[n].deposit PROVE IsHalf(n)'
        OBVIOUS
      <4>1. rows'[n] = rows[n]
        BY <1>4, <3>1 DEF Does
      <4> QED
        BY <2>1, <3>2, <3>3, <4>1, Zenon DEF IsHalf
    <3> QED
      BY <2>1, <3>1, <3>4, Zenon DEF Good, Asked, Does
  <2>4. HasSeries(u)'
    <3>1. tx[u].at \notin {"closing", "ending"}
      BY <1>1, <1>2, <2>1, OneHasTheRow DEF IInv, Good, HasSeries
    <3> QED
      BY <2>1, <3>1 DEF HasSeries
  <2> QED
    BY <2>2, <2>3, <2>4 DEF Good
<1> QED
  BY <1>3, <1>6, <1>7, <1>8, <1>9 DEF IInv

\* What happens to an invoice and its job touches nobody's transaction.
LEMMA ElsewhereStep == ASSUME IInv, NEW i \in Invoices, Elsewhere(i) PROVE IInv'
<1>1. UNCHANGED <<rows, halves, tx, holds>>
  BY DEF Elsewhere, Credit, Collect, BringBack, CloseByHand
<1> QED
  BY <1>1, StillStep

LEMMA NextStep == IInv /\ [Next]_vars => IInv'
<1> SUFFICES ASSUME IInv, [Next]_vars PROVE IInv'
  OBVIOUS
<1>1. CASE UNCHANGED vars
  BY <1>1, StillStep DEF vars, books
<1>2. ASSUME NEW i \in Invoices, Elsewhere(i) PROVE IInv'
  BY <1>2, ElsewhereStep
<1>3. ASSUME NEW t \in Txs, Step(t) PROVE IInv'
  <2>1. CASE Pay(t) \/ Receive(t) \/ PayOut(t)
    BY <2>1, PayStep, ReceiveStep, PayOutStep
  <2>2. CASE Apply(t) \/ DecideApply(t)
    BY <2>2, ApplyStep, DecideApplyStep
  <2>3. CASE Look(t) \/ LockDeposit(t) \/ DecideRefund(t) \/ DecideReverse(t)
    BY <2>3, LookStep, LockDepositStep, DecideRefundStep, DecideReverseStep
  <2>4. CASE Insert(t) \/ Close(t) \/ Commit(t) \/ Leave(t)
    BY <2>4, InsertStep, CloseStep, CommitStep, LeaveStep
  <2> QED
    BY <1>3, <2>1, <2>2, <2>3, <2>4 DEF Step
<1> QED
  BY <1>1, <1>2, <1>3 DEF Next

-----------------------------------------------------------------------------
(* Theorems.                                                               *)

\* The inductive invariant: what the transactions have written and the locks
\* they hold, in every state the payment journal can be in.
THEOREM JournalIsKept == Spec => []IInv
<1> QED
  BY InitIsGood, NextStep, PTL DEF Spec

\* payments.go, insertPaymentOnce: a request that is sent twice, also at once,
\* also for two different invoices, moves money once.
THEOREM KeysMoveMoneyOnce == Spec => []OneRowPerKey
<1>1. IInv => OneRowPerKey
  BY DEF IInv
<1> QED
  BY <1>1, JournalIsKept, PTL

\* Who waits, waits for a row above everything it holds.
LEMMA WaitsUpwards ==
  ASSUME IInv, NEW t \in Txs, NEW row \in Wants(t), NEW h \in holds[t]
  PROVE  Rank(h[1]) < Rank(row)
<1>1. Rank(h[1]) \in {1, 2, 3, 4} /\ Rank(row) \in {1, 2, 3, 4}
  BY DEF Rank
<1>2. Climbs(t) /\ Stage(t)
  BY DEF IInv, Good
<1>3. CASE tx[t].at = "locking"
  <2>1. tx[t].want # <<>> /\ row = Target(Head(tx[t].want))
    BY <1>3 DEF Wants
  <2>2. PICK x \in Invoices : tx[t].want = <<x>> /\ HoldsUpTo(t, 1)
    BY <1>2, <1>3, <2>1 DEF Climbs
  <2>3. Rank(row) = 2
    BY <2>1, <2>2, Ranks
  <2> QED
    BY <1>1, <2>2, <2>3 DEF HoldsUpTo
<1>4. CASE tx[t].at = "writing"
  <2>1. row = SeriesRow
    BY <1>4 DEF Wants
  <2> QED
    BY <1>1, <1>2, <1>4, <2>1, Ranks DEF Climbs, HoldsUpTo
<1>5. CASE tx[t].at = "closing"
  <2>1. row = JobRow(tx[t].req.on)
    BY <1>5 DEF Wants
  <2> QED
    BY <1>1, <1>2, <1>5, <2>1, Ranks DEF Climbs, HoldsUpTo
<1>6. CASE tx[t].at \in {"idle", "ending"}
  BY <1>6 DEF Wants
<1> QED
  BY <1>2, <1>3, <1>4, <1>5, <1>6 DEF Stage

LEMMA NoCircleFits == IInv => NoCircle
<1> SUFFICES ASSUME IInv, NEW t \in Txs, NEW u \in Txs, WaitsFor(t, u), WaitsFor(u, t)
             PROVE  FALSE
  BY DEF NoCircle
<1>1. PICK a \in Wants(t) : \E h \in holds[u] : h[1] = a
  BY DEF WaitsFor, Blocks
<1>2. PICK b \in Wants(u) : \E h \in holds[t] : h[1] = b
  BY DEF WaitsFor, Blocks
<1>3. Rank(a) < Rank(b) /\ Rank(b) < Rank(a)
  BY <1>1, <1>2, WaitsUpwards
<1>4. Rank(a) \in {1, 2, 3, 4} /\ Rank(b) \in {1, 2, 3, 4}
  BY DEF Rank
<1> QED
  BY <1>3, <1>4

\* journal.go, applyDepositTx and reverseApplicationTx, and everything else
\* that moves money: no two of them ever wait for each other.
THEOREM NobodyWaitsInACircle == Spec => []NoCircle
BY NoCircleFits, JournalIsKept, PTL

-----------------------------------------------------------------------------
(* The invariants about money.                                             *)

\* A row that is written, or about to be, and what it says of the journal.
Lawful(r) ==
  /\ r \in Row /\ r.reverses \in 0..Len(rows) /\ r.refunds \in 0..Len(rows)
  /\ r.reverses # 0 => /\ r.refunds = 0 /\ r.on = rows[r.reverses].on
                       /\ r.deposit = rows[r.reverses].deposit
                       /\ Settles(r) = -Settles(rows[r.reverses])
  /\ r.refunds # 0 => r.reverses = 0 /\ r.amount < 0 /\ r.rounding = 0 /\ ~r.deposit
RowsAreLawful ==
  \A n \in Numbers : Lawful(rows[n]) /\ (rows[n].refunds # 0 => IsReceipt(rows[n].refunds))

\* What the halves of an application are to each other.
HalvesAreWhole ==
  /\ \A h \in halves : /\ rows[h[1]].deposit /\ rows[h[2]].deposit
                       /\ Settles(rows[h[1]]) + Settles(rows[h[2]]) = 0
  /\ \A g, h \in halves : g[1] = h[1] \/ g[2] = h[2] => g = h

\* What was asked for, and what was read before the locks.
Looked(t) ==
  tx[t].at = "locking" =>
    /\ Does(t, "refund") \/ Does(t, "apply") => tx[t].req.amount \in Amounts /\ tx[t].req.key \in MaybeKey
    /\ Does(t, "reverse") =>
         \A h \in halves : tx[t].req.row \in {h[1], h[2]} =>
           (ReversedBy(h[1], tx[t].seen) <=> ReversedBy(h[2], tx[t].seen))

\* One row that has no other half, or the two halves of what is applied or
\* undone.
Single(does, w) == Len(w) = 1 /\ ~w[1].deposit /\ does # "apply"
Double(does, w) ==
  /\ Len(w) = 2 /\ w[1].deposit /\ w[2].deposit /\ Settles(w[1]) + Settles(w[2]) = 0
  /\ w[1].on \in Deposits /\ w[2].on \in Invoices
  /\ \/ does = "apply" /\ w[1].reverses = 0 /\ w[2].reverses = 0
     \/ does = "reverse" /\ <<w[1].reverses, w[2].reverses>> \in halves
Decisive(t) == tx[t].at \in {"writing", "closing", "ending"}
Written(t) ==
  Decisive(t) => /\ \A k \in DOMAIN tx[t].rows : Lawful(tx[t].rows[k])
                 /\ Single(tx[t].req.does, tx[t].rows) \/ Double(tx[t].req.does, tx[t].rows)

\* What the database let in stays so until it is committed.
MoneyFits(r) == ReversesOnce(r) /\ RefundsWithin(r) /\ DepositHolds(r) /\ InvoiceOwesBack(r)
StillLetIn(t) ==
  tx[t].at \in {"closing", "ending"} => \A k \in DOMAIN tx[t].rows : MoneyFits(tx[t].rows[k])

MoneyInv ==
  /\ TypeOK /\ RowsAreLawful /\ HalvesAreWhole
  /\ \A t \in Txs : Looked(t) /\ Written(t) /\ StillLetIn(t)
  /\ PaidOutWasPaidIn /\ ApplicationsAreWhole

\* The rows that are locked from the decision to the commit, and what was
\* decided under them.
Locked(t, row) == <<row, "update">> \in holds[t]
Waiting(t) ==
  LET n == tx[t].req.row
  IN  /\ Does(t, "refund") => ~rows[n].deposit
      /\ ~rows[n].deposit => tx[t].want = IF rows[n].on \in Payouts THEN <<>> ELSE <<rows[n].on>>
      /\ rows[n].deposit => \A h \in halves : n \in {h[1], h[2]} =>
           \/ tx[t].want = <<rows[h[1]].on, rows[h[2]].on>>
           \/ tx[t].want = <<rows[h[2]].on>> /\ Locked(t, Target(rows[h[1]].on))
Under(t) ==
  /\ tx[t].at = "locking" /\ Does(t, "apply") => Locked(t, Target(tx[t].req.from))
  /\ tx[t].at = "locking" /\ ~Does(t, "apply") => Waiting(t)
  /\ Decisive(t) => \A k \in DOMAIN tx[t].rows :
                      tx[t].rows[k].on \notin Payouts => Locked(t, Target(tx[t].rows[k].on))
PaysIn(t) == Does(t, "pay") \/ Does(t, "apply")
Into(t) ==
  Decisive(t) /\ PaysIn(t) =>
    /\ tx[t].req.on \in Invoices
    /\ Does(t, "pay") => Len(tx[t].rows) = 1 /\ tx[t].rows[1].on = tx[t].req.on
    /\ Does(t, "apply") => /\ Len(tx[t].rows) = 2 /\ tx[t].rows[1].on \in Deposits
                           /\ tx[t].rows[2].on = tx[t].req.on
Enough(r, q) ==
  /\ r.amount = 0 => Settles(q) = Owed(r.on)
  /\ r.amount # 0 /\ ~r.sure => Owed(r.on) - Settles(q) >= -Margin
Settling(t) == Decisive(t) /\ Does(t, "pay") => Enough(tx[t].req, tx[t].rows[1])
Closing(t) ==
  tx[t].at = "ending" /\ PaysIn(t) =>
    LET i == tx[t].req.on
    IN  Locked(t, JobRow(i)) /\ (tx[t].closes <=> Finished(i, Owed(i) - OwnOn(t, i)))
Paying(t) == Under(t) /\ Into(t) /\ Settling(t) /\ Closing(t)
PayInv == \A t \in Txs : Paying(t)

-----------------------------------------------------------------------------
(* What amounts come to.                                                   *)

Worths(s)   == [n \in DOMAIN s |-> Settles(s[n])]
Counted(s)  == [n \in DOMAIN s |-> s[n].amount]
Comes(s, S) == SumFunctionOnSet(Worths(s), S)
Given(s, S) == SumFunctionOnSet(Counted(s), S)

\* What was given back on an invoice, as rows.
Back(i) == {n \in On(i) : GivesBack(rows[n]) /\ ~Reversed(n)}

LEMMA RowsAreTyped ==
  ASSUME NEW s \in Seq(Row)
  PROVE  /\ Len(s) \in Nat /\ DOMAIN s = 1..Len(s)
         /\ \A n \in DOMAIN s : s[n] \in Row
         /\ \A n \in DOMAIN s : /\ Worths(s)[n] = Settles(s[n]) /\ Settles(s[n]) \in Int
                                /\ Counted(s)[n] = s[n].amount /\ s[n].amount \in Int
         /\ \A S \in SUBSET DOMAIN s : IsFiniteSet(S)
  <1>1. Len(s) \in Nat /\ DOMAIN s = 1..Len(s) /\ \A n \in DOMAIN s : s[n] \in Row
    OBVIOUS
  <1>2. \A r \in Row : r.amount \in Int /\ r.rounding \in Int
    BY DEF Row
  <1>3. ASSUME NEW n \in DOMAIN s
        PROVE  /\ Worths(s)[n] = Settles(s[n]) /\ Settles(s[n]) \in Int
               /\ Counted(s)[n] = s[n].amount /\ s[n].amount \in Int
    <2>1. s[n].amount \in Int /\ s[n].rounding \in Int
      BY <1>1, <1>2
    <2>2. Worths(s)[n] = Settles(s[n]) /\ Counted(s)[n] = s[n].amount
      BY DEF Worths, Counted
    <2> QED  BY <2>1, <2>2 DEF Settles
  <1>4. \A S \in SUBSET DOMAIN s : IsFiniteSet(S)
    <2>1. IsFiniteSet(1..Len(s))
      BY <1>1, FS_Interval
    <2> QED  BY <1>1, <2>1, FS_Subset
  <1> QED  BY <1>1, <1>3, <1>4

LEMMA ComesFacts ==
  ASSUME NEW s \in Seq(Row), NEW S \in SUBSET DOMAIN s
  PROVE  /\ Comes(s, S) \in Int
         /\ \A n \in (DOMAIN s) \ S : Comes(s, S \cup {n}) = Comes(s, S) + Settles(s[n])
         /\ \A n \in S : Comes(s, S \ {n}) = Comes(s, S) - Settles(s[n])
  <1> DEFINE f == Worths(s)
  <1>1. IsFiniteSet(S) /\ \A n \in S : f[n] \in Int
    BY RowsAreTyped
  <1>2. \A n \in DOMAIN s : f[n] = Settles(s[n]) /\ f[n] \in Int
    BY RowsAreTyped
  <1> HIDE DEF f
  <1>3. SumFunctionOnSet(f, S) \in Int
    BY <1>1, SumIsInt
  <1>4. ASSUME NEW n \in (DOMAIN s) \ S
        PROVE  SumFunctionOnSet(f, S \cup {n}) = SumFunctionOnSet(f, S) + Settles(s[n])
    <2>1. SumFunctionOnSet(f, S \cup {n}) = f[n] + SumFunctionOnSet(f, S)
      BY <1>1, <1>2, <1>4, SumWithOne
    <2> QED  BY <1>2, <1>3, <1>4, <2>1
  <1>5. ASSUME NEW n \in S
        PROVE  SumFunctionOnSet(f, S \ {n}) = SumFunctionOnSet(f, S) - Settles(s[n])
    <2>1. SumFunctionOnSet(f, S) = f[n] + SumFunctionOnSet(f, S \ {n})
      BY <1>1, <1>5, SumTakesOne
    <2>2. IsFiniteSet(S \ {n}) /\ \A m \in S \ {n} : f[m] \in Int
      BY <1>1, FS_Subset
    <2>3. SumFunctionOnSet(f, S \ {n}) \in Int
      BY <2>2, SumIsInt
    <2> QED  BY <1>2, <1>3, <1>5, <2>1, <2>3
  <1> QED  BY <1>3, <1>4, <1>5 DEF Comes, f

LEMMA ComesSame ==
  ASSUME NEW s \in Seq(Row), NEW z \in Seq(Row), NEW S \in SUBSET DOMAIN s, S \subseteq DOMAIN z,
         \A n \in S : z[n] = s[n]
  PROVE  Comes(z, S) = Comes(s, S) /\ Given(z, S) = Given(s, S)
  <1>1. IsFiniteSet(S)
    BY RowsAreTyped
  <1>2. \A n \in S : Worths(z)[n] = Worths(s)[n] /\ Counted(z)[n] = Counted(s)[n]
    BY DEF Worths, Counted
  <1> QED  BY <1>1, <1>2, SumIsOfItsTerms DEF Comes, Given

LEMMA GivenFacts ==
  ASSUME NEW s \in Seq(Row), NEW S \in SUBSET DOMAIN s
  PROVE  /\ Given(s, S) \in Int
         /\ \A n \in (DOMAIN s) \ S : Given(s, S \cup {n}) = Given(s, S) + s[n].amount
         /\ \A T \in SUBSET S : (\A n \in S \ T : s[n].amount <= 0) => Given(s, S) <= Given(s, T)
  <1> DEFINE f == Counted(s)
  <1>1. IsFiniteSet(S) /\ \A n \in S : f[n] \in Int
    BY RowsAreTyped
  <1>2. \A n \in DOMAIN s : f[n] = s[n].amount /\ f[n] \in Int
    BY RowsAreTyped
  <1> HIDE DEF f
  <1>3. SumFunctionOnSet(f, S) \in Int
    BY <1>1, SumIsInt
  <1>4. ASSUME NEW n \in (DOMAIN s) \ S
        PROVE  SumFunctionOnSet(f, S \cup {n}) = SumFunctionOnSet(f, S) + s[n].amount
    <2>1. SumFunctionOnSet(f, S \cup {n}) = f[n] + SumFunctionOnSet(f, S)
      BY <1>1, <1>2, <1>4, SumWithOne
    <2> QED  BY <1>2, <1>3, <1>4, <2>1
  <1>5. ASSUME NEW T \in SUBSET S, \A n \in S \ T : s[n].amount <= 0
        PROVE  SumFunctionOnSet(f, S) <= SumFunctionOnSet(f, T)
    <2>1. \A n \in S \ T : f[n] <= 0
      BY <1>2, <1>5
    <2> QED  BY <1>1, <1>5, <2>1, SumWithoutLosses
  <1> QED  BY <1>3, <1>4, <1>5 DEF Given, f

\* The journal's sums in these terms, before a step and after it.
LEMMA InTheseTerms ==
  /\ \A S : SettledBy(S) = Comes(rows, S)
  /\ \A d : Held(d) = Comes(rows, On(d)) /\ Held(d)' = Comes(rows', On(d)')
  /\ \A i : /\ Owed(i) = Total - credited[i] - Comes(rows, On(i))
            /\ Owed(i)' = Total - credited'[i] - Comes(rows', On(i)')
  /\ \A i : GivenBack(i) = -Comes(rows, Back(i)) /\ GivenBack(i)' = -Comes(rows', Back(i)')
  /\ \A n : Refunded(n) = -Given(rows, RefundsOf(n)) /\ Refunded(n)' = -Given(rows', RefundsOf(n)')
  BY DEF SettledBy, Held, Owed, GivenBack, Back, Refunded, Comes, Given, Worths, Counted, Numbers

LEMMA Subsets ==
  /\ \A x : On(x) \in SUBSET Numbers /\ Back(x) \in SUBSET Numbers
  /\ \A n : RefundsOf(n) \in SUBSET Numbers
  BY DEF On, Back, RefundsOf

\* What depends on the journal alone, while it stands.
LEMMA SameJournal ==
  ASSUME UNCHANGED <<rows, halves>>
  PROVE  /\ Numbers' = Numbers /\ \A x : On(x)' = On(x)
         /\ \A n : (Reversed(n)' <=> Reversed(n)) /\ (IsReceipt(n)' <=> IsReceipt(n))
         /\ \A n, k : ReversedBy(n, k)' <=> ReversedBy(n, k)
         /\ \A i : Back(i)' = Back(i)
         /\ \A n : RefundsOf(n)' = RefundsOf(n)
         /\ \A r : Lawful(r)' <=> Lawful(r)
  <1>1. rows' = rows /\ halves' = halves
    OBVIOUS
  <1>2. Numbers' = Numbers /\ \A x : On(x)' = On(x)
    BY <1>1 DEF Numbers, On
  <1>3. \A n, k : ReversedBy(n, k)' <=> ReversedBy(n, k)
    BY <1>1 DEF Numbers, ReversedBy
  <1>4. \A n : Reversed(n)' <=> Reversed(n)
    BY <1>1, <1>2 DEF Reversed, ReversedBy, Numbers
  <1>5. \A i : Back(i)' = Back(i)
    BY <1>1, <1>2, <1>4 DEF Back
  <1>6. \A n : RefundsOf(n)' = RefundsOf(n)
    BY <1>1, <1>2, <1>4 DEF RefundsOf
  <1>7. \A n : IsReceipt(n)' <=> IsReceipt(n)
    BY <1>1 DEF IsReceipt
  <1>8. \A r : Lawful(r)' <=> Lawful(r)
    BY <1>1 DEF Lawful, Row
  <1> QED  BY <1>2, <1>3, <1>4, <1>5, <1>6, <1>7, <1>8

-----------------------------------------------------------------------------
(* Steps that commit nothing.                                              *)

LEMMA OwedIsInt == ASSUME TypeOK, NEW i \in Invoices PROVE Owed(i) \in Int /\ credited[i] \in Int
  <1>1. Comes(rows, On(i)) \in Int
    BY Subsets, ComesFacts DEF TypeOK, Numbers
  <1>2. credited[i] \in Int
    BY AmountsAreMoney DEF TypeOK
  <1> QED  BY <1>1, <1>2, InTheseTerms, AmountsAreMoney

\* What is owed is no more than it was, and the journal says what it said.
LEMMA LessIsOwed ==
  ASSUME TypeOK, UNCHANGED <<rows, halves>>, credited' \in [Invoices -> 0..Total],
         \A i \in Invoices : credited'[i] >= credited[i]
  PROVE  /\ \A i \in Invoices : /\ Owed(i) \in Int /\ Owed(i)' \in Int /\ Owed(i)' <= Owed(i)
                                /\ GivenBack(i)' = GivenBack(i)
         /\ \A d : Held(d)' = Held(d)
         /\ \A n : Refunded(n)' = Refunded(n)
         /\ \A S : SettledBy(S)' = SettledBy(S)
  <1>1. rows' = rows
    OBVIOUS
  <1>2. ASSUME NEW i \in Invoices PROVE Owed(i) \in Int /\ Owed(i)' \in Int /\ Owed(i)' <= Owed(i)
    <2>1. Comes(rows, On(i)) \in Int /\ On(i)' = On(i)
      BY Subsets, ComesFacts, SameJournal DEF TypeOK, Numbers
    <2>2. credited[i] \in Int /\ credited'[i] \in Int /\ credited'[i] >= credited[i]
      BY AmountsAreMoney, <1>2 DEF TypeOK
    <2> QED  BY <1>1, <2>1, <2>2, InTheseTerms, AmountsAreMoney
  <1>3. \A i \in Invoices : GivenBack(i)' = GivenBack(i)
    BY <1>1, SameJournal, InTheseTerms
  <1>4. \A d : Held(d)' = Held(d)
    BY <1>1, SameJournal, InTheseTerms
  <1>5. \A n : Refunded(n)' = Refunded(n)
    BY <1>1, SameJournal, InTheseTerms
  <1>6. \A S : SettledBy(S)' = SettledBy(S)
    BY <1>1 DEF SettledBy, Numbers
  <1> QED  BY <1>2, <1>3, <1>4, <1>5, <1>6

\* What the database let in it still lets in.
LEMMA StillFits ==
  ASSUME TypeOK, UNCHANGED <<rows, halves>>, credited' \in [Invoices -> 0..Total],
         \A i \in Invoices : credited'[i] >= credited[i], NEW r \in Row, MoneyFits(r)
  PROVE  MoneyFits(r)'
  <1>1. rows' = rows
    OBVIOUS
  <1>2. ReversesOnce(r)'
    BY <1>1, SameJournal DEF MoneyFits, ReversesOnce
  <1>3. RefundsWithin(r)'
    BY <1>1, SameJournal, LessIsOwed DEF MoneyFits, RefundsWithin
  <1>4. DepositHolds(r)'
    BY LessIsOwed DEF MoneyFits, DepositHolds
  <1>5. InvoiceOwesBack(r)'
    <2> SUFFICES ASSUME r.on \in Invoices, Settles(r) < 0,
                        GivenBack(r.on)' + (IF GivesBack(r) THEN -Settles(r) ELSE 0) > 0
                 PROVE  Owed(r.on)' - Settles(r) <= 0
      BY DEF InvoiceOwesBack
    <2>1. Settles(r) \in Int
      BY DEF Row, Settles
    <2>2. /\ Owed(r.on) \in Int /\ Owed(r.on)' \in Int /\ Owed(r.on)' <= Owed(r.on)
          /\ GivenBack(r.on)' = GivenBack(r.on)
      BY LessIsOwed
    <2>3. Owed(r.on) - Settles(r) <= 0
      BY <2>2 DEF MoneyFits, InvoiceOwesBack
    <2> QED  BY <2>1, <2>2, <2>3
  <1> QED  BY <1>2, <1>3, <1>4, <1>5 DEF MoneyFits

\* A transaction went on, or something was credited: nothing was committed.
LEMMA MoneyStands ==
  ASSUME MoneyInv, UNCHANGED <<rows, halves>>, credited' \in [Invoices -> 0..Total],
         \A i \in Invoices : credited'[i] >= credited[i],
         job' \in [Invoices -> {"invoiced", "closed"}], here' \in [Invoices -> BOOLEAN],
         \A u \in Txs : \/ tx'[u] = tx[u]
                        \/ /\ tx'[u].at \in {"idle", "locking", "writing", "closing", "ending"}
                           /\ tx'[u].seen \in 0..Len(rows) /\ tx'[u].rows \in Seq(Row)
                           /\ Looked(u)' /\ Written(u)' /\ StillLetIn(u)'
  PROVE  MoneyInv'
  <1>0. TypeOK /\ rows' = rows /\ halves' = halves
    BY DEF MoneyInv
  <1>1. TypeOK'
    <2>1. ASSUME NEW u \in Txs
          PROVE  /\ tx'[u].at \in {"idle", "locking", "writing", "closing", "ending"}
                 /\ tx'[u].seen \in 0..Len(rows) /\ tx'[u].rows \in Seq(Row)
      BY <1>0 DEF TypeOK
    <2>2. rows' \in Seq(Row) /\ halves' \subseteq Numbers' \X Numbers'
      BY <1>0, SameJournal DEF TypeOK
    <2>3. Row' = Row
      BY DEF Row
    <2> QED  BY <1>0, <2>1, <2>2, <2>3 DEF TypeOK
  <1>2. RowsAreLawful'
    BY <1>0, SameJournal DEF MoneyInv, RowsAreLawful
  <1>3. HalvesAreWhole'
    BY <1>0 DEF MoneyInv, HalvesAreWhole
  <1>4. PaidOutWasPaidIn'
    <2>1. GivenBackWasPaidOver'
      BY <1>0, LessIsOwed DEF MoneyInv, PaidOutWasPaidIn, GivenBackWasPaidOver
    <2>2. DepositsNeverNegative'
      BY <1>0, LessIsOwed DEF MoneyInv, PaidOutWasPaidIn, DepositsNeverNegative
    <2>3. RefundsWithinPayment'
      BY <1>0, SameJournal, LessIsOwed DEF MoneyInv, PaidOutWasPaidIn, RefundsWithinPayment
    <2> QED  BY <2>1, <2>2, <2>3 DEF PaidOutWasPaidIn
  <1>5. ApplicationsAreWhole'
    <2>1. \A h \in halves' : Reversed(h[1])' <=> Reversed(h[2])'
      BY <1>0, SameJournal DEF MoneyInv, ApplicationsAreWhole
    <2>2. {n \in Numbers : rows[n].deposit}' = {n \in Numbers : rows[n].deposit}
      BY <1>0, SameJournal
    <2>3. SettledBy({n \in Numbers : rows[n].deposit})' = 0
      BY <1>0, <2>2, LessIsOwed DEF MoneyInv, ApplicationsAreWhole, SettledBy, Numbers
    <2> QED  BY <2>1, <2>3 DEF ApplicationsAreWhole
  <1>6. ASSUME NEW u \in Txs PROVE Looked(u)' /\ Written(u)' /\ StillLetIn(u)'
    <2> SUFFICES ASSUME tx'[u] = tx[u] PROVE Looked(u)' /\ Written(u)' /\ StillLetIn(u)'
      BY <1>6
    <2>1. Looked(u) /\ Written(u) /\ StillLetIn(u)
      BY DEF MoneyInv
    <2>2. Looked(u)'
      BY <1>0, <2>1, SameJournal DEF Looked, Does, MaybeKey
    <2>3. Written(u)'
      BY <1>0, <2>1, SameJournal DEF Written, Decisive, Single, Double
    <2>4. StillLetIn(u)'
      <3> SUFFICES ASSUME tx[u].at \in {"closing", "ending"}, NEW k \in DOMAIN tx[u].rows
                   PROVE  MoneyFits(tx[u].rows[k])'
        BY DEF StillLetIn
      <3>1. tx[u].rows[k] \in Row
        BY <1>0 DEF TypeOK
      <3>2. MoneyFits(tx[u].rows[k])
        BY <2>1 DEF StillLetIn
      <3>3. PICK r : r = tx[u].rows[k]
        OBVIOUS
      <3>4. MoneyFits(r)'
        BY <1>0, <3>1, <3>2, <3>3, StillFits
      <3> QED  BY <3>3, <3>4
    <2> QED  BY <2>2, <2>3, <2>4
  <1> QED  BY <1>1, <1>2, <1>3, <1>4, <1>5, <1>6 DEF MoneyInv

\* Of the transaction that went on.
LEMMA MoneyWaits ==
  ASSUME MoneyInv, NEW t \in Txs, UNCHANGED books, \A u \in Txs \ {t} : tx'[u] = tx[u],
         tx'[t].at \in {"idle", "locking", "writing", "closing", "ending"},
         tx'[t].seen \in 0..Len(rows), tx'[t].rows \in Seq(Row),
         Looked(t)', Written(t)', StillLetIn(t)'
  PROVE  MoneyInv'
  <1>1. /\ UNCHANGED <<rows, halves>> /\ credited' = credited /\ job' = job /\ here' = here
    BY DEF books
  <1>2. /\ credited' \in [Invoices -> 0..Total] /\ \A i \in Invoices : credited'[i] >= credited[i]
        /\ job' \in [Invoices -> {"invoiced", "closed"}] /\ here' \in [Invoices -> BOOLEAN]
    <2>1. TypeOK
      BY DEF MoneyInv
    <2>2. \A i \in Invoices : credited[i] \in Int
      BY <2>1, OwedIsInt
    <2> QED  BY <1>1, <2>1, <2>2 DEF TypeOK
  <1>3. \A u \in Txs : \/ tx'[u] = tx[u]
                       \/ /\ tx'[u].at \in {"idle", "locking", "writing", "closing", "ending"}
                          /\ tx'[u].seen \in 0..Len(rows) /\ tx'[u].rows \in Seq(Row)
                          /\ Looked(u)' /\ Written(u)' /\ StillLetIn(u)'
    OBVIOUS
  <1> QED  BY <1>1, <1>2, <1>3, MoneyStands

\* The rows are decided: they are lawful, and one or two of an application.
LEMMA MoneyDecided ==
  ASSUME IInv, MoneyInv, NEW t \in Txs, NEW r, NEW w, Decided(t, r, w), UNCHANGED books,
         w \in Seq(Row), \A k \in DOMAIN w : Lawful(w[k]), Single(r.does, w) \/ Double(r.does, w)
  PROVE  MoneyInv'
  <1>1. DOMAIN tx = Txs /\ DOMAIN tx[t] = Fields
    BY DEF IInv, Shape
  <1>2. \A u \in Txs \ {t} : tx'[u] = tx[u]
    BY <1>1, Zenon DEF Decided
  <1>3. tx'[t].at = "writing" /\ tx'[t].req = r /\ tx'[t].rows = w /\ tx'[t].seen = tx[t].seen
    BY <1>1, Zenon DEF Decided, Fields
  <1>4. tx'[t].seen \in 0..Len(rows)
    BY <1>3 DEF MoneyInv, TypeOK
  <1>5. UNCHANGED <<rows, halves>>
    BY DEF books
  <1>6. Looked(t)' /\ StillLetIn(t)'
    BY <1>3 DEF Looked, StillLetIn
  <1>7. Written(t)'
    <2>1. \A k \in DOMAIN w : Lawful(w[k])'
      BY <1>5, SameJournal
    <2>2. Single(r.does, w)' \/ Double(r.does, w)'
      BY <1>5 DEF Single, Double
    <2> QED  BY <1>3, <2>1, <2>2 DEF Written, Single, Double
  <1> QED  BY <1>2, <1>3, <1>4, <1>6, <1>7, MoneyWaits

LEMMA MovedIsLawful ==
  ASSUME MoneyInv, NEW x \in Invoices \cup Deposits \cup Payouts, NEW a \in Int, NEW k \in MaybeKey
  PROVE  Moved(x, a, k) \in Row /\ Lawful(Moved(x, a, k)) /\ Settles(Moved(x, a, k)) = a
  <1>1. Moved(x, a, k) \in Row /\ Settles(Moved(x, a, k)) = a
    BY DEF Moved, Row, MaybeKey, Settles
  <1>2. Len(rows) \in Nat
    BY DEF MoneyInv, TypeOK
  <1> QED  BY <1>1, <1>2 DEF Moved, Lawful

\* A row marked in one place is the same row elsewhere.
LEMMA MarkedRow ==
  ASSUME NEW r \in Row, NEW q
  PROVE  /\ q = [r EXCEPT !.deposit = TRUE] =>
              /\ q \in Row /\ q.on = r.on /\ q.amount = r.amount /\ q.rounding = r.rounding
              /\ q.deposit /\ q.reverses = r.reverses /\ q.refunds = r.refunds
         /\ \A n \in Nat : q = [r EXCEPT !.refunds = n] =>
              /\ q \in Row /\ q.on = r.on /\ q.amount = r.amount /\ q.rounding = r.rounding
              /\ q.deposit = r.deposit /\ q.reverses = r.reverses /\ q.refunds = n
         /\ \A c \in Int : q = [r EXCEPT !.rounding = c] =>
              /\ q \in Row /\ q.on = r.on /\ q.amount = r.amount /\ q.rounding = c
              /\ q.deposit = r.deposit /\ q.reverses = r.reverses /\ q.refunds = r.refunds
  <1>1. DOMAIN r = RowFields
    BY DEF Row, RowFields
  <1>2. ASSUME q = [r EXCEPT !.deposit = TRUE]
        PROVE  /\ q.on = r.on /\ q.amount = r.amount /\ q.rounding = r.rounding
               /\ q.deposit /\ q.reverses = r.reverses /\ q.refunds = r.refunds
    BY <1>1, <1>2, Zenon DEF RowFields
  <1>3. q = [r EXCEPT !.deposit = TRUE] => q \in Row
    BY Zenon DEF Row
  <1>4. ASSUME NEW n \in Nat, q = [r EXCEPT !.refunds = n]
        PROVE  /\ q.on = r.on /\ q.amount = r.amount /\ q.rounding = r.rounding
               /\ q.deposit = r.deposit /\ q.reverses = r.reverses /\ q.refunds = n
    BY <1>1, <1>4, Zenon DEF RowFields
  <1>5. \A n \in Nat : q = [r EXCEPT !.refunds = n] => q \in Row
    BY Zenon DEF Row
  <1>6. ASSUME NEW c \in Int, q = [r EXCEPT !.rounding = c]
        PROVE  /\ q.on = r.on /\ q.amount = r.amount /\ q.rounding = c
               /\ q.deposit = r.deposit /\ q.reverses = r.reverses /\ q.refunds = r.refunds
    BY <1>1, <1>6, Zenon DEF RowFields
  <1>7. \A c \in Int : q = [r EXCEPT !.rounding = c] => q \in Row
    BY Zenon DEF Row
  <1> QED  BY <1>2, <1>3, <1>4, <1>5, <1>6, <1>7, Zenon

LEMMA OneRow ==
  ASSUME NEW r \in Row, Lawful(r), ~r.deposit, NEW does, does # "apply"
  PROVE  <<r>> \in Seq(Row) /\ (\A k \in DOMAIN <<r>> : Lawful(<<r>>[k])) /\ Single(does, <<r>>)
  BY DEF Single

LEMMA DivIsInt == ASSUME NEW a \in Int, NEW b \in Nat \ {0} PROVE a \div b \in Int
  OBVIOUS

LEMMA CashIsInt == ASSUME NEW g \in Int PROVE CashRound(g, Coin) \in Int
  <1>1. Coin \in Nat \ {0} /\ 2 \in Nat \ {0}
    BY CoinsAreMoney
  <1>2. Coin \div 2 \in Int
    BY <1>1, DivIsInt
  <1>3. g + Coin \div 2 \in Int /\ Coin \div 2 - g \in Int
    BY <1>2
  <1>4. (g + Coin \div 2) \div Coin \in Int /\ (Coin \div 2 - g) \div Coin \in Int
    BY <1>1, <1>3, DivIsInt
  <1>5. DivRound(g, Coin) \in Int
    BY <1>4 DEF DivRound
  <1> QED  BY <1>1, <1>5 DEF CashRound

LEMMA PayKeeps == ASSUME IInv, MoneyInv, NEW t \in Txs, Pay(t) PROVE MoneyInv'
  <1>1. PICK r \in Paid :
          Decided(t, r, <<IF r.amount = 0 THEN Settlement(r) ELSE Moved(r.on, r.amount, r.key)>>)
    BY DEF Pay
  <1>2. UNCHANGED books
    BY DEF Pay
  <1>3. r.on \in Invoices /\ r.does = "pay" /\ r.amount \in Int /\ r.key \in MaybeKey
    <2>1. /\ r.on \in Invoices /\ r.does = "pay" /\ r.key \in MaybeKey
          /\ r.amount \in Amounts \cup {-a : a \in Amounts} \cup {0}
      BY DEF Paid
    <2>2. \A a \in Amounts : a \in Int /\ -a \in Int
      BY AmountsAreMoney
    <2> QED  BY <2>1, <2>2
  <1> DEFINE row == IF r.amount = 0 THEN Settlement(r) ELSE Moved(r.on, r.amount, r.key)
  <1>4. row \in Row /\ Lawful(row) /\ ~row.deposit
    <2>1. CASE r.amount # 0
      <3>1. Moved(r.on, r.amount, r.key) \in Row /\ Lawful(Moved(r.on, r.amount, r.key))
        BY <1>3, MovedIsLawful
      <3> QED  BY <2>1, <3>1 DEF Moved
    <2>2. CASE r.amount = 0
      <3> DEFINE owed == Owed(r.on)
                 coins == IF r.cash THEN CashRound(owed, Coin) ELSE owed
      <3>1. owed \in Int
        BY <1>3, OwedIsInt DEF MoneyInv
      <3>2. coins \in Int /\ owed - coins \in Int
        BY <3>1, CashIsInt
      <3>3. Settlement(r) = [Moved(r.on, coins, r.key) EXCEPT !.rounding = owed - coins]
        BY DEF Settlement
      <3> HIDE DEF owed, coins
      <3> DEFINE paid == Moved(r.on, coins, r.key)
      <3>4. /\ Settlement(r) \in Row /\ ~Settlement(r).deposit /\ Settlement(r).reverses = 0
            /\ Settlement(r).refunds = 0
        <4>1. paid \in Row /\ ~paid.deposit /\ paid.reverses = 0 /\ paid.refunds = 0
          BY <1>3, <3>2, MovedIsLawful DEF Moved
        <4> HIDE DEF paid
        <4>2. Settlement(r) = [paid EXCEPT !.rounding = owed - coins]
          BY <3>3 DEF paid
        <4> QED  BY <3>2, <4>1, <4>2, MarkedRow
      <3>5. Len(rows) \in Nat
        BY DEF MoneyInv, TypeOK
      <3> QED  BY <2>2, <3>4, <3>5 DEF Lawful
    <2> QED  BY <2>1, <2>2
  <1> HIDE DEF row
  <1>5. /\ <<row>> \in Seq(Row) /\ \A k \in DOMAIN <<row>> : Lawful(<<row>>[k])
        /\ Single(r.does, <<row>>)
    BY <1>3, <1>4, OneRow
  <1>6. Decided(t, r, <<row>>)
    BY <1>1 DEF row
  <1> QED  BY <1>2, <1>5, <1>6, MoneyDecided

LEMMA ReceiveKeeps == ASSUME IInv, MoneyInv, NEW t \in Txs, Receive(t) PROVE MoneyInv'
  <1>1. PICK r \in Received : Decided(t, r, <<Moved(r.on, r.amount, r.key)>>)
    BY DEF Receive
  <1>2. UNCHANGED books
    BY DEF Receive
  <1>3. r.on \in Deposits /\ r.does = "receive" /\ r.amount \in Int /\ r.key \in MaybeKey
    <2>1. r.on \in Deposits /\ r.does = "receive" /\ r.key \in MaybeKey /\ r.amount \in Amounts
      BY DEF Received
    <2>2. \A a \in Amounts : a \in Int /\ -a \in Int
      BY AmountsAreMoney
    <2> QED  BY <2>1, <2>2
  <1> DEFINE row == Moved(r.on, r.amount, r.key)
  <1>4. row \in Row /\ Lawful(row) /\ ~row.deposit
    BY <1>3, MovedIsLawful DEF Moved
  <1> HIDE DEF row
  <1>5. /\ <<row>> \in Seq(Row) /\ \A k \in DOMAIN <<row>> : Lawful(<<row>>[k])
        /\ Single(r.does, <<row>>)
    BY <1>3, <1>4, OneRow
  <1>6. Decided(t, r, <<row>>)
    BY <1>1 DEF row
  <1> QED  BY <1>2, <1>5, <1>6, MoneyDecided

LEMMA PayOutKeeps == ASSUME IInv, MoneyInv, NEW t \in Txs, PayOut(t) PROVE MoneyInv'
  <1>1. PICK r \in PaidOut : Decided(t, r, <<Moved(r.on, -r.amount, r.key)>>)
    BY DEF PayOut
  <1>2. UNCHANGED books
    BY DEF PayOut
  <1>3. r.on \in Payouts /\ r.does = "pay out" /\ -r.amount \in Int /\ r.key \in MaybeKey
    <2>1. r.on \in Payouts /\ r.does = "pay out" /\ r.key \in MaybeKey /\ r.amount \in Amounts
      BY DEF PaidOut
    <2>2. \A a \in Amounts : a \in Int /\ -a \in Int
      BY AmountsAreMoney
    <2> QED  BY <2>1, <2>2
  <1> DEFINE row == Moved(r.on, -r.amount, r.key)
  <1>4. row \in Row /\ Lawful(row) /\ ~row.deposit
    BY <1>3, MovedIsLawful DEF Moved
  <1> HIDE DEF row
  <1>5. /\ <<row>> \in Seq(Row) /\ \A k \in DOMAIN <<row>> : Lawful(<<row>>[k])
        /\ Single(r.does, <<row>>)
    BY <1>3, <1>4, OneRow
  <1>6. Decided(t, r, <<row>>)
    BY <1>1 DEF row
  <1> QED  BY <1>2, <1>5, <1>6, MoneyDecided

LEMMA ApplyKeeps == ASSUME IInv, MoneyInv, NEW t \in Txs, Apply(t) PROVE MoneyInv'
  <1>1. PICK r \in Applied :
          tx' = [tx EXCEPT ![t].at = "locking", ![t].req = r, ![t].want = <<r.on>>]
    BY DEF Apply
  <1>2. UNCHANGED books
    BY DEF Apply
  <1>3. r.does = "apply" /\ r.amount \in Amounts /\ r.key \in MaybeKey
    BY DEF Applied
  <1>4. DOMAIN tx = Txs /\ DOMAIN tx[t] = Fields
    BY DEF IInv, Shape
  <1>5. \A u \in Txs \ {t} : tx'[u] = tx[u]
    BY <1>1, <1>4, Zenon
  <1>6. tx'[t].at = "locking" /\ tx'[t].req = r /\ tx'[t].rows = tx[t].rows /\ tx'[t].seen = tx[t].seen
    BY <1>1, <1>4, Zenon DEF Fields
  <1>7. tx'[t].seen \in 0..Len(rows) /\ tx'[t].rows \in Seq(Row)
    BY <1>6 DEF MoneyInv, TypeOK
  <1>8. Looked(t)' /\ StillLetIn(t)' /\ Written(t)'
    BY <1>3, <1>6 DEF Looked, StillLetIn, Written, Decisive, Does, MaybeKey
  <1> QED  BY <1>2, <1>5, <1>6, <1>7, <1>8, MoneyWaits

LEMMA DecideApplyKeeps == ASSUME IInv, MoneyInv, NEW t \in Txs, DecideApply(t) PROVE MoneyInv'
  <1> DEFINE r == tx[t].req
             out == [Moved(r.from, -r.amount, r.key) EXCEPT !.deposit = TRUE]
             in  == [Moved(r.on, r.amount, NoKey) EXCEPT !.deposit = TRUE]
  <1>1. tx[t].at = "locking" /\ r.does = "apply" /\ Decided(t, r, <<out, in>>) /\ UNCHANGED books
    BY DEF DecideApply, Does
  <1>2. r.from \in Deposits /\ r.on \in Invoices
    BY <1>1 DEF IInv, Good, Asked, Does
  <1>3. r.amount \in Int /\ -r.amount \in Int /\ r.key \in MaybeKey /\ NoKey \in MaybeKey
    BY <1>1, AmountsAreMoney DEF MoneyInv, Looked, Does, MaybeKey
  <1>4. Len(rows) \in Nat
    BY DEF MoneyInv, TypeOK
  <1>5. /\ out \in Row /\ out.deposit /\ out.on = r.from /\ out.reverses = 0 /\ out.refunds = 0
        /\ Settles(out) = -r.amount
    <2> DEFINE m == Moved(r.from, -r.amount, r.key)
    <2>1. m \in Row /\ m.on = r.from /\ m.reverses = 0 /\ m.refunds = 0 /\ Settles(m) = -r.amount
      BY <1>2, <1>3, MovedIsLawful DEF Moved
    <2>2. out = [m EXCEPT !.deposit = TRUE]
      OBVIOUS
    <2> HIDE DEF m, out
    <2> QED  BY <2>1, <2>2, MarkedRow DEF Settles
  <1>6. /\ in \in Row /\ in.deposit /\ in.on = r.on /\ in.reverses = 0 /\ in.refunds = 0
        /\ Settles(in) = r.amount
    <2> DEFINE m == Moved(r.on, r.amount, NoKey)
    <2>1. m \in Row /\ m.on = r.on /\ m.reverses = 0 /\ m.refunds = 0 /\ Settles(m) = r.amount
      BY <1>2, <1>3, MovedIsLawful DEF Moved
    <2>2. in = [m EXCEPT !.deposit = TRUE]
      OBVIOUS
    <2> HIDE DEF m, in
    <2> QED  BY <2>1, <2>2, MarkedRow DEF Settles
  <1> HIDE DEF out, in
  <1>7. Lawful(out) /\ Lawful(in)
    BY <1>4, <1>5, <1>6 DEF Lawful
  <1>8. <<out, in>> \in Seq(Row) /\ \A k \in DOMAIN <<out, in>> : Lawful(<<out, in>>[k])
    BY <1>5, <1>6, <1>7
  <1>9. Double(r.does, <<out, in>>)
    BY <1>1, <1>2, <1>3, <1>5, <1>6 DEF Double
  <1> QED  BY <1>1, <1>8, <1>9, MoneyDecided

LEMMA LookKeeps == ASSUME IInv, MoneyInv, NEW t \in Txs, Look(t) PROVE MoneyInv'
  <1> DEFINE seen(r) == IF r.does = "reverse" THEN Len(rows) ELSE 0
  <1>1. PICK r \in Refunding \cup Reversing :
          tx' = [tx EXCEPT ![t].at = "locking", ![t].req = r, ![t].want = ToLock(r.row), ![t].seen = seen(r)]
    BY DEF Look
  <1>2. UNCHANGED books /\ UNCHANGED <<rows, halves>>
    BY DEF Look, books
  <1>3. /\ r.does \in {"refund", "reverse"}
        /\ r.does = "refund" => r.amount \in Amounts /\ r.key \in MaybeKey
    BY DEF Refunding, Reversing
  <1>4. DOMAIN tx = Txs /\ DOMAIN tx[t] = Fields
    BY DEF IInv, Shape
  <1> DEFINE want == ToLock(r.row)
             at   == seen(r)
  <1>5. tx' = [tx EXCEPT ![t].at = "locking", ![t].req = r, ![t].want = want, ![t].seen = at]
    BY <1>1
  <1>6. at \in 0..Len(rows) /\ (r.does = "reverse" => at = Len(rows))
    BY DEF MoneyInv, TypeOK
  <1> HIDE DEF want, at
  <1>7. \A u \in Txs \ {t} : tx'[u] = tx[u]
    BY <1>4, <1>5, Zenon
  <1>8. tx'[t].at = "locking" /\ tx'[t].req = r /\ tx'[t].rows = tx[t].rows /\ tx'[t].seen = at
    BY <1>4, <1>5, Zenon DEF Fields
  <1>9. tx'[t].seen \in 0..Len(rows) /\ tx'[t].rows \in Seq(Row)
    BY <1>6, <1>8 DEF MoneyInv, TypeOK
  <1>10. StillLetIn(t)' /\ Written(t)'
    BY <1>8 DEF StillLetIn, Written, Decisive
  <1>11. Looked(t)'
    <2>1. ASSUME r.does = "reverse", NEW h \in halves
          PROVE  ReversedBy(h[1], at) <=> ReversedBy(h[2], at)
      <3>1. Reversed(h[1]) <=> Reversed(h[2])
        BY DEF MoneyInv, ApplicationsAreWhole
      <3>2. at = Len(rows)
        BY <1>6, <2>1
      <3>3. ReversedBy(h[1], at) <=> ReversedBy(h[2], at)
        BY <3>1, <3>2, Zenon DEF Reversed
      <3> QED  BY <3>3
    <2>2. PICK k : k = at
      OBVIOUS
    <2>3. \A n : ReversedBy(n, k)' <=> ReversedBy(n, k)
      BY <1>2, SameJournal
    <2>4. r.does = "reverse" => \A h \in halves' : ReversedBy(h[1], k)' <=> ReversedBy(h[2], k)'
      BY <1>2, <2>1, <2>2, <2>3
    <2>5. tx'[t].seen = k
      BY <1>8, <2>2
    <2> QED  BY <1>3, <1>8, <2>4, <2>5 DEF Looked, Does, MaybeKey
  <1> QED  BY <1>2, <1>7, <1>8, <1>9, <1>10, <1>11, MoneyWaits

LEMMA LockDepositKeeps == ASSUME IInv, MoneyInv, NEW t \in Txs, LockDeposit(t) PROVE MoneyInv'
  <1>1. PICK v : tx' = [tx EXCEPT ![t].want = v]
    BY Zenon DEF LockDeposit
  <1>2. UNCHANGED books /\ UNCHANGED <<rows, halves>> /\ tx[t].at = "locking"
    BY DEF LockDeposit, books
  <1>3. DOMAIN tx = Txs /\ DOMAIN tx[t] = Fields
    BY DEF IInv, Shape
  <1>4. \A u \in Txs \ {t} : tx'[u] = tx[u]
    BY <1>1, <1>3, Zenon
  <1>5. /\ tx'[t].at = tx[t].at /\ tx'[t].req = tx[t].req /\ tx'[t].rows = tx[t].rows
        /\ tx'[t].seen = tx[t].seen
    BY <1>1, <1>3, Zenon DEF Fields
  <1>6. tx'[t].seen \in 0..Len(rows) /\ tx'[t].rows \in Seq(Row)
    BY <1>5 DEF MoneyInv, TypeOK
  <1>7. StillLetIn(t)' /\ Written(t)'
    BY <1>2, <1>5 DEF StillLetIn, Written, Decisive
  <1>8. Looked(t)'
    BY <1>2, <1>5, SameJournal DEF MoneyInv, Looked, Does, MaybeKey
  <1> QED  BY <1>2, <1>4, <1>5, <1>6, <1>7, <1>8, MoneyWaits

LEMMA DecideRefundKeeps == ASSUME IInv, MoneyInv, NEW t \in Txs, DecideRefund(t) PROVE MoneyInv'
  <1> DEFINE r == tx[t].req
             row == [Moved(rows[r.row].on, -r.amount, r.key) EXCEPT !.refunds = r.row]
  <1>1. tx[t].at = "locking" /\ r.does = "refund" /\ Decided(t, r, <<row>>) /\ UNCHANGED books
    BY DEF DecideRefund, Does
  <1>2. r.row \in Numbers
    BY <1>1 DEF IInv, Good, Asked, Does
  <1>3. -r.amount \in Int /\ -r.amount < 0 /\ r.key \in MaybeKey
    BY <1>1, AmountsAreMoney DEF MoneyInv, Looked, Does
  <1>4. rows[r.row].on \in Invoices \cup Deposits \cup Payouts /\ r.row \in 1..Len(rows) /\ Len(rows) \in Nat
    BY <1>2, RowsAreTyped DEF MoneyInv, TypeOK, Row, Numbers
  <1>5. /\ row \in Row /\ row.reverses = 0 /\ row.refunds = r.row /\ row.amount < 0 /\ row.rounding = 0
        /\ ~row.deposit
    <2> DEFINE m == Moved(rows[r.row].on, -r.amount, r.key)
    <2>1. m \in Row /\ m.reverses = 0 /\ m.amount < 0 /\ m.rounding = 0 /\ ~m.deposit
      BY <1>3, <1>4, MovedIsLawful DEF Moved
    <2>2. row = [m EXCEPT !.refunds = r.row] /\ r.row \in Nat
      BY <1>4
    <2> HIDE DEF m, row
    <2> QED  BY <2>1, <2>2, MarkedRow
  <1> HIDE DEF row
  <1>6. Lawful(row)
    BY <1>4, <1>5 DEF Lawful
  <1>7. /\ <<row>> \in Seq(Row) /\ \A k \in DOMAIN <<row>> : Lawful(<<row>>[k])
        /\ Single(r.does, <<row>>)
    BY <1>1, <1>5, <1>6, OneRow
  <1> QED  BY <1>1, <1>7, MoneyDecided

LEMMA UndoneIsLawful ==
  ASSUME MoneyInv, NEW n \in Numbers
  PROVE  /\ Undone(n) \in Row /\ Lawful(Undone(n)) /\ Undone(n).deposit = rows[n].deposit
         /\ Undone(n).on = rows[n].on /\ Undone(n).reverses = n /\ Settles(Undone(n)) = -Settles(rows[n])
  <1>1. rows[n] \in Row /\ n \in 1..Len(rows) /\ Len(rows) \in Nat
    BY RowsAreTyped DEF MoneyInv, TypeOK, Numbers
  <1>2. PICK r \in Row : r = rows[n]
    BY <1>1
  <1> DEFINE a == -r.amount
             b == -r.rounding
  <1>3. Undone(n) = [r EXCEPT !.amount = a, !.rounding = b, !.reverses = n, !.refunds = 0, !.key = NoKey]
    BY <1>2, Zenon DEF Undone
  <1>4. /\ Undone(n) \in Row /\ Undone(n).deposit = r.deposit /\ Undone(n).on = r.on
        /\ Undone(n).reverses = n /\ Undone(n).refunds = 0
        /\ Undone(n).amount = -r.amount /\ Undone(n).rounding = -r.rounding
    <2>1. a \in Int /\ b \in Int /\ n \in Nat /\ 0 \in Nat
      BY <1>1 DEF Row
    <2>2. DOMAIN r = RowFields
      BY DEF Row, RowFields
    <2>3. /\ Undone(n).deposit = r.deposit /\ Undone(n).on = r.on
          /\ Undone(n).reverses = n /\ Undone(n).refunds = 0
          /\ Undone(n).amount = a /\ Undone(n).rounding = b
      BY <1>3, <2>2, Zenon DEF RowFields
    <2>4. Undone(n) \in Row
      BY <1>3, <2>1, Zenon DEF Row
    <2> QED  BY <2>3, <2>4
  <1>5. r.amount \in Int /\ r.rounding \in Int
    BY DEF Row
  <1>6. Settles(Undone(n)) = -Settles(r)
    BY <1>4, <1>5 DEF Settles
  <1> QED  BY <1>1, <1>2, <1>4, <1>6 DEF Lawful

LEMMA DecideReverseKeeps == ASSUME IInv, MoneyInv, NEW t \in Txs, DecideReverse(t) PROVE MoneyInv'
  <1> DEFINE n      == tx[t].req.row
             undone == IF rows[n].deposit THEN UndoneTogether(n, tx[t].seen) ELSE <<Undone(n)>>
  <1>1. /\ tx[t].at = "locking" /\ tx[t].req.does = "reverse" /\ undone # <<>>
        /\ Decided(t, tx[t].req, undone) /\ UNCHANGED books
    BY DEF DecideReverse, Does
  <1>2. n \in Numbers
    BY <1>1 DEF IInv, Good, Asked, Does
  <1>3. rows[n].deposit => IsHalf(n)
    BY <1>1, Zenon DEF IInv, Good, Asked, Does
  <1>4. /\ undone \in Seq(Row) /\ \A k \in DOMAIN undone : Lawful(undone[k])
        /\ Single("reverse", undone) \/ Double("reverse", undone)
    <2>1. CASE ~rows[n].deposit
      <3>1. undone = <<Undone(n)>>
        BY <2>1
      <3>2. PICK q : q = Undone(n)
        OBVIOUS
      <3>3. q \in Row /\ Lawful(q) /\ ~q.deposit
        BY <1>2, <2>1, <3>2, UndoneIsLawful
      <3>4. /\ <<q>> \in Seq(Row) /\ \A k \in DOMAIN <<q>> : Lawful(<<q>>[k])
            /\ Single("reverse", <<q>>)
        BY <3>3, OneRow
      <3>5. undone = <<q>>
        BY <3>1, <3>2
      <3> HIDE DEF undone
      <3> QED  BY <3>4, <3>5
    <2>2. CASE rows[n].deposit
      <3> DEFINE h == HalvesOf(n)
                 a == Undone(h[1])
                 b == Undone(h[2])
      <3>1. h \in halves /\ n \in {h[1], h[2]}
        BY <1>3, <2>2 DEF IsHalf, HalvesOf
      <3>2. h[1] \in Numbers /\ h[2] \in Numbers /\ h = <<h[1], h[2]>>
        BY <3>1 DEF MoneyInv, TypeOK
      <3>3. ReversedBy(h[1], tx[t].seen) <=> ReversedBy(h[2], tx[t].seen)
        BY <1>1, <3>1 DEF MoneyInv, Looked, Does
      <3>4. undone = (IF ReversedBy(h[1], tx[t].seen) THEN <<>> ELSE <<a>>)
                     \o (IF ReversedBy(h[2], tx[t].seen) THEN <<>> ELSE <<b>>)
        BY <2>2 DEF UndoneTogether
      <3>5. <<>> \o <<>> = <<>> /\ <<a>> \o <<b>> = <<a, b>>
        BY OneAndOne
      <3>6. undone = <<a, b>>
        BY <1>1, <3>3, <3>4, <3>5
      <3>7. /\ rows[h[1]].deposit /\ rows[h[2]].deposit /\ Settles(rows[h[1]]) + Settles(rows[h[2]]) = 0
            /\ rows[h[1]].on \in Deposits /\ rows[h[2]].on \in Invoices
        BY <3>1 DEF MoneyInv, HalvesAreWhole, IInv, Pairs
      <3>8. /\ a \in Row /\ Lawful(a) /\ a.deposit /\ a.on \in Deposits /\ a.reverses = h[1]
            /\ Settles(a) = -Settles(rows[h[1]])
        BY <3>2, <3>7, UndoneIsLawful
      <3>9. /\ b \in Row /\ Lawful(b) /\ b.deposit /\ b.on \in Invoices /\ b.reverses = h[2]
            /\ Settles(b) = -Settles(rows[h[2]])
        BY <3>2, <3>7, UndoneIsLawful
      <3>10. Settles(rows[h[1]]) \in Int /\ Settles(rows[h[2]]) \in Int
        BY <3>2, RowsAreTyped DEF MoneyInv, TypeOK, Numbers
      <3>11. Settles(a) + Settles(b) = 0
        BY <3>7, <3>8, <3>9, <3>10
      <3> HIDE DEF undone, h, a, b
      <3>12. undone \in Seq(Row) /\ \A k \in DOMAIN undone : Lawful(undone[k])
        BY <3>6, <3>8, <3>9
      <3>13. <<a.reverses, b.reverses>> \in halves
        BY <3>1, <3>2, <3>8, <3>9
      <3>14. Double("reverse", undone)
        BY <3>6, <3>8, <3>9, <3>11, <3>13 DEF Double
      <3> QED  BY <3>12, <3>14
    <2> QED  BY <2>1, <2>2
  <1> HIDE DEF undone
  <1> QED  BY <1>1, <1>4, MoneyDecided

LEMMA InsertKeeps == ASSUME IInv, MoneyInv, NEW t \in Txs, Insert(t) PROVE MoneyInv'
  <1> DEFINE stage == IF Does(t, "pay") \/ Does(t, "apply") THEN "closing" ELSE "ending"
  <1>1. /\ tx[t].at = "writing" /\ \A k \in DOMAIN tx[t].rows : LetIn(tx[t].rows[k])
        /\ tx' = [tx EXCEPT ![t].at = stage] /\ UNCHANGED books
    BY DEF Insert
  <1>2. stage \in {"closing", "ending"}
    OBVIOUS
  <1> HIDE DEF stage
  <1>3. DOMAIN tx = Txs /\ DOMAIN tx[t] = Fields
    BY DEF IInv, Shape
  <1>4. \A u \in Txs \ {t} : tx'[u] = tx[u]
    BY <1>1, <1>3, Zenon
  <1>5. /\ tx'[t].at = stage /\ tx'[t].req = tx[t].req /\ tx'[t].rows = tx[t].rows
        /\ tx'[t].seen = tx[t].seen
    BY <1>1, <1>3, Zenon DEF Fields
  <1>6. UNCHANGED <<rows, halves>> /\ credited' = credited
    BY <1>1 DEF books
  <1>7. /\ tx[t].seen \in 0..Len(rows) /\ tx[t].rows \in Seq(Row)
        /\ credited \in [Invoices -> 0..Total] /\ \A i \in Invoices : credited[i] \in Int
    BY OwedIsInt DEF MoneyInv, TypeOK
  <1>8. Looked(t)'
    BY <1>2, <1>5 DEF Looked
  <1>9. Written(t)'
    BY <1>1, <1>2, <1>5, <1>6, SameJournal DEF MoneyInv, Written, Decisive, Single, Double
  <1>10. StillLetIn(t)'
    <2> SUFFICES ASSUME NEW k \in DOMAIN tx[t].rows PROVE MoneyFits(tx[t].rows[k])'
      BY <1>5 DEF StillLetIn
    <2>1. tx[t].rows[k] \in Row /\ MoneyFits(tx[t].rows[k])
      BY <1>1, <1>7 DEF LetIn, MoneyFits
    <2>2. PICK r : r = tx[t].rows[k]
      OBVIOUS
    <2>3. TypeOK /\ credited' \in [Invoices -> 0..Total] /\ \A i \in Invoices : credited'[i] >= credited[i]
      BY <1>6, <1>7 DEF MoneyInv
    <2>4. MoneyFits(r)'
      BY <1>6, <2>1, <2>2, <2>3, StillFits
    <2> QED  BY <1>5, <2>2, <2>4
  <1> QED  BY <1>1, <1>2, <1>4, <1>5, <1>7, <1>8, <1>9, <1>10, MoneyWaits

LEMMA CloseKeeps == ASSUME IInv, MoneyInv, NEW t \in Txs, Close(t) PROVE MoneyInv'
  <1>1. tx[t].at = "closing" /\ UNCHANGED books
    BY DEF Close
  <1>2. PICK c : tx' = [tx EXCEPT ![t].at = "ending", ![t].closes = c]
    BY DEF Close
  <1>3. DOMAIN tx = Txs /\ DOMAIN tx[t] = Fields
    BY DEF IInv, Shape
  <1>4. \A u \in Txs \ {t} : tx'[u] = tx[u]
    BY <1>2, <1>3, Zenon
  <1>5. /\ tx'[t].at = "ending" /\ tx'[t].req = tx[t].req /\ tx'[t].rows = tx[t].rows
        /\ tx'[t].seen = tx[t].seen
    BY <1>2, <1>3, Zenon DEF Fields
  <1>6. UNCHANGED <<rows, halves>> /\ credited' = credited
    BY <1>1 DEF books
  <1>7. /\ tx[t].seen \in 0..Len(rows) /\ tx[t].rows \in Seq(Row)
        /\ credited \in [Invoices -> 0..Total] /\ \A i \in Invoices : credited[i] \in Int
    BY OwedIsInt DEF MoneyInv, TypeOK
  <1>8. Looked(t)'
    BY <1>5 DEF Looked
  <1>9. Written(t)'
    BY <1>1, <1>5, <1>6, SameJournal DEF MoneyInv, Written, Decisive, Single, Double
  <1>10. StillLetIn(t)'
    <2> SUFFICES ASSUME NEW k \in DOMAIN tx[t].rows PROVE MoneyFits(tx[t].rows[k])'
      BY <1>5 DEF StillLetIn
    <2>1. tx[t].rows[k] \in Row /\ MoneyFits(tx[t].rows[k])
      BY <1>1, <1>7 DEF MoneyInv, StillLetIn
    <2>2. PICK r : r = tx[t].rows[k]
      OBVIOUS
    <2>3. TypeOK /\ credited' \in [Invoices -> 0..Total] /\ \A i \in Invoices : credited'[i] >= credited[i]
      BY <1>6, <1>7 DEF MoneyInv
    <2>4. MoneyFits(r)'
      BY <1>6, <2>1, <2>2, <2>3, StillFits
    <2> QED  BY <1>5, <2>2, <2>4
  <1> QED  BY <1>1, <1>4, <1>5, <1>7, <1>8, <1>9, <1>10, MoneyWaits

LEMMA IdleMoney ==
  ASSUME IInv, NEW t \in Txs, Over(t)
  PROVE  /\ \A u \in Txs \ {t} : tx'[u] = tx[u]
         /\ tx'[t].at = "idle" /\ tx'[t].seen = 0 /\ tx'[t].rows = <<>>
         /\ Looked(t)' /\ Written(t)' /\ StillLetIn(t)'
  <1>1. tx'[t] = Idle /\ \A u \in Txs \ {t} : tx'[u] = tx[u]
    BY DEF Over, IInv, Shape
  <1>2. tx'[t].at = "idle" /\ tx'[t].seen = 0 /\ tx'[t].rows = <<>>
    BY <1>1 DEF Idle
  <1> QED  BY <1>1, <1>2 DEF Looked, Written, Decisive, StillLetIn

LEMMA LeaveKeeps == ASSUME IInv, MoneyInv, NEW t \in Txs, Leave(t) PROVE MoneyInv'
  <1>1. Over(t) /\ UNCHANGED books
    BY DEF Leave
  <1>2. 0 \in 0..Len(rows) /\ <<>> \in Seq(Row)
    BY DEF MoneyInv, TypeOK
  <1> QED  BY <1>1, <1>2, IdleMoney, MoneyWaits

LEMMA ElsewhereKeeps == ASSUME MoneyInv, NEW i \in Invoices, Elsewhere(i) PROVE MoneyInv'
  <1>1. UNCHANGED <<rows, halves>> /\ tx' = tx
    BY DEF Elsewhere, Credit, Collect, BringBack, CloseByHand
  <1>2. /\ credited \in [Invoices -> 0..Total] /\ \A j \in Invoices : credited[j] \in Int
        /\ job \in [Invoices -> {"invoiced", "closed"}] /\ here \in [Invoices -> BOOLEAN]
    BY OwedIsInt DEF MoneyInv, TypeOK
  <1>3. /\ credited' \in [Invoices -> 0..Total] /\ \A j \in Invoices : credited'[j] >= credited[j]
    <2>1. CASE credited' = credited
      BY <1>2, <2>1
    <2>2. CASE \E a \in Amounts : credited[i] + a <= Total /\ credited' = [credited EXCEPT ![i] = @ + a]
      <3>1. PICK a \in Amounts : credited[i] + a <= Total /\ credited' = [credited EXCEPT ![i] = @ + a]
        BY <2>2
      <3>2. a \in Nat /\ Total \in Nat
        BY AmountsAreMoney
      <3>3. credited[i] \in 0..Total /\ credited[i] + a \in 0..Total
        BY <1>2, <3>1, <3>2
      <3> QED  BY <1>2, <3>1, <3>2, <3>3
    <2> QED  BY <2>1, <2>2 DEF Elsewhere, Credit, Collect, BringBack, CloseByHand
  <1>4. job' \in [Invoices -> {"invoiced", "closed"}] /\ here' \in [Invoices -> BOOLEAN]
    BY <1>2 DEF Elsewhere, Credit, Collect, BringBack, CloseByHand
  <1> QED  BY <1>1, <1>3, <1>4, MoneyStands

-----------------------------------------------------------------------------
(* The step that commits.                                                  *)

\* The rows w go on the end of the journal.
Appends(w) ==
  /\ rows \in Seq(Row) /\ w \in Seq(Row) /\ rows' \in Seq(Row) /\ Len(rows) \in Nat /\ Len(w) \in Nat
  /\ Numbers = 1..Len(rows) /\ DOMAIN w = 1..Len(w)
  /\ Numbers' = 1..(Len(rows) + Len(w)) /\ Len(rows') = Len(rows) + Len(w)
  /\ \A n \in Numbers : n \in Numbers' /\ rows'[n] = rows[n]
  /\ \A k \in DOMAIN w : /\ Len(rows) + k \in Numbers' \ Numbers
                         /\ rows'[Len(rows) + k] = w[k] /\ Lawful(w[k])
  /\ \A n \in Numbers' \ Numbers : \E k \in DOMAIN w : n = Len(rows) + k
  /\ RowsAreLawful

LEMMA ReversedIs ==
  ASSUME rows \in Seq(Row) PROVE \A n : Reversed(n) <=> \E m \in Numbers : rows[m].reverses = n
  <1>1. Len(rows) \in Nat /\ Numbers = 1..Len(rows)
    BY RowsAreTyped DEF Numbers
  <1>2. \A m \in Numbers : m <= Len(rows)
    BY <1>1
  <1> QED  BY <1>2, Zenon DEF Reversed, ReversedBy

LEMMA ReversedIsThen ==
  ASSUME rows' \in Seq(Row) PROVE \A n : Reversed(n)' <=> \E m \in Numbers' : rows'[m].reverses = n
  <1>1. Len(rows') \in Nat /\ Numbers' = 1..Len(rows')
    BY RowsAreTyped DEF Numbers
  <1>2. \A m \in Numbers' : m <= Len(rows')
    BY <1>1
  <1> QED  BY <1>2, Zenon DEF Reversed, ReversedBy

\* A row is reversed when it was or when it is now, and a new row is not.
LEMMA ReversedThen ==
  ASSUME NEW w, Appends(w)
  PROVE  /\ \A n \in Numbers : Reversed(n)' <=> Reversed(n) \/ \E k \in DOMAIN w : w[k].reverses = n
         /\ \A n \in Numbers' \ Numbers : ~Reversed(n)' /\ RefundsOf(n)' = {}
         /\ \A n \in Numbers, k \in 0..Len(rows) : ReversedBy(n, k)' <=> ReversedBy(n, k)
  <1>1. \A n : Reversed(n) <=> \E m \in Numbers : rows[m].reverses = n
    BY ReversedIs DEF Appends
  <1>2. \A n : Reversed(n)' <=> \E m \in Numbers' : rows'[m].reverses = n
    BY ReversedIsThen DEF Appends
  <1>3. ASSUME NEW n \in Numbers
        PROVE  Reversed(n)' <=> Reversed(n) \/ \E k \in DOMAIN w : w[k].reverses = n
    <2>1. ASSUME NEW m \in Numbers', rows'[m].reverses = n
          PROVE  Reversed(n) \/ \E k \in DOMAIN w : w[k].reverses = n
      BY <1>1, <2>1 DEF Appends
    <2>2. Reversed(n) => Reversed(n)'
      BY <1>1, <1>2 DEF Appends
    <2>3. (\E k \in DOMAIN w : w[k].reverses = n) => Reversed(n)'
      BY <1>2 DEF Appends
    <2> QED  BY <1>2, <2>1, <2>2, <2>3
  <1>4. ASSUME NEW n \in Numbers' \ Numbers, NEW m \in Numbers'
        PROVE  rows'[m].reverses # n /\ rows'[m].refunds # n
    <2>1. CASE m \in Numbers
      <3>1. rows'[m] = rows[m] /\ rows[m].reverses \in 0..Len(rows) /\ rows[m].refunds \in 0..Len(rows)
        BY <2>1 DEF Appends, RowsAreLawful, Lawful
      <3>2. n \notin 0..Len(rows)
        BY DEF Appends
      <3> QED  BY <3>1, <3>2
    <2>2. CASE m \notin Numbers
      <3>1. PICK k \in DOMAIN w : m = Len(rows) + k
        BY <2>2 DEF Appends
      <3>2. rows'[m] = w[k] /\ w[k].reverses \in 0..Len(rows) /\ w[k].refunds \in 0..Len(rows)
        BY <3>1 DEF Appends, Lawful
      <3>3. n \notin 0..Len(rows)
        BY DEF Appends
      <3> QED  BY <3>2, <3>3
    <2> QED  BY <2>1, <2>2
  <1>5. \A n \in Numbers' \ Numbers : ~Reversed(n)' /\ RefundsOf(n)' = {}
    BY <1>2, <1>4 DEF RefundsOf
  <1>6. ASSUME NEW n \in Numbers, NEW k \in 0..Len(rows) PROVE ReversedBy(n, k)' <=> ReversedBy(n, k)
    <2>1. \A m \in Numbers' : m <= k => m \in Numbers
      BY <1>6 DEF Appends
    <2>2. \A m \in Numbers : m \in Numbers' /\ rows'[m] = rows[m]
      BY DEF Appends
    <2> QED  BY <2>1, <2>2, Zenon DEF ReversedBy
  <1> QED  BY <1>3, <1>5, <1>6

LEMMA LawfulThen == ASSUME NEW w, Appends(w), NEW r, Lawful(r) PROVE Lawful(r)'
  <1>1. r \in Row /\ r.reverses \in 0..Len(rows') /\ r.refunds \in 0..Len(rows')
    BY DEF Lawful, Appends
  <1>2. r.reverses # 0 => r.reverses \in Numbers /\ rows'[r.reverses] = rows[r.reverses]
    BY DEF Lawful, Appends
  <1>3. Row' = Row
    BY DEF Row
  <1> QED  BY <1>1, <1>2, <1>3 DEF Lawful, Settles

LEMMA RowsStayLawful ==
  ASSUME NEW w, Appends(w), \A k \in DOMAIN w : RefundsWithin(w[k])
  PROVE  RowsAreLawful'
  <1> SUFFICES ASSUME NEW n \in Numbers'
               PROVE  Lawful(rows[n])' /\ (rows'[n].refunds # 0 => IsReceipt(rows[n].refunds)')
    BY DEF RowsAreLawful
  <1>1. PICK r : r = rows'[n]
    OBVIOUS
  <1>2. Lawful(r) /\ (r.refunds # 0 => IsReceipt(r.refunds))
    <2>1. CASE n \in Numbers
      BY <1>1, <2>1 DEF Appends, RowsAreLawful
    <2>2. CASE n \notin Numbers
      BY <1>1, <2>2 DEF Appends, RefundsWithin
    <2> QED  BY <2>1, <2>2
  <1>3. Lawful(r)'
    BY <1>2, LawfulThen
  <1>4. ASSUME r.refunds # 0 PROVE IsReceipt(r.refunds)'
    <2>1. r.refunds \in Numbers /\ rows'[r.refunds] = rows[r.refunds]
      BY <1>2, <1>4 DEF Lawful, Appends
    <2> QED  BY <1>2, <1>4, <2>1 DEF IsReceipt
  <1> QED  BY <1>1, <1>3, <1>4

\* Of the rows that go on the end at most one is against the same thing.
OnOthers(w) == \A k, l \in DOMAIN w : w[k].on = w[l].on => k = l

LEMMA TargetThen ==
  ASSUME NEW w, Appends(w), OnOthers(w), NEW x
  PROVE  \/ /\ \A k \in DOMAIN w : w[k].on # x
            /\ On(x)' = On(x) /\ Comes(rows', On(x)') = Comes(rows, On(x))
         \/ \E k \in DOMAIN w :
              /\ w[k].on = x /\ On(x)' = On(x) \cup {Len(rows) + k}
              /\ Comes(rows', On(x)') = Comes(rows, On(x)) + Settles(w[k])
  <1>1. On(x) \in SUBSET DOMAIN rows /\ On(x) \subseteq DOMAIN rows' /\ \A n \in On(x) : rows'[n] = rows[n]
    BY DEF On, Appends, Numbers
  <1>2. Comes(rows', On(x)) = Comes(rows, On(x))
    BY <1>1, ComesSame DEF Appends
  <1>3. \A n \in On(x)' : n \in On(x) \/ \E k \in DOMAIN w : n = Len(rows) + k /\ w[k].on = x
    BY DEF On, Appends
  <1>4. On(x) \subseteq On(x)' /\ \A k \in DOMAIN w : w[k].on = x => Len(rows) + k \in On(x)'
    BY DEF On, Appends
  <1>5. CASE \A k \in DOMAIN w : w[k].on # x
    <2>1. On(x)' = On(x)
      BY <1>3, <1>4, <1>5
    <2> QED  BY <1>2, <1>5, <2>1
  <1>6. ASSUME NEW k \in DOMAIN w, w[k].on = x
        PROVE  /\ On(x)' = On(x) \cup {Len(rows) + k}
               /\ Comes(rows', On(x)') = Comes(rows, On(x)) + Settles(w[k])
    <2>1. On(x)' = On(x) \cup {Len(rows) + k}
      BY <1>3, <1>4, <1>6 DEF OnOthers
    <2>2. /\ Len(rows) + k \in (DOMAIN rows') \ On(x) /\ rows'[Len(rows) + k] = w[k]
          /\ On(x) \in SUBSET DOMAIN rows' /\ rows' \in Seq(Row)
      BY <1>1, <1>6 DEF Appends, Numbers
    <2>3. Comes(rows', On(x) \cup {Len(rows) + k}) = Comes(rows', On(x)) + Settles(rows'[Len(rows) + k])
      BY <2>2, ComesFacts
    <2> QED  BY <1>2, <2>1, <2>2, <2>3
  <1> QED  BY <1>5, <1>6

\* 0081, after the rows are there.
LEMMA DepositsThen ==
  ASSUME NEW w, Appends(w), OnOthers(w), \A k \in DOMAIN w : DepositHolds(w[k]), DepositsNeverNegative
  PROVE  DepositsNeverNegative'
  <1> SUFFICES ASSUME NEW d \in Deposits PROVE Held(d)' >= 0
    BY DEF DepositsNeverNegative
  <1>1. Held(d) = Comes(rows, On(d)) /\ Held(d)' = Comes(rows', On(d)')
    BY InTheseTerms
  <1>2. Held(d) >= 0 /\ Held(d) \in Int
    BY <1>1, Subsets, ComesFacts DEF DepositsNeverNegative, Appends, Numbers
  <1>3. CASE On(d)' = On(d) /\ Comes(rows', On(d)') = Comes(rows, On(d))
    BY <1>1, <1>2, <1>3
  <1>4. ASSUME NEW k \in DOMAIN w, w[k].on = d,
               Comes(rows', On(d)') = Comes(rows, On(d)) + Settles(w[k])
        PROVE  Held(d)' >= 0
    <2>1. Settles(w[k]) \in Int
      BY <1>4, RowsAreTyped DEF Appends
    <2>2. Settles(w[k]) < 0 => Held(d) + Settles(w[k]) >= 0
      BY <1>4 DEF DepositHolds
    <2> QED  BY <1>1, <1>2, <1>4, <2>1, <2>2
  <1> QED  BY <1>3, <1>4, TargetThen

\* A row undoes one against the same thing, and only one of the journal's rows
\* against that thing is newly reversed.
LEMMA BackThen ==
  ASSUME NEW w, Appends(w), OnOthers(w), NEW x
  PROVE  /\ (\A k \in DOMAIN w : w[k].on # x) => Back(x)' = Back(x)
         /\ \A k \in DOMAIN w : w[k].on = x /\ w[k].reverses = 0 =>
              Back(x)' = IF GivesBack(w[k]) THEN Back(x) \cup {Len(rows) + k} ELSE Back(x)
         /\ \A k \in DOMAIN w : w[k].on = x /\ w[k].reverses # 0 =>
              Back(x)' = Back(x) \ {w[k].reverses}
  <1>1. \A n \in Numbers : (n \in On(x)' <=> n \in On(x)) /\ (GivesBack(rows[n])' <=> GivesBack(rows[n]))
    <2>1. \A n \in Numbers : n \in On(x)' <=> n \in On(x)
      BY DEF On, Appends
    <2>2. \A n \in Numbers : rows'[n] = rows[n]
      BY DEF Appends
    <2>3. \A n \in Numbers : GivesBack(rows[n])' <=> GivesBack(rows[n])
      BY <2>2 DEF GivesBack, Settles
    <2> QED  BY <2>1, <2>3
  <1>3. ASSUME NEW n \in Numbers, n \in On(x), NEW k \in DOMAIN w, w[k].reverses = n PROVE w[k].on = x
    <2>1. rows[n].on = x /\ n # 0
      BY <1>3 DEF On, Appends
    <2> QED  BY <1>3, <2>1 DEF Appends, Lawful
  <1>4. \A n \in Numbers : Reversed(n)' <=> Reversed(n) \/ \E k \in DOMAIN w : w[k].reverses = n
    BY ReversedThen
  <1>5. \A n : n \in Back(x) <=> n \in On(x) /\ GivesBack(rows[n]) /\ ~Reversed(n)
    BY DEF Back
  <1>6. \A n : n \in Back(x)' <=> n \in On(x)' /\ GivesBack(rows[n])' /\ ~Reversed(n)'
    BY DEF Back
  <1>7. ASSUME NEW n \in Numbers
        PROVE  n \in Back(x)' <=> n \in Back(x) /\ ~ \E k \in DOMAIN w : w[k].on = x /\ w[k].reverses = n
    BY <1>1, <1>3, <1>4, <1>5, <1>6, Zenon
  <1>8. ASSUME NEW k \in DOMAIN w
        PROVE  Len(rows) + k \in Back(x)' <=> w[k].on = x /\ GivesBack(w[k])
    <2>1. PICK n : n = Len(rows) + k
      OBVIOUS
    <2>2. n \in Numbers' /\ rows'[n] = w[k] /\ ~Reversed(n)'
      BY <2>1, ReversedThen DEF Appends
    <2>3. n \in On(x)' <=> w[k].on = x
      BY <2>2 DEF On
    <2>4. GivesBack(rows[n])' <=> GivesBack(w[k])
      BY <2>2 DEF GivesBack, Settles
    <2> QED  BY <1>6, <2>1, <2>2, <2>3, <2>4
  <1>9. /\ \A n \in Back(x) : n \in Numbers
        /\ \A n \in Back(x)' : n \in Numbers \/ \E k \in DOMAIN w : n = Len(rows) + k
    <2>1. (\A n \in On(x) : n \in Numbers) /\ (\A n \in On(x)' : n \in Numbers')
      BY DEF On
    <2>2. \A n \in Numbers' : n \in Numbers \/ \E k \in DOMAIN w : n = Len(rows) + k
      BY DEF Appends
    <2> QED  BY <1>5, <1>6, <2>1, <2>2
  <1>10. ASSUME \A k \in DOMAIN w : w[k].on # x PROVE Back(x)' = Back(x)
    <2>1. \A n \in Numbers : n \in Back(x)' <=> n \in Back(x)
      BY <1>7, <1>10
    <2>2. \A n \in Back(x)' : n \in Numbers
      BY <1>8, <1>9, <1>10
    <2> QED  BY <1>9, <2>1, <2>2
  <1>11. ASSUME NEW k \in DOMAIN w, w[k].on = x, w[k].reverses = 0
         PROVE  Back(x)' = IF GivesBack(w[k]) THEN Back(x) \cup {Len(rows) + k} ELSE Back(x)
    <2>1. \A n \in Numbers : n \in Back(x)' <=> n \in Back(x)
      <3>1. \A n \in Numbers : n # 0
        BY DEF Appends
      <3> QED  BY <1>7, <1>11, <3>1 DEF OnOthers
    <2>2. \A l \in DOMAIN w : Len(rows) + l \in Back(x)' <=> l = k /\ GivesBack(w[k])
      BY <1>8, <1>11 DEF OnOthers
    <2> QED  BY <1>9, <2>1, <2>2
  <1>12. ASSUME NEW k \in DOMAIN w, w[k].on = x, w[k].reverses # 0
         PROVE  Back(x)' = Back(x) \ {w[k].reverses}
    <2>1. \A n \in Numbers : n \in Back(x)' <=> n \in Back(x) /\ n # w[k].reverses
      BY <1>7, <1>12 DEF OnOthers
    <2>2. ~GivesBack(w[k])
      BY <1>12 DEF Appends, Lawful, GivesBack
    <2>3. \A l \in DOMAIN w : Len(rows) + l \notin Back(x)'
      BY <1>8, <1>12, <2>2 DEF OnOthers
    <2> QED  BY <1>9, <2>1, <2>3
  <1> QED  BY <1>10, <1>11, <1>12

\* 0086, after the rows are there.
LEMMA GivenBackThen ==
  ASSUME NEW w, Appends(w), OnOthers(w), TypeOK, credited' = credited,
         \A k \in DOMAIN w : ReversesOnce(w[k]) /\ InvoiceOwesBack(w[k]), GivenBackWasPaidOver
  PROVE  GivenBackWasPaidOver'
  <1> SUFFICES ASSUME NEW i \in Invoices, GivenBack(i)' > 0 PROVE Owed(i)' <= 0
    BY DEF GivenBackWasPaidOver
  <1> DEFINE back == Comes(rows, Back(i))
  <1>1. GivenBack(i) = -back /\ GivenBack(i)' = -Comes(rows', Back(i)') /\ back \in Int
    BY InTheseTerms, Subsets, ComesFacts DEF TypeOK, Numbers
  <1>2. Owed(i) \in Int /\ (GivenBack(i) > 0 => Owed(i) <= 0)
    BY OwedIsInt DEF GivenBackWasPaidOver
  <1>3. /\ Comes(rows, On(i)) \in Int /\ credited[i] \in Int /\ Total \in Int
        /\ Owed(i) = Total - credited[i] - Comes(rows, On(i))
        /\ Owed(i)' = Total - credited[i] - Comes(rows', On(i)')
    <2>1. Comes(rows, On(i)) \in Int /\ credited[i] \in Int
      BY Subsets, ComesFacts, OwedIsInt DEF TypeOK, Numbers
    <2> QED  BY <2>1, InTheseTerms, AmountsAreMoney
  \* Back's rows of before are the same rows.
  <1>4. ASSUME NEW S \in SUBSET Numbers PROVE Comes(rows', S) = Comes(rows, S) /\ S \in SUBSET DOMAIN rows'
    <2>1. S \in SUBSET DOMAIN rows /\ S \subseteq DOMAIN rows' /\ \A n \in S : rows'[n] = rows[n]
      BY DEF Appends, Numbers
    <2> QED  BY <2>1, ComesSame DEF Appends
  <1> HIDE DEF back
  <1>5. CASE \A k \in DOMAIN w : w[k].on # i
    <2>1. Back(i)' = Back(i) /\ Comes(rows', On(i)') = Comes(rows, On(i))
      BY <1>5, BackThen, TargetThen
    <2>2. GivenBack(i)' = GivenBack(i)
      BY <1>1, <1>4, <2>1, Subsets DEF back
    <2> QED  BY <1>2, <1>3, <2>1, <2>2
  <1>6. ASSUME NEW k \in DOMAIN w, w[k].on = i PROVE Owed(i)' <= 0
    <2> DEFINE s == Settles(w[k])
    <2>1. s \in Int /\ w[k] \in Row /\ Lawful(w[k])
      BY <1>6, RowsAreTyped DEF Appends
    <2>2. Owed(i)' = Owed(i) - s
      <3>1. Comes(rows', On(i)') = Comes(rows, On(i)) + s
        BY <1>6, TargetThen DEF OnOthers
      <3> HIDE DEF s
      <3> QED  BY <1>3, <2>1, <3>1
    <2>3. s < 0 => LET given == GivenBack(i) + IF GivesBack(w[k]) THEN -s ELSE 0
                   IN  given > 0 => Owed(i) - s <= 0
      BY <1>6 DEF InvoiceOwesBack
    <2>4. CASE w[k].reverses = 0 /\ GivesBack(w[k])
      <3>1. s < 0
        BY <2>1, <2>4 DEF GivesBack, Lawful, Settles, Row
      <3>2. /\ Back(i)' = Back(i) \cup {Len(rows) + k}
            /\ Back(i) \in SUBSET Numbers /\ Len(rows) + k \in (DOMAIN rows') \ Back(i)
            /\ rows'[Len(rows) + k] = w[k] /\ rows' \in Seq(Row)
        BY <1>6, <2>4, BackThen, Subsets DEF Appends, Numbers
      <3>3. Comes(rows', Back(i) \cup {Len(rows) + k}) = Comes(rows', Back(i)) + s
        BY <1>4, <3>2, ComesFacts
      <3>4. GivenBack(i)' = GivenBack(i) - s
        BY <1>1, <1>4, <2>1, <3>2, <3>3 DEF back
      <3> HIDE DEF s
      <3> QED  BY <1>1, <1>2, <2>1, <2>2, <2>3, <2>4, <3>1, <3>4
    <2>5. CASE w[k].reverses = 0 /\ ~GivesBack(w[k])
      <3>1. Back(i)' = Back(i)
        BY <1>6, <2>5, BackThen
      <3>2. GivenBack(i)' = GivenBack(i)
        BY <1>1, <1>4, <3>1, Subsets DEF back
      <3> HIDE DEF s
      <3> QED  BY <1>1, <1>2, <2>1, <2>2, <2>3, <2>5, <3>2
    <2>6. CASE w[k].reverses # 0
      <3> DEFINE n == w[k].reverses
      <3>1. n \in Numbers /\ rows[n].on = i /\ s = -Settles(rows[n]) /\ ~GivesBack(w[k])
        BY <1>6, <2>1, <2>6 DEF Appends, Lawful, GivesBack
      <3>2. Back(i)' = Back(i) \ {n} /\ Back(i) \in SUBSET Numbers
        BY <1>6, <2>6, BackThen, Subsets
      <3>3. Settles(rows[n]) \in Int
        BY <3>1, RowsAreTyped DEF Appends, Numbers
      <3>4. CASE n \notin Back(i)
        <4>1. GivenBack(i)' = GivenBack(i)
          BY <1>1, <1>4, <3>2, <3>4 DEF back
        <4> HIDE DEF s, n
        <4> QED  BY <1>1, <1>2, <2>1, <2>2, <2>3, <3>1, <4>1
      <3>5. CASE n \in Back(i)
        <4>1. GivesBack(rows[n]) /\ Lawful(rows[n]) /\ rows[n] \in Row
          BY <3>1, <3>5 DEF Back, Appends, RowsAreLawful, Lawful
        <4>2. Settles(rows[n]) < 0
          <5>1. PICK q \in Row : q = rows[n]
            BY <4>1
          <5>2. q.amount \in Int /\ q.rounding \in Int /\ (q.refunds # 0 => q.amount < 0 /\ q.rounding = 0)
            BY <4>1, <5>1 DEF Row, Lawful
          <5>3. q.refunds # 0 \/ Settles(q) < 0
            BY <4>1, <5>1 DEF GivesBack
          <5>4. Settles(q) = q.amount + q.rounding
            BY DEF Settles
          <5>5. Settles(q) < 0
            BY <5>2, <5>3, <5>4
          <5> QED  BY <5>1, <5>5
        <4>3. Comes(rows, Back(i) \ {n}) = back - Settles(rows[n])
          <5>1. PICK S : S = Back(i)
            OBVIOUS
          <5>2. PICK m : m = n
            OBVIOUS
          <5>3. S \in SUBSET DOMAIN rows /\ m \in S /\ rows \in Seq(Row)
            BY <3>2, <3>5, <5>1, <5>2 DEF Appends, Numbers
          <5>4. Comes(rows, S \ {m}) = Comes(rows, S) - Settles(rows[m])
            BY <5>3, ComesFacts
          <5> QED  BY <5>1, <5>2, <5>4 DEF back
        <4>4. Comes(rows', Back(i)') = back - Settles(rows[n])
          BY <1>4, <3>2, <4>3
        <4>5. GivenBack(i)' = GivenBack(i) - s
          BY <1>1, <3>1, <3>3, <4>4
        <4> HIDE DEF s, n
        <4> QED  BY <1>1, <1>2, <2>1, <2>2, <3>1, <3>3, <4>2, <4>5
      <3> QED  BY <3>4, <3>5
    <2> QED  BY <2>4, <2>5, <2>6
  <1> QED  BY <1>5, <1>6

\* journal.go, after the rows are there.
LEMMA RefundsThen ==
  ASSUME NEW w, Appends(w), Len(w) = 1 \/ \A k \in DOMAIN w : w[k].deposit,
         \A k \in DOMAIN w : ReversesOnce(w[k]) /\ RefundsWithin(w[k]), RefundsWithinPayment
  PROVE  RefundsWithinPayment'
  <1> SUFFICES ASSUME NEW n \in Numbers', RefundsOf(n)' # {}
               PROVE  ~Reversed(n)' /\ Refunded(n)' <= rows'[n].amount
    BY DEF RefundsWithinPayment
  <1>1. n \in Numbers /\ rows'[n] = rows[n]
    BY ReversedThen DEF Appends
  <1>2. rows[n] \in Row /\ rows[n].amount \in Int
    BY <1>1, RowsAreTyped DEF Appends, Numbers
  <1> DEFINE A == RefundsOf(n)
             B == RefundsOf(n)'
  <1>3. /\ A \in SUBSET Numbers /\ A \in SUBSET DOMAIN rows'
        /\ Given(rows', A) = Given(rows, A) /\ Given(rows, A) \in Int
        /\ Refunded(n) = -Given(rows, A) /\ Refunded(n)' = -Given(rows', B)
    <2>1. A \in SUBSET DOMAIN rows /\ A \subseteq DOMAIN rows' /\ \A m \in A : rows'[m] = rows[m]
      BY Subsets DEF Appends, Numbers
    <2>2. Given(rows', A) = Given(rows, A) /\ Given(rows, A) \in Int
      <3> HIDE DEF A
      <3> QED  BY <2>1, ComesSame, GivenFacts DEF Appends
    <2>3. Refunded(n) = -Given(rows, A) /\ Refunded(n)' = -Given(rows', B)
      BY InTheseTerms
    <2>4. A \in SUBSET Numbers /\ A \in SUBSET DOMAIN rows'
      BY <2>1 DEF Numbers
    <2> QED  BY <2>2, <2>3, <2>4
  <1>4. \A m \in Numbers : Reversed(m)' <=> Reversed(m) \/ \E k \in DOMAIN w : w[k].reverses = m
    BY ReversedThen
  <1>5. \A m \in Numbers : m \in B => m \in A
    <2>1. \A m \in Numbers : rows'[m] = rows[m]
      BY DEF Appends
    <2> QED  BY <1>4, <2>1 DEF RefundsOf
  <1>6. ASSUME NEW k \in DOMAIN w, Len(rows) + k \in B PROVE w[k].refunds = n
    BY <1>6 DEF RefundsOf, Appends
  <1>7. \A m \in B : m \in Numbers \/ \E k \in DOMAIN w : m = Len(rows) + k
    BY DEF RefundsOf, Appends
  <1> HIDE DEF A, B
  <1>8. CASE \E k \in DOMAIN w : w[k].refunds = n
    <2>1. PICK k \in DOMAIN w : w[k].refunds = n
      BY <1>8
    <2>2. n # 0
      BY <1>1 DEF Appends
    <2>3. w[k].reverses = 0 /\ ~w[k].deposit /\ w[k] \in Row
      BY <2>1, <2>2 DEF Appends, Lawful
    <2>4. k = 1 /\ \A l \in DOMAIN w : l = k
      BY <2>3 DEF Appends
    <2>5. ~Reversed(n) /\ Refunded(n) - w[k].amount <= rows[n].amount
      BY <2>1, <2>2 DEF RefundsWithin
    <2>6. \A m \in Numbers : Reversed(m)' <=> Reversed(m)
      <3>1. \A m \in Numbers : m # 0
        BY DEF Appends
      <3> QED  BY <1>4, <2>3, <2>4, <3>1
    <2>7. B = A \cup {Len(rows) + k}
      <3>1. Len(rows) + k \in B
        <4>1. Len(rows) + k \in Numbers' \ Numbers /\ rows'[Len(rows) + k].refunds = n
          BY <2>1 DEF Appends
        <4>2. PICK m : m = Len(rows) + k
          OBVIOUS
        <4>3. ~Reversed(m)' /\ rows'[m].refunds = n /\ m \in Numbers'
          BY <4>1, <4>2, ReversedThen
        <4>4. m \in B
          BY <4>3 DEF RefundsOf, B
        <4> QED  BY <4>2, <4>4
      <3>2. \A m \in A : m \in B
        <4>1. \A m \in Numbers : m \in Numbers' /\ rows'[m] = rows[m]
          BY DEF Appends
        <4> QED  BY <1>3, <2>6, <4>1 DEF RefundsOf, A, B
      <3> QED  BY <1>5, <1>7, <2>4, <3>1, <3>2
    <2>8. Given(rows', B) = Given(rows', A) + w[k].amount
      <3>1. Len(rows) + k \in (DOMAIN rows') \ A /\ rows'[Len(rows) + k] = w[k] /\ rows' \in Seq(Row)
        BY <1>3 DEF Appends, Numbers
      <3> QED  BY <1>3, <2>7, <3>1, GivenFacts
    <2>9. w[k].amount \in Int
      BY <2>3 DEF Row
    <2> QED  BY <1>1, <1>2, <1>3, <2>5, <2>6, <2>8, <2>9
  <1>9. CASE \A k \in DOMAIN w : w[k].refunds # n
    <2>1. B \in SUBSET A /\ A # {}
      BY <1>5, <1>6, <1>7, <1>9 DEF B
    <2>2. ~Reversed(n) /\ Refunded(n) <= rows[n].amount
      BY <1>1, <2>1 DEF RefundsWithinPayment, A
    <2>3. rows[n].refunds = 0
      <3>1. PICK m \in A : TRUE
        BY <2>1
      <3>2. m \in Numbers /\ rows[m].refunds = n /\ n # 0
        BY <1>1 DEF A, RefundsOf, Appends
      <3>3. IsReceipt(n)
        BY <3>2 DEF Appends, RowsAreLawful
      <3> QED  BY <3>3 DEF IsReceipt
    <2>4. ~Reversed(n)'
      <3>1. \A k \in DOMAIN w : w[k].reverses # n
        <4> SUFFICES ASSUME NEW k \in DOMAIN w, w[k].reverses = n PROVE FALSE
          OBVIOUS
        <4>1. n # 0
          BY <1>1 DEF Appends
        <4>2. RefundsOf(n) = {}
          BY <2>3, <4>1 DEF ReversesOnce
        <4> QED  BY <2>1, <4>2 DEF A
      <3> QED  BY <1>1, <1>4, <2>2, <3>1
    <2>5. \A m \in A \ B : rows[m].amount <= 0
      <3>1. ASSUME NEW m \in A PROVE rows[m].amount < 0 /\ rows[m] \in Row
        <4>1. m \in Numbers /\ rows[m].refunds # 0
          BY <1>1 DEF A, RefundsOf, Appends
        <4> QED  BY <4>1 DEF Appends, RowsAreLawful, Lawful
      <3>2. \A r \in Row : r.amount \in Int
        BY DEF Row
      <3> QED  BY <3>1, <3>2
    <2>6. Given(rows, A) <= Given(rows, B)
      <3>1. A \in SUBSET DOMAIN rows
        BY <1>3 DEF Numbers
      <3> QED  BY <2>1, <2>5, <3>1, GivenFacts DEF Appends
    <2>7. Given(rows', B) = Given(rows, B) /\ Given(rows, B) \in Int
      <3>1. B \in SUBSET DOMAIN rows /\ B \subseteq DOMAIN rows' /\ \A m \in B : rows'[m] = rows[m]
        BY <1>3, <2>1 DEF Appends, Numbers
      <3> QED  BY <3>1, ComesSame, GivenFacts DEF Appends
    <2> QED  BY <1>1, <1>2, <1>3, <2>2, <2>4, <2>6, <2>7
  <1> QED  BY <1>8, <1>9

\* What the halves of an application are, after the rows are there.
LEMMA HalvesThen ==
  ASSUME NEW w, Appends(w), NEW does, Single(does, w) \/ Double(does, w),
         halves \subseteq Numbers \X Numbers, HalvesAreWhole,
         halves' = halves \cup IF does = "apply" THEN {<<Len(rows) + 1, Len(rows) + 2>>} ELSE {}
  PROVE  HalvesAreWhole' /\ halves' \subseteq Numbers' \X Numbers'
  <1>1. ASSUME NEW h \in halves
        PROVE  /\ h \in Numbers \X Numbers /\ h[1] \in Numbers /\ h[2] \in Numbers
               /\ rows'[h[1]] = rows[h[1]] /\ rows'[h[2]] = rows[h[2]]
    BY DEF Appends
  <1> DEFINE own == <<Len(rows) + 1, Len(rows) + 2>>
  <1>2. ASSUME does = "apply"
        PROVE  /\ own \in Numbers' \X Numbers' /\ own[1] \notin Numbers /\ own[2] \notin Numbers
               /\ rows'[own[1]] = w[1] /\ rows'[own[2]] = w[2]
               /\ w[1].deposit /\ w[2].deposit /\ Settles(w[1]) + Settles(w[2]) = 0
    <2>1. /\ Len(w) = 2 /\ w[1].deposit /\ w[2].deposit /\ Settles(w[1]) + Settles(w[2]) = 0
      BY <1>2 DEF Single, Double
    <2>2. 1 \in DOMAIN w /\ 2 \in DOMAIN w
      BY <2>1 DEF Appends
    <2> QED  BY <2>1, <2>2 DEF Appends
  <1>3. halves' = halves \cup IF does = "apply" THEN {own} ELSE {}
    OBVIOUS
  <1>4. \A n \in Numbers : n \in Numbers'
    BY DEF Appends
  <1>5. Len(rows) + 1 # Len(rows) + 2
    BY DEF Appends
  <1> HIDE DEF own
  <1>6. halves' \subseteq Numbers' \X Numbers'
    BY <1>1, <1>2, <1>3, <1>4
  <1>7. ASSUME NEW h \in halves'
        PROVE  /\ rows'[h[1]].deposit /\ rows'[h[2]].deposit
               /\ Settles(rows'[h[1]]) + Settles(rows'[h[2]]) = 0
    <2>1. CASE h \in halves
      BY <1>1, <2>1 DEF HalvesAreWhole
    <2>2. CASE does = "apply" /\ h = own
      BY <1>2, <2>2
    <2> QED  BY <1>3, <1>7, <2>1, <2>2
  <1>8. ASSUME NEW g \in halves', NEW h \in halves', g[1] = h[1] \/ g[2] = h[2] PROVE g = h
    <2>1. CASE g \in halves /\ h \in halves
      BY <1>8, <2>1 DEF HalvesAreWhole
    <2>2. CASE g \in halves /\ h \notin halves
      BY <1>1, <1>2, <1>3, <1>8, <2>2
    <2>3. CASE g \notin halves /\ h \in halves
      BY <1>1, <1>2, <1>3, <1>8, <2>3
    <2>4. CASE g \notin halves /\ h \notin halves
      BY <1>3, <2>4
    <2> QED  BY <2>1, <2>2, <2>3, <2>4
  <1> QED  BY <1>6, <1>7, <1>8 DEF HalvesAreWhole, Settles

\* payments.go, reverseApplicationTx, after the rows are there.
LEMMA ApplicationsThen ==
  ASSUME NEW w, Appends(w), NEW does, Single(does, w) \/ Double(does, w),
         halves \subseteq Numbers \X Numbers, HalvesAreWhole, Pairs, ApplicationsAreWhole,
         halves' = halves \cup IF does = "apply" THEN {<<Len(rows) + 1, Len(rows) + 2>>} ELSE {}
  PROVE  ApplicationsAreWhole'
  <1>1. ASSUME NEW h \in halves
        PROVE  (\E k \in DOMAIN w : w[k].reverses = h[1]) <=> (\E k \in DOMAIN w : w[k].reverses = h[2])
    <2>1. /\ h[1] \in Numbers /\ h[2] \in Numbers /\ h[1] # 0 /\ h[2] # 0
          /\ rows[h[1]].deposit /\ rows[h[2]].deposit
          /\ rows[h[1]].on \in Deposits /\ rows[h[2]].on \in Invoices
      BY DEF Appends, HalvesAreWhole, Pairs
    <2>2. ASSUME NEW k \in DOMAIN w, w[k].reverses \in {h[1], h[2]}
          PROVE  w[k].deposit /\ w[k].on = rows[w[k].reverses].on
      <3>1. Lawful(w[k]) /\ w[k].reverses # 0
        BY <2>1, <2>2 DEF Appends
      <3>2. w[k].on = rows[w[k].reverses].on /\ w[k].deposit = rows[w[k].reverses].deposit
        BY <3>1, Zenon DEF Lawful
      <3>3. rows[w[k].reverses].deposit
        BY <2>1, <2>2
      <3> QED  BY <3>2, <3>3
    <2>3. CASE Single(does, w)
      <3>1. \A k \in DOMAIN w : ~w[k].deposit
        <4>1. \A k \in DOMAIN w : k = 1
          BY <2>3 DEF Single, Appends
        <4> QED  BY <2>3, <4>1 DEF Single
      <3> QED  BY <2>2, <3>1
    <2>4. CASE Double(does, w)
      <3>1. DOMAIN w = {1, 2}
        BY <2>4 DEF Double, Appends
      <3>2. w[1].on \in Deposits /\ w[2].on \in Invoices
        BY <2>4 DEF Double
      <3>3. w[1].reverses # h[2] /\ w[2].reverses # h[1]
        BY <2>1, <2>2, <3>1, <3>2, TargetsDiffer
      <3>4. w[1].reverses = h[1] <=> w[2].reverses = h[2]
        <4>1. CASE w[1].reverses = 0 /\ w[2].reverses = 0
          BY <2>1, <4>1
        <4>2. CASE <<w[1].reverses, w[2].reverses>> \in halves
          <5>1. PICK g \in halves : g[1] = w[1].reverses /\ g[2] = w[2].reverses
            BY <4>2
          <5> QED  BY <5>1 DEF HalvesAreWhole
        <4> QED  BY <2>4, <4>1, <4>2 DEF Double
      <3> QED  BY <3>1, <3>3, <3>4
    <2> QED  BY <2>3, <2>4
  <1>2. ASSUME NEW h \in halves' PROVE Reversed(h[1])' <=> Reversed(h[2])'
    <2>1. CASE h \in halves
      <3>1. h[1] \in Numbers /\ h[2] \in Numbers
        BY <2>1 DEF Pairs
      <3>2. Reversed(h[1]) <=> Reversed(h[2])
        BY <2>1 DEF ApplicationsAreWhole
      <3>3. \A n \in Numbers : Reversed(n)' <=> Reversed(n) \/ \E k \in DOMAIN w : w[k].reverses = n
        BY ReversedThen
      <3> QED  BY <1>1, <2>1, <3>1, <3>2, <3>3
    <2>2. CASE does = "apply" /\ h = <<Len(rows) + 1, Len(rows) + 2>>
      <3>1. 1 \in DOMAIN w /\ 2 \in DOMAIN w
        <4>1. Len(w) = 2
          BY <2>2, Zenon DEF Single, Double
        <4> QED  BY <4>1 DEF Appends
      <3>2. PICK m, n : m = Len(rows) + 1 /\ n = Len(rows) + 2
        OBVIOUS
      <3>3. m \in Numbers' \ Numbers /\ n \in Numbers' \ Numbers
        BY <3>1, <3>2 DEF Appends
      <3>4. ~Reversed(m)' /\ ~Reversed(n)'
        BY <3>3, ReversedThen
      <3>5. h[1] = m /\ h[2] = n
        BY <2>2, <3>2
      <3> QED  BY <3>4, <3>5
    <2> QED  BY <1>2, <2>1, <2>2
  <1> DEFINE D == {n \in Numbers : rows[n].deposit}
  <1>3. SettledBy(D)' = 0
    <2> DEFINE S == D
               E == D'
    <2>1. SettledBy(D) = Comes(rows, S) /\ SettledBy(D)' = Comes(rows', E)
      BY DEF SettledBy, Comes, Worths, Numbers
    <2>2. /\ S \in SUBSET DOMAIN rows /\ S \in SUBSET DOMAIN rows' /\ \A n \in S : rows'[n] = rows[n]
          /\ Comes(rows, S) = 0
      BY <2>1 DEF Appends, Numbers, ApplicationsAreWhole
    <2>3. \A n : n \in E <=> n \in Numbers' /\ rows'[n].deposit
      OBVIOUS
    <2>4. \A n : n \in S <=> n \in Numbers /\ rows[n].deposit
      OBVIOUS
    <2> HIDE DEF S, E, D
    <2>5. Comes(rows', S) = 0
      BY <2>2, ComesSame DEF Appends
    <2>6. /\ \A n \in Numbers : n \in E <=> n \in S
          /\ \A k \in DOMAIN w : Len(rows) + k \in E <=> w[k].deposit
          /\ \A n \in E : n \in Numbers \/ \E k \in DOMAIN w : n = Len(rows) + k
          /\ \A n \in S : n \in Numbers
      <3>1. \A n \in Numbers : n \in Numbers' /\ rows'[n] = rows[n]
        BY DEF Appends
      <3>2. \A k \in DOMAIN w : Len(rows) + k \in Numbers' /\ rows'[Len(rows) + k] = w[k]
        BY DEF Appends
      <3>3. \A n \in Numbers' : n \in Numbers \/ \E k \in DOMAIN w : n = Len(rows) + k
        BY DEF Appends
      <3> QED  BY <2>3, <2>4, <3>1, <3>2, <3>3
    <2>7. CASE Single(does, w)
      <3>1. \A k \in DOMAIN w : ~w[k].deposit
        <4>1. \A k \in DOMAIN w : k = 1
          BY <2>7 DEF Single, Appends
        <4> QED  BY <2>7, <4>1 DEF Single
      <3>2. E = S
        BY <2>6, <3>1
      <3> QED  BY <2>1, <2>5, <3>2
    <2>8. CASE Double(does, w)
      <3>1. DOMAIN w = {1, 2} /\ w[1].deposit /\ w[2].deposit
        BY <2>8 DEF Double, Appends
      <3>2. PICK m, n : m = Len(rows) + 1 /\ n = Len(rows) + 2
        OBVIOUS
      <3>3. /\ m \in DOMAIN rows' /\ n \in DOMAIN rows' /\ m \notin S /\ n \notin S /\ m # n
            /\ rows'[m] = w[1] /\ rows'[n] = w[2] /\ rows' \in Seq(Row)
        <4>1. /\ m \in Numbers' \ Numbers /\ n \in Numbers' \ Numbers /\ m # n
              /\ rows'[m] = w[1] /\ rows'[n] = w[2] /\ rows' \in Seq(Row)
          <5>1. 1 \in DOMAIN w /\ 2 \in DOMAIN w
            BY <3>1
          <5>2. m \in Numbers' \ Numbers /\ rows'[m] = w[1]
            BY <3>2, <5>1 DEF Appends
          <5>3. n \in Numbers' \ Numbers /\ rows'[n] = w[2]
            BY <3>2, <5>1 DEF Appends
          <5>4. m # n /\ rows' \in Seq(Row)
            BY <3>2 DEF Appends
          <5> QED  BY <5>2, <5>3, <5>4
        <4> QED  BY <2>6, <4>1 DEF Numbers
      <3>4. E = (S \cup {m}) \cup {n}
        BY <2>6, <3>1, <3>2
      <3>5. Comes(rows', S \cup {m}) = Comes(rows', S) + Settles(w[1])
        BY <2>2, <3>3, ComesFacts
      <3>6. Comes(rows', (S \cup {m}) \cup {n}) = Comes(rows', S \cup {m}) + Settles(w[2])
        <4>1. S \cup {m} \in SUBSET DOMAIN rows' /\ n \in (DOMAIN rows') \ (S \cup {m})
          BY <2>2, <3>3
        <4> QED  BY <3>3, <4>1, ComesFacts
      <3>7. Settles(w[1]) \in Int /\ Settles(w[2]) \in Int /\ Settles(w[1]) + Settles(w[2]) = 0
        BY <2>8, <3>1, RowsAreTyped DEF Double, Appends
      <3> QED  BY <2>1, <2>5, <3>4, <3>5, <3>6, <3>7
    <2> QED  BY <2>7, <2>8
  <1> QED  BY <1>2, <1>3 DEF ApplicationsAreWhole

\* What a transaction commits goes on the end of the journal.
LEMMA CommitAppends ==
  ASSUME IInv, MoneyInv, NEW t \in Txs, Commit(t), NEW w, w = tx[t].rows
  PROVE  Appends(w) /\ OnOthers(w) /\ (Len(w) = 1 \/ \A k \in DOMAIN w : w[k].deposit)
  <1>1. PICK does : does = tx[t].req.does
    OBVIOUS
  <1>3. tx[t].at = "ending" /\ rows' = rows \o w
    BY DEF Commit
  <1>4. TypeOK /\ rows \in Seq(Row) /\ w \in Seq(Row) /\ RowsAreLawful
    BY DEF MoneyInv, TypeOK
  <1>5. /\ \A k \in DOMAIN w : Lawful(w[k])
        /\ Single(does, w) \/ Double(does, w)
    BY <1>1, <1>3 DEF MoneyInv, Written, Decisive
  <1>6. Appends(w)
    <2>1. IsSeq(rows) /\ IsSeq(w)
      BY <1>4, SeqOfItsElements
    <2>2. /\ Len(rows) \in Nat /\ Len(w) \in Nat /\ Numbers = 1..Len(rows) /\ DOMAIN w = 1..Len(w)
          /\ Numbers' = 1..(Len(rows) + Len(w))
          /\ \A k \in Numbers : k \in Numbers' /\ rows'[k] = rows[k]
          /\ \A k \in DOMAIN w : Len(rows) + k \in Numbers' /\ rows'[Len(rows) + k] = w[k]
          /\ \A k \in Numbers' : k \in Numbers \/ k - Len(rows) \in DOMAIN w
      BY <1>3, <2>1, Appended DEF Numbers
    <2>3. rows' \in Seq(Row) /\ Len(rows') = Len(rows) + Len(w)
      BY <1>3, <1>4, ConcatProperties
    <2>4. \A k \in DOMAIN w : Len(rows) + k \notin Numbers
      BY <2>2
    <2>5. \A n \in Numbers' \ Numbers : \E k \in DOMAIN w : n = Len(rows) + k
      <3> SUFFICES ASSUME NEW n \in Numbers' \ Numbers PROVE \E k \in DOMAIN w : n = Len(rows) + k
        OBVIOUS
      <3>1. n - Len(rows) \in DOMAIN w /\ n = Len(rows) + (n - Len(rows))
        BY <2>2
      <3> QED  BY <3>1
    <2> QED  BY <1>4, <1>5, <2>2, <2>3, <2>4, <2>5 DEF Appends
  <1>7. OnOthers(w) /\ (Len(w) = 1 \/ \A k \in DOMAIN w : w[k].deposit)
    <2>1. DOMAIN w = 1..Len(w)
      BY <1>6 DEF Appends
    <2>2. CASE Len(w) = 1
      BY <2>1, <2>2 DEF OnOthers
    <2>3. CASE Double(does, w)
      <3>1. DOMAIN w = {1, 2}
        BY <2>1, <2>3 DEF Double
      <3>2. w[1].deposit /\ w[2].deposit /\ w[1].on # w[2].on
        BY <2>3, TargetsDiffer DEF Double
      <3> QED  BY <3>1, <3>2 DEF OnOthers
    <2> QED  BY <1>5, <2>2, <2>3 DEF Single
  <1> QED  BY <1>6, <1>7

LEMMA CommitKeeps == ASSUME IInv, MoneyInv, NEW t \in Txs, Commit(t) PROVE MoneyInv'
  <1>1. PICK w : w = tx[t].rows
    OBVIOUS
  <1>2. PICK does : does = tx[t].req.does
    OBVIOUS
  <1>3. /\ tx[t].at = "ending" /\ rows' = rows \o w /\ Over(t) /\ UNCHANGED <<credited, here>>
        /\ halves' = halves \cup IF does = "apply" THEN {<<Len(rows) + 1, Len(rows) + 2>>} ELSE {}
        /\ job' = IF tx[t].closes THEN [job EXCEPT ![tx[t].req.on] = "closed"] ELSE job
    BY <1>1, <1>2 DEF Commit, Does
  <1>4. /\ TypeOK /\ rows \in Seq(Row) /\ w \in Seq(Row) /\ halves \subseteq Numbers \X Numbers
        /\ RowsAreLawful /\ HalvesAreWhole /\ ApplicationsAreWhole /\ Pairs
        /\ GivenBackWasPaidOver /\ DepositsNeverNegative /\ RefundsWithinPayment
    BY <1>1 DEF MoneyInv, TypeOK, PaidOutWasPaidIn, IInv
  <1>5. /\ \A k \in DOMAIN w : Lawful(w[k]) /\ ReversesOnce(w[k]) /\ RefundsWithin(w[k])
        /\ \A k \in DOMAIN w : DepositHolds(w[k]) /\ InvoiceOwesBack(w[k])
        /\ Single(does, w) \/ Double(does, w)
    BY <1>1, <1>2, <1>3 DEF MoneyInv, StillLetIn, Written, Decisive, MoneyFits
  <1>6. Appends(w)
    BY <1>1, CommitAppends
  <1>7. OnOthers(w) /\ (Len(w) = 1 \/ \A k \in DOMAIN w : w[k].deposit)
    BY <1>1, CommitAppends
  <1>8. RowsAreLawful' /\ HalvesAreWhole' /\ halves' \subseteq Numbers' \X Numbers'
    BY <1>3, <1>4, <1>5, <1>6, RowsStayLawful, HalvesThen
  <1>9. ApplicationsAreWhole'
    BY <1>3, <1>4, <1>5, <1>6, ApplicationsThen
  <1>10. PaidOutWasPaidIn'
    <2>1. GivenBackWasPaidOver'
      BY <1>3, <1>4, <1>5, <1>6, <1>7, GivenBackThen
    <2>2. DepositsNeverNegative'
      BY <1>4, <1>5, <1>6, <1>7, DepositsThen
    <2>3. RefundsWithinPayment'
      BY <1>4, <1>5, <1>6, <1>7, RefundsThen
    <2> QED  BY <2>1, <2>2, <2>3 DEF PaidOutWasPaidIn
  <1>11. /\ \A u \in Txs \ {t} : tx'[u] = tx[u]
         /\ tx'[t].at = "idle" /\ tx'[t].seen = 0 /\ tx'[t].rows = <<>>
         /\ Looked(t)' /\ Written(t)' /\ StillLetIn(t)'
    BY <1>3, IdleMoney
  <1>12. TypeOK'
    <2>1. ASSUME NEW u \in Txs
          PROVE  /\ tx'[u].at \in {"idle", "locking", "writing", "closing", "ending"}
                 /\ tx'[u].seen \in 0..Len(rows') /\ tx'[u].rows \in Seq(Row)
      <3>1. CASE u = t
        <4>1. 0 \in 0..Len(rows') /\ <<>> \in Seq(Row)
          BY <1>6 DEF Appends
        <4> QED  BY <1>11, <3>1, <4>1
      <3>2. CASE u # t
        <4>1. /\ tx[u].at \in {"idle", "locking", "writing", "closing", "ending"}
              /\ tx[u].seen \in 0..Len(rows) /\ tx[u].rows \in Seq(Row)
          BY <1>4 DEF TypeOK
        <4>2. 0..Len(rows) \subseteq 0..Len(rows')
          BY <1>6 DEF Appends
        <4>3. tx'[u] = tx[u]
          BY <1>11, <3>2
        <4> QED  BY <4>1, <4>2, <4>3
      <3> QED  BY <3>1, <3>2
    <2>2. job' \in [Invoices -> {"invoiced", "closed"}]
      BY <1>3, <1>4 DEF TypeOK
    <2>3. Row' = Row
      BY DEF Row
    <2> QED  BY <1>3, <1>4, <1>6, <1>8, <2>1, <2>2, <2>3 DEF TypeOK, Appends
  <1>13. ASSUME NEW u \in Txs \ {t} PROVE Looked(u)' /\ Written(u)' /\ StillLetIn(u)'
    <2>1. tx'[u] = tx[u] /\ Looked(u) /\ Written(u) /\ Good(u) /\ tx[u].seen \in 0..Len(rows)
      BY <1>4, <1>11 DEF MoneyInv, IInv, TypeOK
    <2>2. tx[u].at \notin {"closing", "ending"}
      BY <1>3, OneHasTheRow DEF IInv, Good, HasSeries
    <2>3. StillLetIn(u)'
      BY <2>1, <2>2 DEF StillLetIn
    <2>4. Written(u)'
      <3> SUFFICES ASSUME tx[u].at = "writing" PROVE Written(u)'
        BY <2>1, <2>2 DEF Written, Decisive
      <3>1. PICK v : v = tx[u].rows
        OBVIOUS
      <3>2. (\A k \in DOMAIN v : Lawful(v[k])) /\ (Single(tx[u].req.does, v) \/ Double(tx[u].req.does, v))
        BY <2>1, <3>1 DEF Written, Decisive
      <3>3. \A k \in DOMAIN v : Lawful(v[k])'
        <4> SUFFICES ASSUME NEW k \in DOMAIN v PROVE Lawful(v[k])'
          OBVIOUS
        <4>1. PICK r : r = v[k]
          OBVIOUS
        <4>2. Lawful(r)'
          BY <1>6, <3>2, <4>1, LawfulThen
        <4> QED  BY <4>1, <4>2
      <3>4. PICK d : d = tx[u].req.does
        OBVIOUS
      <3>5. Single(d, v)' \/ Double(d, v)'
        <4>1. halves \subseteq halves'
          BY <1>3
        <4>2. Single(d, v) => Single(d, v)'
          BY DEF Single
        <4>3. Double(d, v) => Double(d, v)'
          BY <4>1 DEF Double, Settles
        <4> QED  BY <3>2, <3>4, <4>2, <4>3
      <3> QED  BY <2>1, <3>1, <3>3, <3>4, <3>5 DEF Written
    <2>5. Looked(u)'
      <3> SUFFICES ASSUME tx[u].at = "locking" PROVE Looked(u)'
        BY <2>1 DEF Looked
      <3>1. PICK k : k = tx[u].seen
        OBVIOUS
      <3>2. ASSUME Does(u, "reverse"), NEW h \in halves', tx[u].req.row \in {h[1], h[2]}
            PROVE  ReversedBy(h[1], k)' <=> ReversedBy(h[2], k)'
        <4>1. tx[u].req.row \in Numbers
          BY <2>1, <3>2 DEF Good, Asked, Does
        <4>2. h \in halves
          BY <1>3, <1>6, <3>2, <4>1 DEF Appends
        <4>3. h[1] \in Numbers /\ h[2] \in Numbers
          BY <1>4, <4>2 DEF Pairs
        <4>4. ReversedBy(h[1], k) <=> ReversedBy(h[2], k)
          BY <2>1, <3>1, <3>2, <4>2 DEF Looked
        <4>5. \A n \in Numbers : ReversedBy(n, k)' <=> ReversedBy(n, k)
          BY <1>6, <2>1, <3>1, ReversedThen
        <4> QED  BY <4>3, <4>4, <4>5
      <3> QED  BY <2>1, <3>1, <3>2 DEF Looked, Does, MaybeKey
    <2> QED  BY <2>3, <2>4, <2>5
  <1> QED  BY <1>8, <1>9, <1>10, <1>11, <1>12, <1>13 DEF MoneyInv

LEMMA InitMoney == Init => MoneyInv
  <1> SUFFICES ASSUME Init PROVE MoneyInv
    OBVIOUS
  <1>1. rows = <<>> /\ halves = {} /\ Numbers = {} /\ Len(rows) = 0 /\ rows \in Seq(Row)
    BY DEF Init, Numbers
  <1>2. /\ credited \in [Invoices -> 0..Total] /\ job \in [Invoices -> {"invoiced", "closed"}]
        /\ here \in [Invoices -> BOOLEAN] /\ \A i \in Invoices : credited[i] = 0
    BY AmountsAreMoney DEF Init
  <1>3. \A t \in Txs : tx[t].at = "idle" /\ tx[t].seen = 0 /\ tx[t].rows = <<>>
    BY DEF Init, Idle
  <1>4. TypeOK
    <2>1. halves \subseteq Numbers \X Numbers
      BY <1>1
    <2>2. 0 \in 0..Len(rows) /\ <<>> \in Seq(Row)
      BY <1>1
    <2>3. ASSUME NEW t \in Txs
          PROVE  /\ tx[t].at \in {"idle", "locking", "writing", "closing", "ending"}
                 /\ tx[t].seen \in 0..Len(rows) /\ tx[t].rows \in Seq(Row)
      BY <1>3, <2>2
    <2> QED  BY <1>1, <1>2, <2>1, <2>3 DEF TypeOK
  <1>5. RowsAreLawful /\ HalvesAreWhole
    BY <1>1 DEF RowsAreLawful, HalvesAreWhole
  <1>6. \A t \in Txs : Looked(t) /\ Written(t) /\ StillLetIn(t)
    BY <1>3 DEF Looked, Written, Decisive, StillLetIn
  <1>7. Comes(rows, {}) = 0
    BY SumOfNone DEF Comes
  <1>8. \A x : On(x) = {} /\ Back(x) = {} /\ RefundsOf(x) = {}
    BY <1>1 DEF On, Back, RefundsOf
  <1>9. PaidOutWasPaidIn
    <2>1. \A i \in Invoices : GivenBack(i) = 0
      BY <1>7, <1>8, InTheseTerms
    <2>2. \A d \in Deposits : Held(d) = 0
      BY <1>7, <1>8, InTheseTerms
    <2> QED  BY <1>1, <2>1, <2>2 DEF PaidOutWasPaidIn, GivenBackWasPaidOver, DepositsNeverNegative, RefundsWithinPayment
  <1>10. ApplicationsAreWhole
    <2>1. {n \in Numbers : rows[n].deposit} = {}
      BY <1>1
    <2>2. SettledBy({}) = 0
      BY <1>7, InTheseTerms
    <2> QED  BY <1>1, <2>1, <2>2 DEF ApplicationsAreWhole
  <1> QED  BY <1>4, <1>5, <1>6, <1>9, <1>10 DEF MoneyInv

LEMMA NextKeepsMoney == IInv /\ MoneyInv /\ [Next]_vars => MoneyInv'
  <1> SUFFICES ASSUME IInv, MoneyInv, [Next]_vars PROVE MoneyInv'
    OBVIOUS
  <1>1. CASE UNCHANGED vars
    <2>1. UNCHANGED <<rows, halves>> /\ credited' = credited /\ job' = job /\ here' = here /\ tx' = tx
      BY <1>1 DEF vars, books
    <2>2. /\ credited \in [Invoices -> 0..Total] /\ \A i \in Invoices : credited[i] \in Int
          /\ job \in [Invoices -> {"invoiced", "closed"}] /\ here \in [Invoices -> BOOLEAN]
      BY OwedIsInt DEF MoneyInv, TypeOK
    <2> QED  BY <2>1, <2>2, MoneyStands
  <1>2. ASSUME NEW i \in Invoices, Elsewhere(i) PROVE MoneyInv'
    BY <1>2, ElsewhereKeeps
  <1>3. ASSUME NEW t \in Txs, Step(t) PROVE MoneyInv'
    <2>1. CASE Pay(t) \/ Receive(t) \/ PayOut(t)
      BY <2>1, PayKeeps, ReceiveKeeps, PayOutKeeps
    <2>2. CASE Apply(t) \/ DecideApply(t)
      BY <2>2, ApplyKeeps, DecideApplyKeeps
    <2>3. CASE Look(t) \/ LockDeposit(t) \/ DecideRefund(t) \/ DecideReverse(t)
      BY <2>3, LookKeeps, LockDepositKeeps, DecideRefundKeeps, DecideReverseKeeps
    <2>4. CASE Insert(t) \/ Close(t) \/ Commit(t) \/ Leave(t)
      BY <2>4, InsertKeeps, CloseKeeps, CommitKeeps, LeaveKeeps
    <2> QED  BY <1>3, <2>1, <2>2, <2>3, <2>4 DEF Step
  <1> QED  BY <1>1, <1>2, <1>3 DEF Next

\* The inductive invariant about money: what the rows say of one another, what
\* was read before the locks, and what the database let in until it is committed.
THEOREM MoneyIsKept == Spec => [](IInv /\ MoneyInv)
  <1>1. IInv /\ MoneyInv /\ [Next]_vars => (IInv /\ MoneyInv)'
    BY NextStep, NextKeepsMoney
  <1>2. Init => IInv /\ MoneyInv
    BY InitIsGood, InitMoney
  <1> QED  BY <1>1, <1>2, PTL DEF Spec

\* 0081, 0086, journal.go: of everything that is refunded, returned, applied and
\* reversed at once, nothing pays out more than was paid into it, be it an
\* invoice, a deposit or one payment.
THEOREM PaidOutAtMostWhatCameIn == Spec => []PaidOutWasPaidIn
  <1>1. MoneyInv => PaidOutWasPaidIn
    BY DEF MoneyInv
  <1> QED  BY <1>1, MoneyIsKept, PTL

\* payments.go, reverseApplicationTx: what a deposit paid is neither held and
\* paid at once, nor gone.
THEOREM DepositsArePaidWhole == Spec => []ApplicationsAreWhole
  <1>1. MoneyInv => ApplicationsAreWhole
    BY DEF MoneyInv
  <1> QED  BY <1>1, MoneyIsKept, PTL

\* The journal and what is under way are of the types the code gives them.
THEOREM JournalIsTyped == Spec => []TypeOK
  <1>1. MoneyInv => TypeOK
    BY DEF MoneyInv
  <1> QED  BY <1>1, MoneyIsKept, PTL

-----------------------------------------------------------------------------
(* Paying what is owed, and closing the job.                               *)

LEMMA OwedStands == ASSUME UNCHANGED <<rows, credited>> PROVE \A i : Owed(i)' = Owed(i)
  BY DEF Owed, SettledBy, On, Numbers

\* Of a transaction that did not go on, while nobody changed what it holds.
LEMMA StaysPaying ==
  ASSUME IInv, NEW u \in Txs, Paying(u), tx'[u] = tx[u], holds'[u] = holds[u],
         \A n \in Numbers : rows'[n] = rows[n],
         \A h \in halves' \ halves : h[1] \notin Numbers /\ h[2] \notin Numbers,
         NEW i, i = tx[u].req.on,
         \/ Decisive(u) /\ Does(u, "pay")
         \/ tx[u].at = "ending" /\ PaysIn(u)
         => Owed(i)' = Owed(i),
         tx[u].at = "ending" /\ PaysIn(u) => job'[i] = job[i] /\ here'[i] = here[i]
  PROVE  Paying(u)'
  <1>1. PICK q : q = tx[u]
    OBVIOUS
  <1>2. PICK g : g = holds[u]
    OBVIOUS
  <1>3. tx[u] = q /\ tx'[u] = q /\ holds[u] = g /\ holds'[u] = g
    BY <1>1, <1>2
  <1>4. /\ \A s : Does(u, s)' <=> Does(u, s)
        /\ Decisive(u)' <=> Decisive(u)
        /\ PaysIn(u)' <=> PaysIn(u)
    BY <1>3 DEF Does, Decisive, PaysIn
  <1>5. Under(u)'
    <2>2. ASSUME q.at = "locking", Does(u, "apply") PROVE Locked(u, Target(tx[u].req.from))'
      BY <1>3, <2>2 DEF Paying, Under, Locked, Target
    <2>3. ASSUME q.at = "locking", ~Does(u, "apply") PROVE Waiting(u)'
      <3>1. PICK n : n = q.req.row
        OBVIOUS
      <3>2. n \in Numbers /\ rows'[n] = rows[n]
        BY <1>3, <2>3, <3>1 DEF IInv, Good, Asked
      <3>3. PICK r : r = rows[n]
        OBVIOUS
      <3>4. /\ Does(u, "refund") => ~r.deposit
            /\ ~r.deposit => q.want = IF r.on \in Payouts THEN <<>> ELSE <<r.on>>
        BY <1>3, <2>3, <3>1, <3>3, Zenon DEF Paying, Under, Waiting
      <3>5. ASSUME r.deposit, NEW h \in halves', n \in {h[1], h[2]}
            PROVE  \/ q.want = <<rows'[h[1]].on, rows'[h[2]].on>>
                   \/ q.want = <<rows'[h[2]].on>> /\ <<Target(rows'[h[1]].on), "update">> \in g
        <4>1. h \in halves
          BY <3>2, <3>5
        <4>2. rows'[h[1]] = rows[h[1]] /\ rows'[h[2]] = rows[h[2]]
          BY <4>1 DEF IInv, Pairs
        <4>3. \/ q.want = <<rows[h[1]].on, rows[h[2]].on>>
              \/ q.want = <<rows[h[2]].on>> /\ <<Target(rows[h[1]].on), "update">> \in g
          BY <1>3, <2>3, <3>1, <3>3, <3>5, <4>1, Zenon DEF Paying, Under, Waiting, Locked
        <4> QED  BY <4>2, <4>3
      <3>6. rows'[n] = r /\ tx'[u].req.row = n
        BY <1>3, <3>1, <3>2, <3>3
      <3> QED  BY <1>3, <1>4, <3>4, <3>5, <3>6, Zenon DEF Waiting, Locked, Target
    <2>4. ASSUME Decisive(u), NEW k \in DOMAIN q.rows, q.rows[k].on \notin Payouts
          PROVE  <<Target(q.rows[k].on), "update">> \in g
      BY <1>3, <2>4 DEF Paying, Under, Locked
    <2> QED  BY <1>3, <1>4, <2>2, <2>3, <2>4 DEF Under, Locked, Target
  <1>6. Into(u)'
    BY <1>3, <1>4 DEF Paying, Into
  <1>7. Settling(u)'
    <2> SUFFICES ASSUME Decisive(u), Does(u, "pay") PROVE Enough(tx[u].req, tx[u].rows[1])'
      BY <1>4 DEF Settling
    <2>1. Enough(tx[u].req, tx[u].rows[1])
      BY DEF Paying, Settling
    <2>2. PICK r, s : r = tx[u].req /\ s = tx[u].rows[1]
      OBVIOUS
    <2>3. Owed(r.on)' = Owed(r.on)
      BY <2>2
    <2>4. Enough(r, s)'
      BY <2>1, <2>2, <2>3 DEF Enough, Settles
    <2> QED  BY <2>2, <2>4
  <1>8. Closing(u)'
    <2> SUFFICES ASSUME tx[u].at = "ending", PaysIn(u)
                 PROVE  /\ Locked(u, JobRow(tx[u].req.on))'
                        /\ tx'[u].closes <=> Finished(tx[u].req.on, Owed(tx[u].req.on) - OwnOn(u, tx[u].req.on))'
      BY <1>4 DEF Closing
    <2>1. Locked(u, JobRow(i)) /\ (tx[u].closes <=> Finished(i, Owed(i) - OwnOn(u, i)))
      BY DEF Paying, Closing
    <2>2. OwnOn(u, i)' = OwnOn(u, i)
      BY DEF OwnOn, Settles
    <2>3. Owed(i)' = Owed(i) /\ job'[i] = job[i] /\ here'[i] = here[i]
      OBVIOUS
    <2>4. Locked(u, JobRow(i))'
      BY <2>1 DEF Locked, JobRow
    <2>5. tx[u].closes <=> Finished(i, Owed(i) - OwnOn(u, i))'
      <3>1. PICK o : o = Owed(i) - OwnOn(u, i)
        OBVIOUS
      <3>2. (Owed(i) - OwnOn(u, i))' = o
        BY <2>2, <2>3, <3>1
      <3>3. Finished(i, o)' <=> Finished(i, o)
        BY <2>3 DEF Finished
      <3> QED  BY <2>1, <3>1, <3>2, <3>3
    <2> QED  BY <2>4, <2>5
  <1> QED  BY <1>5, <1>6, <1>7, <1>8 DEF Paying

\* A transaction went on and committed nothing.
LEMMA PayingStep ==
  ASSUME IInv, PayInv, NEW t \in Txs, UNCHANGED books,
         \A u \in Txs \ {t} : tx'[u] = tx[u] /\ holds'[u] = holds[u], Paying(t)'
  PROVE  PayInv'
  <1>1. rows' = rows /\ halves' = halves /\ credited' = credited /\ job' = job /\ here' = here
    BY DEF books
  <1>2. \A i : Owed(i)' = Owed(i)
    BY <1>1, OwedStands
  <1> SUFFICES ASSUME NEW u \in Txs \ {t} PROVE Paying(u)'
    BY DEF PayInv
  <1>3. PICK i : i = tx[u].req.on
    OBVIOUS
  <1>4. Paying(u) /\ tx'[u] = tx[u] /\ holds'[u] = holds[u] /\ Owed(i)' = Owed(i)
    BY <1>2 DEF PayInv
  <1> QED  BY <1>1, <1>3, <1>4, StaysPaying

\* The rows are decided, with what they are against locked.
LEMMA PayingDecided ==
  ASSUME IInv, PayInv, NEW t \in Txs, NEW r, NEW w, Decided(t, r, w), UNCHANGED books,
         \A u \in Txs \ {t} : holds'[u] = holds[u],
         \A k \in DOMAIN w : w[k].on \notin Payouts => <<Target(w[k].on), "update">> \in holds'[t],
         r.does = "pay" => /\ r.on \in Invoices /\ Len(w) = 1 /\ w[1].on = r.on
                           /\ r.amount = 0 => Settles(w[1]) = Owed(r.on)
                           /\ r.amount # 0 /\ ~r.sure => Owed(r.on) - Settles(w[1]) >= -Margin,
         r.does = "apply" => /\ r.on \in Invoices /\ Len(w) = 2 /\ w[1].on \in Deposits
                             /\ w[2].on = r.on
  PROVE  PayInv'
  <1>1. DOMAIN tx = Txs /\ DOMAIN tx[t] = Fields
    BY DEF IInv, Shape
  <1>2. \A u \in Txs \ {t} : tx'[u] = tx[u]
    BY <1>1, Zenon DEF Decided
  <1>3. tx'[t].at = "writing" /\ tx'[t].req = r /\ tx'[t].rows = w
    BY <1>1, Zenon DEF Decided, Fields
  <1>4. \A i : Owed(i)' = Owed(i)
    BY OwedStands DEF books
  <1>5. Under(t)'
    BY <1>3 DEF Under, Locked, Target
  <1>6. Into(t)'
    BY <1>3 DEF Into, Does, PaysIn
  <1>7. Settling(t)'
    <2>1. Does(t, "pay")' => r.does = "pay"
      BY <1>3 DEF Does
    <2>2. r.does = "pay" => Enough(r, w[1])'
      BY <1>4 DEF Enough, Settles
    <2>3. Enough(r, w[1])' => Enough(tx[t].req, tx[t].rows[1])'
      BY <1>3
    <2> QED  BY <2>1, <2>2, <2>3 DEF Settling
  <1>8. Closing(t)'
    BY <1>3 DEF Closing
  <1> QED  BY <1>2, <1>5, <1>6, <1>7, <1>8, PayingStep DEF Paying

\* Of one row.
LEMMA PayingOne ==
  ASSUME IInv, PayInv, NEW t \in Txs, NEW r, NEW q, Decided(t, r, <<q>>), UNCHANGED books,
         \A u \in Txs \ {t} : holds'[u] = holds[u],
         q.on \notin Payouts => <<Target(q.on), "update">> \in holds'[t],
         r.does = "pay" => /\ r.on \in Invoices /\ q.on = r.on
                           /\ r.amount = 0 => Settles(q) = Owed(r.on)
                           /\ r.amount # 0 /\ ~r.sure => Owed(r.on) - Settles(q) >= -Margin,
         r.does # "apply"
  PROVE  PayInv'
  <1> DEFINE w == <<q>>
  <1>1. Len(w) = 1 /\ w[1] = q /\ \A k \in DOMAIN w : w[k] = q
    OBVIOUS
  <1>2. Decided(t, r, w)
    OBVIOUS
  <1> HIDE DEF w
  <1>3. r.does = "pay" => /\ r.on \in Invoices /\ Len(w) = 1 /\ w[1].on = r.on
                          /\ r.amount = 0 => Settles(w[1]) = Owed(r.on)
                          /\ r.amount # 0 /\ ~r.sure => Owed(r.on) - Settles(w[1]) >= -Margin
    BY <1>1
  <1>4. \A k \in DOMAIN w : w[k].on \notin Payouts => <<Target(w[k].on), "update">> \in holds'[t]
    BY <1>1
  <1> QED  BY <1>2, <1>3, <1>4, PayingDecided

LEMMA PayPays == ASSUME IInv, MoneyInv, PayInv, NEW t \in Txs, Pay(t) PROVE PayInv'
  <1> DEFINE row(r) == IF r.amount = 0 THEN Settlement(r) ELSE Moved(r.on, r.amount, r.key)
  <1>1. PICK r \in Paid : /\ LockTarget(t, r.on) /\ Decided(t, r, <<row(r)>>)
                          /\ r.amount > Owed(r.on) + Margin => r.sure
    BY DEF Pay
  <1>2. UNCHANGED books
    BY DEF Pay
  <1>3. r.on \in Invoices /\ r.does = "pay" /\ r.amount \in Int
    <2>1. r.on \in Invoices /\ r.does = "pay" /\ r.amount \in Amounts \cup {-a : a \in Amounts} \cup {0}
      BY DEF Paid
    <2>2. \A a \in Amounts : a \in Int /\ -a \in Int
      BY AmountsAreMoney
    <2> QED  BY <2>1, <2>2
  <1>4. /\ holds'[t] = holds[t] \cup {<<Target(r.on), "update">>}
        /\ \A u \in Txs \ {t} : holds'[u] = holds[u]
    BY <1>1, LockAdds DEF LockTarget, IInv
  <1> DEFINE q == row(r)
  <1>5. Owed(r.on) \in Int /\ Margin \in Int
    BY <1>3, OwedIsInt, AmountsAreMoney DEF MoneyInv
  <1>6. /\ q.on = r.on
        /\ r.amount = 0 => Settles(q) = Owed(r.on)
        /\ r.amount # 0 => Settles(q) = r.amount
    <2>1. CASE r.amount # 0
      <3>1. q = Moved(r.on, r.amount, r.key)
        BY <2>1
      <3> QED  BY <1>3, <2>1, <3>1 DEF Moved, Settles
    <2>2. CASE r.amount = 0
      <3> DEFINE owed == Owed(r.on)
                 coins == IF r.cash THEN CashRound(owed, Coin) ELSE owed
                 paid == Moved(r.on, coins, r.key)
      <3>1. coins \in Int /\ owed - coins \in Int
        BY <1>5, CashIsInt
      <3>2. q = [paid EXCEPT !.rounding = owed - coins]
        BY <2>2 DEF Settlement
      <3>3. paid.on = r.on /\ paid.amount = coins /\ DOMAIN paid = RowFields
        BY DEF Moved, RowFields
      <3> HIDE DEF paid, coins, owed, q
      <3>4. q.on = r.on /\ q.amount = coins /\ q.rounding = owed - coins
        BY <3>2, <3>3, Zenon DEF RowFields
      <3>5. Settles(q) = owed
        BY <1>5, <3>1, <3>4 DEF Settles, owed
      <3> QED  BY <2>2, <3>4, <3>5 DEF owed
    <2> QED  BY <2>1, <2>2
  <1>7. Decided(t, r, <<q>>)
    BY <1>1
  <1> HIDE DEF q
  <1>8. <<Target(q.on), "update">> \in holds'[t]
    BY <1>4, <1>6
  <1>9. r.amount # 0 /\ ~r.sure => Owed(r.on) - Settles(q) >= -Margin
    BY <1>1, <1>3, <1>5, <1>6
  <1> QED  BY <1>2, <1>3, <1>4, <1>6, <1>7, <1>8, <1>9, PayingOne

LEMMA ReceivePays == ASSUME IInv, PayInv, NEW t \in Txs, Receive(t) PROVE PayInv'
  <1>1. PICK r \in Received : LockTarget(t, r.on) /\ Decided(t, r, <<Moved(r.on, r.amount, r.key)>>)
    BY DEF Receive
  <1>2. UNCHANGED books
    BY DEF Receive
  <1>3. r.does = "receive"
    BY DEF Received
  <1>4. /\ holds'[t] = holds[t] \cup {<<Target(r.on), "update">>}
        /\ \A u \in Txs \ {t} : holds'[u] = holds[u]
    BY <1>1, LockAdds DEF LockTarget, IInv
  <1> DEFINE q == Moved(r.on, r.amount, r.key)
  <1>5. q.on = r.on /\ Decided(t, r, <<q>>)
    BY <1>1 DEF Moved
  <1> HIDE DEF q
  <1> QED  BY <1>2, <1>3, <1>4, <1>5, PayingOne

LEMMA PayOutPays == ASSUME IInv, PayInv, NEW t \in Txs, PayOut(t) PROVE PayInv'
  <1>1. PICK r \in PaidOut : Decided(t, r, <<Moved(r.on, -r.amount, r.key)>>)
    BY DEF PayOut
  <1>2. UNCHANGED books /\ holds' = holds
    BY DEF PayOut
  <1>3. r.does = "pay out" /\ r.on \in Payouts
    BY DEF PaidOut
  <1> DEFINE q == Moved(r.on, -r.amount, r.key)
  <1>4. q.on = r.on /\ Decided(t, r, <<q>>)
    BY <1>1 DEF Moved
  <1> HIDE DEF q
  <1> QED  BY <1>2, <1>3, <1>4, PayingOne

LEMMA ApplyPays == ASSUME IInv, PayInv, NEW t \in Txs, Apply(t) PROVE PayInv'
  <1>1. PICK r \in Applied :
          LockTarget(t, r.from) /\ tx' = [tx EXCEPT ![t].at = "locking", ![t].req = r, ![t].want = <<r.on>>]
    BY DEF Apply
  <1>2. UNCHANGED books
    BY DEF Apply
  <1>3. r.does = "apply"
    BY DEF Applied
  <1>4. DOMAIN tx = Txs /\ DOMAIN tx[t] = Fields
    BY DEF IInv, Shape
  <1>5. /\ holds'[t] = holds[t] \cup {<<Target(r.from), "update">>}
        /\ \A u \in Txs \ {t} : holds'[u] = holds[u]
    BY <1>1, LockAdds DEF LockTarget, IInv
  <1> DEFINE want == <<r.on>>
  <1>6. tx' = [tx EXCEPT ![t].at = "locking", ![t].req = r, ![t].want = want]
    BY <1>1
  <1> HIDE DEF want
  <1>7. \A u \in Txs \ {t} : tx'[u] = tx[u]
    BY <1>4, <1>6, Zenon
  <1>8. tx'[t].at = "locking" /\ tx'[t].req = r
    BY <1>4, <1>6, Zenon DEF Fields
  <1>9. Under(t)'
    BY <1>3, <1>5, <1>8 DEF Under, Does, Decisive, Locked, Target
  <1>10. Into(t)' /\ Settling(t)' /\ Closing(t)'
    BY <1>8 DEF Into, Settling, Closing, Decisive
  <1> QED  BY <1>2, <1>5, <1>7, <1>9, <1>10, PayingStep DEF Paying

LEMMA DecideApplyPays == ASSUME IInv, MoneyInv, PayInv, NEW t \in Txs, DecideApply(t) PROVE PayInv'
  <1> DEFINE r == tx[t].req
             out == [Moved(r.from, -r.amount, r.key) EXCEPT !.deposit = TRUE]
             in  == [Moved(r.on, r.amount, NoKey) EXCEPT !.deposit = TRUE]
             w == <<out, in>>
  <1>1. /\ tx[t].at = "locking" /\ r.does = "apply" /\ Decided(t, r, w) /\ UNCHANGED books
        /\ LockTarget(t, r.on)
    BY DEF DecideApply, Does
  <1>2. r.from \in Deposits /\ r.on \in Invoices
    BY <1>1 DEF IInv, Good, Asked, Does
  <1>3. out.on = r.from /\ in.on = r.on
    BY DEF Moved
  <1>4. /\ holds'[t] = holds[t] \cup {<<Target(r.on), "update">>}
        /\ \A u \in Txs \ {t} : holds'[u] = holds[u]
    BY <1>1, LockAdds DEF LockTarget, IInv
  <1>5. <<Target(r.from), "update">> \in holds[t]
    BY <1>1 DEF PayInv, Paying, Under, Locked, Does
  <1>6. Len(w) = 2 /\ w[1] = out /\ w[2] = in /\ \A k \in DOMAIN w : k = 1 \/ k = 2
    OBVIOUS
  <1> HIDE DEF w, out, in
  <1>7. \A k \in DOMAIN w : <<Target(w[k].on), "update">> \in holds'[t]
    BY <1>3, <1>4, <1>5, <1>6
  <1>8. r.on \in Invoices /\ Len(w) = 2 /\ w[1].on \in Deposits /\ w[2].on = r.on
    BY <1>2, <1>3, <1>6
  <1>9. PICK s : s = r
    OBVIOUS
  <1> QED  BY <1>1, <1>4, <1>7, <1>8, <1>9, PayingDecided

\* The two halves an application has, from either of them.
LEMMA HalfOfOne ==
  ASSUME IInv, MoneyInv, NEW n, NEW g \in halves, NEW h \in halves, n \in {g[1], g[2]}, n \in {h[1], h[2]}
  PROVE  g = h
  <1>1. /\ rows[g[1]].on \in Deposits /\ rows[g[2]].on \in Invoices
        /\ rows[h[1]].on \in Deposits /\ rows[h[2]].on \in Invoices
    BY DEF IInv, Pairs
  <1>2. g[1] = h[1] \/ g[2] = h[2]
    BY <1>1, TargetsDiffer
  <1> QED  BY <1>2 DEF MoneyInv, HalvesAreWhole

LEMMA LookPays == ASSUME IInv, MoneyInv, PayInv, NEW t \in Txs, Look(t) PROVE PayInv'
  <1>1. PICK r \in Refunding \cup Reversing :
          /\ IF r.does = "refund" THEN IsReceipt(r.row) /\ ~Reversed(r.row)
             ELSE IF rows[r.row].deposit THEN IsHalf(r.row) ELSE rows[r.row].reverses = 0
          /\ \E k : tx' = [tx EXCEPT ![t].at = "locking", ![t].req = r, ![t].want = ToLock(r.row),
                                     ![t].seen = k]
    BY DEF Look
  <1>2. UNCHANGED books /\ rows' = rows /\ halves' = halves /\ holds' = holds
    BY DEF Look, books
  <1>3. r.row \in Numbers /\ r.does \in {"refund", "reverse"}
    BY DEF Refunding, Reversing
  <1>4. DOMAIN tx = Txs /\ DOMAIN tx[t] = Fields
    BY DEF IInv, Shape
  <1> DEFINE want == ToLock(r.row)
  <1> HIDE DEF want
  <1>5. PICK k : tx' = [tx EXCEPT ![t].at = "locking", ![t].req = r, ![t].want = want, ![t].seen = k]
    BY <1>1 DEF want
  <1>6. \A u \in Txs \ {t} : tx'[u] = tx[u]
    BY <1>4, <1>5, Zenon
  <1>7. tx'[t].at = "locking" /\ tx'[t].req = r /\ tx'[t].want = want
    BY <1>4, <1>5, Zenon DEF Fields
  <1>8. /\ r.does = "refund" => ~rows[r.row].deposit
        /\ ~rows[r.row].deposit => want = IF rows[r.row].on \in Payouts THEN <<>> ELSE <<rows[r.row].on>>
    BY <1>1 DEF IsReceipt, ToLock, want
  <1>9. ASSUME rows[r.row].deposit, NEW h \in halves, r.row \in {h[1], h[2]}
        PROVE  want = <<rows[h[1]].on, rows[h[2]].on>>
    <2>1. IsHalf(r.row)
      BY <1>9 DEF IsHalf
    <2>2. HalvesOf(r.row) \in halves /\ r.row \in {HalvesOf(r.row)[1], HalvesOf(r.row)[2]}
      BY <2>1 DEF IsHalf, HalvesOf
    <2>3. HalvesOf(r.row) = h
      BY <1>9, <2>2, HalfOfOne
    <2> QED  BY <1>9, <2>3 DEF ToLock, want
  <1>10. Under(t)'
    <2>1. Waiting(t)'
      BY <1>2, <1>7, <1>8, <1>9 DEF Waiting, Does
    <2> QED  BY <1>3, <1>7, <2>1 DEF Under, Does, Decisive
  <1>11. Into(t)' /\ Settling(t)' /\ Closing(t)'
    BY <1>7 DEF Into, Settling, Closing, Decisive
  <1> QED  BY <1>2, <1>6, <1>10, <1>11, PayingStep DEF Paying

LEMMA LockDepositPays == ASSUME IInv, MoneyInv, PayInv, NEW t \in Txs, LockDeposit(t) PROVE PayInv'
  <1>1. UNCHANGED books /\ rows' = rows /\ halves' = halves /\ tx[t].at = "locking" /\ Len(tx[t].want) = 2
    BY DEF LockDeposit, books
  <1>2. LockTarget(t, Head(tx[t].want)) /\ tx' = [tx EXCEPT ![t].want = Tail(tx[t].want)]
    BY Zenon DEF LockDeposit
  <1>3. DOMAIN tx = Txs /\ DOMAIN tx[t] = Fields
    BY DEF IInv, Shape
  <1>4. \A u \in Txs \ {t} : tx'[u] = tx[u]
    BY <1>2, <1>3, Zenon
  <1>5. /\ tx'[t].at = "locking" /\ tx'[t].req = tx[t].req /\ tx'[t].rows = tx[t].rows
        /\ tx'[t].want = Tail(tx[t].want)
    BY <1>1, <1>2, <1>3, Zenon DEF Fields
  <1>6. /\ holds'[t] = holds[t] \cup {<<Target(Head(tx[t].want)), "update">>}
        /\ \A u \in Txs \ {t} : holds'[u] = holds[u]
    BY <1>2, LockAdds DEF LockTarget, IInv
  <1>7. PICK v, n, r : v = tx[t].want /\ n = tx[t].req.row /\ r = rows[n]
    OBVIOUS
  <1>8. \A x : v # <<x>> /\ v # <<>>
    <2>1. Len(v) = 2
      BY <1>1, <1>7
    <2>2. ASSUME NEW x, v = <<x>> PROVE FALSE
      <3>1. Len(<<x>>) = 1
        OBVIOUS
      <3> QED  BY <2>1, <2>2, <3>1
    <2>3. ASSUME v = <<>> PROVE FALSE
      BY <2>1, <2>3
    <2> QED  BY <2>2, <2>3
  <1>9. ~Does(t, "apply")
    BY <1>1, <1>7, <1>8 DEF IInv, Good, Asked
  <1>10. Waiting(t)
    BY <1>1, <1>9 DEF PayInv, Paying, Under
  <1>11. r.deposit /\ ~Does(t, "refund")
    BY <1>7, <1>8, <1>10 DEF Waiting
  <1>12. ASSUME NEW h \in halves, n \in {h[1], h[2]}
         PROVE  /\ tx'[t].want = <<rows[h[2]].on>>
                /\ <<Target(rows[h[1]].on), "update">> \in holds'[t]
    <2>1. v = <<rows[h[1]].on, rows[h[2]].on>>
      BY <1>7, <1>8, <1>10, <1>11, <1>12 DEF Waiting
    <2>2. Head(v) = rows[h[1]].on /\ Tail(v) = <<rows[h[2]].on>>
      BY <2>1
    <2> QED  BY <1>5, <1>6, <1>7, <2>2
  <1>13. Waiting(t)'
    <2>1. rows'[tx'[t].req.row].deposit /\ ~Does(t, "refund")'
      BY <1>1, <1>5, <1>7, <1>11 DEF Does
    <2>2. tx'[t].req.row = n
      BY <1>5, <1>7
    <2> QED  BY <1>1, <1>12, <2>1, <2>2 DEF Waiting, Locked, Target
  <1>14. Under(t)'
    BY <1>5, <1>9, <1>13 DEF Under, Does, Decisive
  <1>15. Into(t)' /\ Settling(t)' /\ Closing(t)'
    BY <1>5 DEF Into, Settling, Closing, Decisive
  <1> QED  BY <1>1, <1>4, <1>6, <1>14, <1>15, PayingStep DEF Paying

\* The last row a refund or a reversal waits for is locked with the decision.
LEMMA LastIsLocked ==
  ASSUME IInv, NEW t \in Txs, LockLast(t)
  PROVE  /\ \A u \in Txs \ {t} : holds'[u] = holds[u]
         /\ holds[t] \subseteq holds'[t]
         /\ \A x : tx[t].want = <<x>> => <<Target(x), "update">> \in holds'[t]
  <1>1. PICK v : v = tx[t].want
    OBVIOUS
  <1>2. CASE v = <<>>
    <2>1. UNCHANGED holds
      BY <1>1, <1>2 DEF LockLast
    <2>2. \A x : <<x>> # <<>>
      OBVIOUS
    <2> QED  BY <1>1, <1>2, <2>1, <2>2
  <1>3. CASE v # <<>> /\ Len(v) = 1
    <2>1. LockTarget(t, Head(v))
      BY <1>1, <1>3 DEF LockLast
    <2>2. /\ holds'[t] = holds[t] \cup {<<Target(Head(v)), "update">>}
          /\ \A u \in Txs \ {t} : holds'[u] = holds[u]
      BY <2>1, LockAdds DEF LockTarget, IInv
    <2>3. \A x : v = <<x>> => Head(v) = x
      OBVIOUS
    <2> QED  BY <1>1, <2>2, <2>3
  <1>4. v = <<>> \/ Len(v) = 1
    BY <1>1 DEF LockLast
  <1> QED  BY <1>2, <1>3, <1>4

LEMMA DecideRefundPays == ASSUME IInv, PayInv, NEW t \in Txs, DecideRefund(t) PROVE PayInv'
  <1> DEFINE r == tx[t].req
             x == rows[r.row].on
             q == [Moved(x, -r.amount, r.key) EXCEPT !.refunds = r.row]
  <1>1. tx[t].at = "locking" /\ r.does = "refund" /\ LockLast(t) /\ Decided(t, r, <<q>>) /\ UNCHANGED books
    BY DEF DecideRefund, Does
  <1>2. x \notin Payouts => tx[t].want = <<x>>
    BY <1>1 DEF PayInv, Paying, Under, Waiting, Does
  <1>3. q.on = x
    BY DEF Moved
  <1> HIDE DEF q
  <1>4. q.on \notin Payouts => <<Target(q.on), "update">> \in holds'[t]
    BY <1>1, <1>2, <1>3, LastIsLocked
  <1>5. \A u \in Txs \ {t} : holds'[u] = holds[u]
    BY <1>1, LastIsLocked
  <1>6. PICK s : s = r
    OBVIOUS
  <1> QED  BY <1>1, <1>4, <1>5, <1>6, PayingOne

LEMMA DecideReversePays == ASSUME IInv, MoneyInv, PayInv, NEW t \in Txs, DecideReverse(t) PROVE PayInv'
  <1> DEFINE n      == tx[t].req.row
             undone == IF rows[n].deposit THEN UndoneTogether(n, tx[t].seen) ELSE <<Undone(n)>>
  <1>1. /\ tx[t].at = "locking" /\ tx[t].req.does = "reverse" /\ LockLast(t)
        /\ Decided(t, tx[t].req, undone) /\ UNCHANGED books
    BY DEF DecideReverse, Does
  <1>2. n \in Numbers
    BY <1>1 DEF IInv, Good, Asked, Does
  <1>3. rows[n].deposit => IsHalf(n)
    BY <1>1, Zenon DEF IInv, Good, Asked, Does
  <1>4. Waiting(t)
    BY <1>1 DEF PayInv, Paying, Under, Does
  <1>5. /\ \A u \in Txs \ {t} : holds'[u] = holds[u]
        /\ holds[t] \subseteq holds'[t]
        /\ \A x : tx[t].want = <<x>> => <<Target(x), "update">> \in holds'[t]
    BY <1>1, LastIsLocked
  <1>6. PICK v : v = tx[t].want
    OBVIOUS
  <1>7. \A k \in DOMAIN undone : undone[k].on \notin Payouts => <<Target(undone[k].on), "update">> \in holds'[t]
    <2>1. CASE ~rows[n].deposit
      <3>1. PICK q : q = Undone(n)
        OBVIOUS
      <3>2. q.on = rows[n].on
        BY <1>2, <3>1, UndoneIsLawful
      <3>3. undone = <<q>>
        BY <2>1, <3>1
      <3>4. rows[n].on \notin Payouts => v = <<rows[n].on>>
        BY <1>4, <1>6, <2>1 DEF Waiting
      <3> HIDE DEF undone
      <3> QED  BY <1>5, <1>6, <3>2, <3>3, <3>4
    <2>2. CASE rows[n].deposit
      <3> DEFINE h == HalvesOf(n)
                 a == Undone(h[1])
                 b == Undone(h[2])
      <3>1. h \in halves /\ n \in {h[1], h[2]}
        BY <1>3, <2>2 DEF IsHalf, HalvesOf
      <3>2. h[1] \in Numbers /\ h[2] \in Numbers
        BY <3>1 DEF MoneyInv, TypeOK
      <3>3. a.on = rows[h[1]].on /\ b.on = rows[h[2]].on
        BY <3>2, UndoneIsLawful
      <3>4. undone = (IF ReversedBy(h[1], tx[t].seen) THEN <<>> ELSE <<a>>)
                     \o (IF ReversedBy(h[2], tx[t].seen) THEN <<>> ELSE <<b>>)
        BY <2>2 DEF UndoneTogether
      <3>5. \/ v = <<rows[h[1]].on, rows[h[2]].on>>
            \/ v = <<rows[h[2]].on>> /\ <<Target(rows[h[1]].on), "update">> \in holds[t]
        BY <1>4, <1>6, <2>2, <3>1 DEF Waiting, Locked
      <3>6. v # <<rows[h[1]].on, rows[h[2]].on>>
        <4>1. PICK d, i : d = rows[h[1]].on /\ i = rows[h[2]].on
          OBVIOUS
        <4>2. Len(<<d, i>>) = 2 /\ <<d, i>> # <<>>
          OBVIOUS
        <4>3. v = <<>> \/ Len(v) = 1
          BY <1>1, <1>6 DEF LockLast
        <4> QED  BY <4>1, <4>2, <4>3
      <3>7. /\ <<Target(rows[h[1]].on), "update">> \in holds'[t]
            /\ <<Target(rows[h[2]].on), "update">> \in holds'[t]
        BY <1>5, <1>6, <3>5, <3>6
      <3>8. /\ <<>> \o <<>> = <<>> /\ <<a>> \o <<>> = <<a>>
            /\ <<>> \o <<b>> = <<b>> /\ <<a>> \o <<b>> = <<a, b>>
        BY OneAndOne
      <3> HIDE DEF undone, h, a, b
      <3>9. undone \in {<<>>, <<a>>, <<b>>, <<a, b>>}
        BY <3>4, <3>8
      <3>10. \A k \in DOMAIN undone : undone[k] = a \/ undone[k] = b
        BY <3>9
      <3> QED  BY <3>3, <3>7, <3>10
    <2> QED  BY <2>1, <2>2
  <1> HIDE DEF undone
  <1>8. PICK s : s = tx[t].req
    OBVIOUS
  <1> QED  BY <1>1, <1>5, <1>7, <1>8, PayingDecided

\* A transaction that had decided what to write went on.
LEMMA DecidedPays ==
  ASSUME IInv, PayInv, NEW t \in Txs, UNCHANGED books, Decisive(t), Decisive(t)',
         tx'[t].req = tx[t].req, tx'[t].rows = tx[t].rows, holds[t] \subseteq holds'[t],
         \A u \in Txs \ {t} : tx'[u] = tx[u] /\ holds'[u] = holds[u], Closing(t)'
  PROVE  PayInv'
  <1>1. tx[t].at # "locking" /\ tx'[t].at # "locking" /\ Paying(t)
    BY DEF Decisive, PayInv
  <1>2. \A i : Owed(i)' = Owed(i)
    BY OwedStands DEF books
  <1>3. Under(t)'
    BY <1>1 DEF Paying, Under, Locked, Target
  <1>4. Into(t)'
    BY <1>1 DEF Paying, Into, PaysIn, Does
  <1>5. Settling(t)'
    <2>1. PICK r, q : r = tx[t].req /\ q = tx[t].rows[1]
      OBVIOUS
    <2>2. r.does = "pay" => Enough(r, q)
      BY <1>1, <2>1 DEF Paying, Settling, Does
    <2>3. r.does = "pay" => Enough(r, q)'
      BY <1>2, <2>2 DEF Enough, Settles
    <2>4. tx'[t].req = r /\ tx'[t].rows[1] = q
      BY <2>1
    <2> QED  BY <2>3, <2>4 DEF Settling, Does
  <1> QED  BY <1>3, <1>4, <1>5, PayingStep DEF Paying

LEMMA InsertPays == ASSUME IInv, PayInv, NEW t \in Txs, Insert(t) PROVE PayInv'
  <1> DEFINE stage == IF Does(t, "pay") \/ Does(t, "apply") THEN "closing" ELSE "ending"
  <1>1. /\ tx[t].at = "writing" /\ Lock(t, SeriesRow, "update")
        /\ tx' = [tx EXCEPT ![t].at = stage] /\ UNCHANGED books
    BY DEF Insert
  <1>2. stage \in {"closing", "ending"} /\ (stage = "ending" => ~PaysIn(t))
    BY DEF PaysIn
  <1> HIDE DEF stage
  <1>3. DOMAIN tx = Txs /\ DOMAIN tx[t] = Fields
    BY DEF IInv, Shape
  <1>4. \A u \in Txs \ {t} : tx'[u] = tx[u]
    BY <1>1, <1>3, Zenon
  <1>5. tx'[t].at = stage /\ tx'[t].req = tx[t].req /\ tx'[t].rows = tx[t].rows
    BY <1>1, <1>3, Zenon DEF Fields
  <1>6. holds[t] \subseteq holds'[t] /\ \A u \in Txs \ {t} : holds'[u] = holds[u]
    BY <1>1, LockAdds DEF IInv
  <1>7. Closing(t)'
    BY <1>2, <1>5 DEF Closing, PaysIn, Does
  <1>8. Decisive(t) /\ Decisive(t)'
    BY <1>1, <1>2, <1>5 DEF Decisive
  <1> QED  BY <1>1, <1>4, <1>5, <1>6, <1>7, <1>8, DecidedPays

LEMMA ClosePays == ASSUME IInv, PayInv, NEW t \in Txs, Close(t) PROVE PayInv'
  <1>1. PICK i : i = tx[t].req.on
    OBVIOUS
  <1> DEFINE c == Finished(i, Owed(i) - OwnOn(t, i))
  <1>2. /\ tx[t].at = "closing" /\ UNCHANGED books /\ Lock(t, JobRow(i), "update")
        /\ tx' = [tx EXCEPT ![t].at = "ending", ![t].closes = c]
    BY <1>1 DEF Close
  <1>3. DOMAIN tx = Txs /\ DOMAIN tx[t] = Fields
    BY DEF IInv, Shape
  <1>4. \A i_1 : Owed(i_1)' = Owed(i_1)
    BY <1>2, OwedStands DEF books
  <1>5. PICK o : o = Owed(i) - OwnOn(t, i)
    OBVIOUS
  <1>6. c <=> Finished(i, o)
    BY <1>5
  <1> HIDE DEF c
  <1>7. \A u \in Txs \ {t} : tx'[u] = tx[u]
    BY <1>2, <1>3, Zenon
  <1>8. tx'[t].at = "ending" /\ tx'[t].req = tx[t].req /\ tx'[t].rows = tx[t].rows
    BY <1>2, <1>3, Zenon DEF Fields
  <1>9. tx'[t].closes <=> c
    BY <1>2, <1>3, Zenon DEF Fields
  <1>10. /\ holds'[t] = holds[t] \cup {<<JobRow(i), "update">>}
         /\ \A u \in Txs \ {t} : holds'[u] = holds[u]
    BY <1>2, LockAdds DEF IInv
  <1>11. Closing(t)'
    <2>1. Locked(t, JobRow(i))'
      BY <1>10 DEF Locked, JobRow
    <2>2. OwnOn(t, i)' = OwnOn(t, i)
      BY <1>8 DEF OwnOn, Settles
    <2>3. (Owed(i) - OwnOn(t, i))' = o
      BY <1>4, <1>5, <2>2
    <2>4. Finished(i, o)' <=> Finished(i, o)
      BY <1>2 DEF Finished, books
    <2>5. tx'[t].closes <=> Finished(i, Owed(i) - OwnOn(t, i))'
      BY <1>6, <1>9, <2>3, <2>4
    <2>6. tx'[t].req.on = i
      BY <1>1, <1>8
    <2> QED  BY <2>1, <2>5, <2>6 DEF Closing
  <1>12. Decisive(t) /\ Decisive(t)'
    BY <1>2, <1>8 DEF Decisive
  <1> QED  BY <1>2, <1>7, <1>8, <1>10, <1>11, <1>12, DecidedPays

LEMMA IdlePays == ASSUME NEW t \in Txs, tx'[t].at = "idle" PROVE Paying(t)'
  BY DEF Paying, Under, Into, Settling, Closing, Decisive

LEMMA LeavePays == ASSUME IInv, PayInv, NEW t \in Txs, Leave(t) PROVE PayInv'
  <1>1. Over(t) /\ UNCHANGED books
    BY DEF Leave
  <1>2. tx'[t] = Idle /\ \A u \in Txs \ {t} : tx'[u] = tx[u]
    BY <1>1 DEF Over, IInv, Shape
  <1>3. \A u \in Txs \ {t} : holds'[u] = holds[u]
    BY <1>1, UnlockKeepsApart DEF Over, IInv
  <1>4. Paying(t)'
    BY <1>2, IdlePays DEF Idle
  <1> QED  BY <1>1, <1>2, <1>3, <1>4, PayingStep

\* Whoever is alone with a row is alone with it.
LEMMA AloneIsAlone ==
  ASSUME NEW row, NEW mode, Alone(row, mode), NEW u \in Txs, tx[u].at # "idle", Locked(u, row)
  PROVE  FALSE
  BY DEF Alone, Free, Clash, Locked

\* What happens to an invoice and its job waits for whoever counts on them.
LEMMA ElsewherePays == ASSUME IInv, MoneyInv, PayInv, NEW k \in Invoices, Elsewhere(k) PROVE PayInv'
  <1>1. UNCHANGED <<rows, halves>> /\ tx' = tx /\ holds' = holds
    BY DEF Elsewhere, Credit, Collect, BringBack, CloseByHand
  <1> SUFFICES ASSUME NEW u \in Txs PROVE Paying(u)'
    BY DEF PayInv
  <1>2. Paying(u)
    BY DEF PayInv
  <1>3. PICK i : i = tx[u].req.on
    OBVIOUS
  <1>4. TypeOK
    BY DEF MoneyInv
  <1>5. tx[u].at = "ending" /\ PaysIn(u) => i \in Invoices /\ Locked(u, JobRow(i))
    BY <1>2, <1>3 DEF Paying, Closing, Into, Decisive
  <1>6. Decisive(u) /\ Does(u, "pay") => i \in Invoices /\ Locked(u, Target(i))
    <2> SUFFICES ASSUME Decisive(u), Does(u, "pay") PROVE i \in Invoices /\ Locked(u, Target(i))
      OBVIOUS
    <2>1. i \in Invoices /\ Len(tx[u].rows) = 1 /\ tx[u].rows[1].on = i
      BY <1>2, <1>3 DEF Paying, Into, PaysIn
    <2>2. tx[u].rows \in Seq(Row)
      BY <1>4 DEF TypeOK
    <2>3. 1 \in DOMAIN tx[u].rows
      BY <2>1, <2>2
    <2> QED  BY <1>2, <2>1, <2>3, TargetsDiffer DEF Paying, Under
  <1>7. Decisive(u) => tx[u].at # "idle"
    BY DEF Decisive
  <1>8. ASSUME Credit(k), i \in Invoices, i # k PROVE Owed(i)' = Owed(i)
    <2>1. rows' = rows /\ credited'[i] = credited[i]
      BY <1>1, <1>4, <1>8 DEF Credit, TypeOK
    <2> QED  BY <2>1 DEF Owed, SettledBy, On, Numbers
  <1>9. ASSUME Credit(k) PROVE (Decisive(u) /\ Does(u, "pay") => i # k) /\ (tx[u].at = "ending" /\ PaysIn(u) => i # k)
    BY <1>5, <1>6, <1>7, <1>9, AloneIsAlone DEF Credit
  <1>10. ~Credit(k) => credited' = credited
    BY DEF Elsewhere, Collect, BringBack, CloseByHand
  <1>11. ~Credit(k) => Owed(i)' = Owed(i)
    BY <1>1, <1>10, OwedStands
  <1>12. \/ Decisive(u) /\ Does(u, "pay")
         \/ tx[u].at = "ending" /\ PaysIn(u)
         => Owed(i)' = Owed(i)
    BY <1>5, <1>6, <1>8, <1>9, <1>11
  <1>13. tx[u].at = "ending" /\ PaysIn(u) => job'[i] = job[i] /\ here'[i] = here[i]
    <2> SUFFICES ASSUME tx[u].at = "ending", PaysIn(u) PROVE job'[i] = job[i] /\ here'[i] = here[i]
      OBVIOUS
    <2>1. ~Credit(k) => i # k
      BY <1>5, AloneIsAlone DEF Elsewhere, Collect, BringBack, CloseByHand
    <2>2. i \in Invoices /\ job \in [Invoices -> {"invoiced", "closed"}] /\ here \in [Invoices -> BOOLEAN]
      BY <1>4, <1>5 DEF TypeOK
    <2>3. CASE Credit(k)
      BY <2>3 DEF Credit
    <2>4. CASE Collect(k)
      BY <2>1, <2>2, <2>4 DEF Collect, Credit
    <2>5. CASE BringBack(k)
      BY <2>1, <2>2, <2>5 DEF BringBack, Credit
    <2>6. CASE CloseByHand(k)
      BY <2>1, <2>2, <2>6 DEF CloseByHand, Credit
    <2> QED  BY <2>3, <2>4, <2>5, <2>6 DEF Elsewhere
  <1> QED  BY <1>1, <1>2, <1>3, <1>12, <1>13, StaysPaying

\* What is committed is nobody else's: whoever settles an invoice holds it.
LEMMA CommitPays == ASSUME IInv, MoneyInv, PayInv, NEW t \in Txs, Commit(t) PROVE PayInv'
  <1>1. PICK w : w = tx[t].rows
    OBVIOUS
  <1>2. Appends(w) /\ OnOthers(w)
    BY <1>1, CommitAppends
  <1>3. /\ tx[t].at = "ending" /\ Over(t) /\ credited' = credited
        /\ halves' = halves \cup IF Does(t, "apply") THEN {<<Len(rows) + 1, Len(rows) + 2>>} ELSE {}
    BY DEF Commit
  <1>4. tx'[t] = Idle /\ \A u \in Txs \ {t} : tx'[u] = tx[u]
    BY <1>3 DEF Over, IInv, Shape
  <1>5. \A u \in Txs \ {t} : holds'[u] = holds[u]
    BY <1>3, UnlockKeepsApart DEF Over, IInv
  <1>6. Paying(t)'
    BY <1>4, IdlePays DEF Idle
  <1>7. ASSUME NEW u \in Txs \ {t} PROVE Paying(u)'
    <2>1. Paying(u) /\ tx'[u] = tx[u] /\ holds'[u] = holds[u]
      BY <1>4, <1>5 DEF PayInv
    <2>2. PICK i : i = tx[u].req.on
      OBVIOUS
    <2>3. tx[u].at # "ending"
      BY <1>3, OneHasTheRow DEF IInv, Good, HasSeries
    <2>4. ASSUME Decisive(u), Does(u, "pay") PROVE Owed(i)' = Owed(i)
      <3>1. i \in Invoices /\ Len(tx[u].rows) = 1 /\ tx[u].rows[1].on = i
        BY <2>1, <2>2, <2>4 DEF Paying, Into, PaysIn
      <3>2. tx[u].rows \in Seq(Row)
        BY DEF MoneyInv, TypeOK
      <3>3. 1 \in DOMAIN tx[u].rows
        BY <3>1, <3>2
      <3>4. <<Target(i), "update">> \in holds[u]
        BY <2>1, <2>4, <3>1, <3>3, TargetsDiffer DEF Paying, Under, Locked
      <3>5. ASSUME NEW k \in DOMAIN w, w[k].on = i PROVE FALSE
        <4>1. <<Target(i), "update">> \in holds[t]
          BY <1>1, <1>3, <3>1, <3>5, TargetsDiffer DEF PayInv, Paying, Under, Locked, Decisive
        <4> QED  BY <3>4, <4>1, OneHasTheRow DEF IInv
      <3>6. Comes(rows', On(i)') = Comes(rows, On(i))
        BY <1>2, <3>5, TargetThen
      <3> QED  BY <1>3, <3>6, InTheseTerms
    <2>5. \A h \in halves' \ halves : h[1] \notin Numbers /\ h[2] \notin Numbers
      BY <1>2, <1>3 DEF Appends
    <2>6. \A n \in Numbers : rows'[n] = rows[n]
      BY <1>2 DEF Appends
    <2> QED  BY <2>1, <2>2, <2>3, <2>4, <2>5, <2>6, StaysPaying
  <1> QED  BY <1>6, <1>7 DEF PayInv

LEMMA InitPays == Init => PayInv
  BY DEF Init, Idle, PayInv, Paying, Under, Into, Settling, Closing, Decisive

LEMMA NextPays == IInv /\ MoneyInv /\ PayInv /\ [Next]_vars => PayInv'
  <1> SUFFICES ASSUME IInv, MoneyInv, PayInv, [Next]_vars PROVE PayInv'
    OBVIOUS
  <1>1. CASE UNCHANGED vars
    <2>1. /\ rows' = rows /\ halves' = halves /\ credited' = credited /\ job' = job /\ here' = here
          /\ tx' = tx /\ holds' = holds
      BY <1>1 DEF vars, books
    <2>2. ASSUME NEW u \in Txs PROVE Paying(u)'
      <3>1. PICK i : i = tx[u].req.on
        OBVIOUS
      <3>2. Owed(i)' = Owed(i)
        BY <2>1, OwedStands
      <3> QED  BY <2>1, <3>1, <3>2, StaysPaying DEF PayInv
    <2> QED  BY <2>2 DEF PayInv
  <1>2. ASSUME NEW i \in Invoices, Elsewhere(i) PROVE PayInv'
    BY <1>2, ElsewherePays
  <1>3. ASSUME NEW t \in Txs, Step(t) PROVE PayInv'
    <2>1. CASE Pay(t) \/ Receive(t) \/ PayOut(t)
      BY <2>1, PayPays, ReceivePays, PayOutPays
    <2>2. CASE Apply(t) \/ DecideApply(t)
      BY <2>2, ApplyPays, DecideApplyPays
    <2>3. CASE Look(t) \/ LockDeposit(t) \/ DecideRefund(t) \/ DecideReverse(t)
      BY <2>3, LookPays, LockDepositPays, DecideRefundPays, DecideReversePays
    <2>4. CASE Insert(t) \/ Close(t) \/ Commit(t) \/ Leave(t)
      BY <2>4, InsertPays, ClosePays, CommitPays, LeavePays
    <2> QED  BY <1>3, <2>1, <2>2, <2>3, <2>4 DEF Step
  <1> QED  BY <1>1, <1>2, <1>3 DEF Next

\* What is committed on the invoice is what its own rows come to.
LEMMA PaysOff ==
  ASSUME IInv, MoneyInv, PayInv, NEW t \in Txs, Commit(t), PaysIn(t), NEW i, i = tx[t].req.on
  PROVE  /\ i \in Invoices /\ Owed(i) \in Int /\ OwnOn(t, i) \in Int
         /\ Owed(i)' = Owed(i) - OwnOn(t, i)
         /\ Does(t, "pay") => OwnOn(t, i) = Settles(tx[t].rows[1])
  <1>1. PICK w : w = tx[t].rows
    OBVIOUS
  <1>2. Appends(w) /\ OnOthers(w)
    BY <1>1, CommitAppends
  <1>3. tx[t].at = "ending" /\ credited' = credited /\ Decisive(t)
    BY DEF Commit, Decisive
  <1>4. /\ i \in Invoices
        /\ Does(t, "pay") => Len(w) = 1 /\ w[1].on = i
        /\ Does(t, "apply") => Len(w) = 2 /\ w[2].on = i
    BY <1>1, <1>3 DEF PayInv, Paying, Into
  <1>5. PICK k \in DOMAIN w : w[k].on = i /\ (Does(t, "pay") => k = 1)
    <2>1. DOMAIN w = 1..Len(w)
      BY <1>2 DEF Appends
    <2>2. CASE Does(t, "pay")
      <3>1. Len(w) = 1 /\ w[1].on = i
        BY <1>4, <2>2
      <3>2. 1 \in DOMAIN w
        BY <2>1, <3>1
      <3> QED  BY <3>1, <3>2
    <2>3. CASE Does(t, "apply")
      <3>1. Len(w) = 2 /\ w[2].on = i
        BY <1>4, <2>3
      <3>2. 2 \in DOMAIN w
        BY <2>1, <3>1
      <3>3. ~Does(t, "pay")
        BY <2>3 DEF Does
      <3> QED  BY <3>1, <3>2, <3>3
    <2> QED  BY <2>2, <2>3 DEF PaysIn
  <1>6. Settles(w[k]) \in Int
    BY <1>2, RowsAreTyped DEF Appends
  <1>7. OwnOn(t, i) = Settles(w[k])
    <2> DEFINE own == {l \in DOMAIN w : w[l].on = i}
               f == [l \in own |-> Settles(w[l])]
    <2>1. own = {k}
      BY <1>2, <1>5 DEF OnOthers
    <2>2. OwnOn(t, i) = SumFunctionOnSet(f, own)
      BY <1>1 DEF OwnOn
    <2>3. f[k] = Settles(w[k])
      BY <2>1
    <2> HIDE DEF f, own
    <2> QED  BY <1>6, <2>1, <2>2, <2>3, SumOfOne
  <1>8. Comes(rows', On(i)') = Comes(rows, On(i)) + Settles(w[k])
    <2>1. \A l \in DOMAIN w : w[l].on = i => l = k
      BY <1>2, <1>5 DEF OnOthers
    <2> QED  BY <1>2, <1>5, <2>1, TargetThen
  <1>9. Comes(rows, On(i)) \in Int
    BY Subsets, ComesFacts DEF MoneyInv, TypeOK, Numbers
  <1>10. Owed(i) \in Int /\ credited[i] \in Int /\ Total \in Int
    BY <1>4, OwedIsInt, AmountsAreMoney DEF MoneyInv
  <1>11. Owed(i)' = Owed(i) - Settles(w[k])
    BY <1>3, <1>6, <1>8, <1>9, <1>10, InTheseTerms
  <1> QED  BY <1>1, <1>4, <1>5, <1>6, <1>7, <1>10, <1>11

LEMMA StepSettles ==
  ASSUME IInv, MoneyInv, PayInv, NEW t \in Txs, NEW i \in Invoices,
         Commit(t), Does(t, "pay"), tx[t].req.on = i
  PROVE  /\ tx[t].req.amount = 0 => Owed(i)' = 0
         /\ tx[t].req.amount # 0 /\ ~tx[t].req.sure => Owed(i)' >= -Margin
  <1>1. Owed(i) \in Int /\ Owed(i)' = Owed(i) - Settles(tx[t].rows[1]) /\ Settles(tx[t].rows[1]) \in Int
    BY PaysOff DEF PaysIn
  <1>2. Enough(tx[t].req, tx[t].rows[1])
    BY DEF PayInv, Paying, Settling, Decisive, Commit
  <1>3. PICK r, q : r = tx[t].req /\ q = tx[t].rows[1]
    OBVIOUS
  <1>4. /\ r.amount = 0 => Settles(q) = Owed(i)
        /\ r.amount # 0 /\ ~r.sure => Owed(i) - Settles(q) >= -Margin
    BY <1>2, <1>3 DEF Enough
  <1> QED  BY <1>1, <1>3, <1>4

LEMMA StepCloses ==
  ASSUME IInv, MoneyInv, PayInv, NEW t \in Txs, NEW i \in Invoices,
         \/ Commit(t) /\ (Does(t, "pay") \/ Does(t, "apply")) /\ tx[t].req.on = i
         \/ Collect(i)
  PROVE  ~Finished(i, Owed(i))'
  <1>1. job \in [Invoices -> {"invoiced", "closed"}]
    BY DEF MoneyInv, TypeOK
  <1>2. CASE Collect(i)
    <2>1. Owed(i)' = Owed(i)
      BY <1>2, OwedStands DEF Collect
    <2>2. job'[i] = "invoiced" => Owed(i) # 0
      BY <1>1, <1>2 DEF Collect
    <2> QED  BY <2>1, <2>2 DEF Finished
  <1>3. CASE Commit(t) /\ (Does(t, "pay") \/ Does(t, "apply")) /\ tx[t].req.on = i
    <2>1. Owed(i)' = Owed(i) - OwnOn(t, i)
      BY <1>3, PaysOff DEF PaysIn
    <2>2. tx[t].closes <=> Finished(i, Owed(i) - OwnOn(t, i))
      BY <1>3 DEF PayInv, Paying, Closing, PaysIn, Commit
    <2>3. here' = here /\ job' = IF tx[t].closes THEN [job EXCEPT ![i] = "closed"] ELSE job
      BY <1>3 DEF Commit
    <2>4. tx[t].closes => job'[i] = "closed"
      BY <1>1, <2>3
    <2>5. ~tx[t].closes => job' = job
      BY <2>3
    <2>6. PICK o : o = Owed(i) - OwnOn(t, i)
      OBVIOUS
    <2>7. Owed(i)' = o /\ (tx[t].closes <=> Finished(i, o))
      BY <2>1, <2>2, <2>6
    <2> QED  BY <2>3, <2>4, <2>5, <2>7 DEF Finished
  <1> QED  BY <1>2, <1>3

\* The inductive invariant about what was decided: the rows it was decided from
\* are locked until it is committed, and so it still holds then.
THEOREM DecisionsStand == Spec => [](IInv /\ MoneyInv /\ PayInv)
  <1>1. IInv /\ MoneyInv /\ PayInv /\ [Next]_vars => (IInv /\ MoneyInv /\ PayInv)'
    BY NextStep, NextKeepsMoney, NextPays
  <1>2. Init => IInv /\ MoneyInv /\ PayInv
    BY InitIsGood, InitMoney, InitPays
  <1> QED  BY <1>1, <1>2, PTL DEF Spec

LEMMA DecisionsSettle == [](IInv /\ MoneyInv /\ PayInv) => SettledAndClosed
  <1> DEFINE Settled == \A t \in Txs, i \in Invoices :
                          Commit(t) /\ Does(t, "pay") /\ tx[t].req.on = i =>
                            /\ tx[t].req.amount = 0 => Owed(i)' = 0
                            /\ tx[t].req.amount # 0 /\ ~tx[t].req.sure => Owed(i)' >= -Margin
             Ended == \A t \in Txs, i \in Invoices :
                         \/ Commit(t) /\ (Does(t, "pay") \/ Does(t, "apply")) /\ tx[t].req.on = i
                         \/ Collect(i)
                         => ~Finished(i, Owed(i))'
  <1>1. IInv /\ MoneyInv /\ PayInv => Settled /\ Ended
    BY StepSettles, StepCloses
  <1>2. SettledAndClosed <=> [][Settled]_vars /\ [][Ended]_vars
    BY DEF SettledAndClosed, PaysWhatIsOwed, ClosedWhenPaid
  <1> HIDE DEF Settled, Ended
  <1> QED  BY <1>1, <1>2, PTL

\* payments.go, balanceTx and RecordPayment; closing.go: two people settling one
\* invoice do not both settle it, nobody pays far more than is owed without
\* saying so, and of the payment and the collection that together finish a job
\* whichever is the last closes it.
THEOREM InvoicesAreSettledOnce == Spec => SettledAndClosed
  BY DecisionsSettle, DecisionsStand, PTL

-----------------------------------------------------------------------------
(* What one rental comes to (RentalMoney).                                 *)

SpecRental == InitRental /\ [][NextRental]_rentalvars

DamageRec  == [settled : {0} \cup Sums, told : {0} \cup Sums, objects : {"not said", "may", "no more"},
               answer : {"none", "accepted", "disputed"},
               outcome : {"none", "invoiced", "set_against_deposit", "not owed"}]
Charge     == [kind : Kinds \cup {"parking_tolls"}, gross : Nat, told : BOOLEAN, withdrawn : BOOLEAN,
               key : Requests \cup {NoRequest}]
FineRec    == [during : BOOLEAN, decision : {"none", "renter", "shop"}, charge : Nat, paid : BOOLEAN]
Bill       == [items : SUBSET Nat, gross : Nat, credited : Nat]
DepositRec == [asked : BOOLEAN, hold : BOOLEAN, received : Nat, back : Nat]
Use        == [bill : Nat, amount : Nat, undone : BOOLEAN]
RentalTyped ==
  /\ stay \in {"confirmed", "out", "returned", "cancelled", "no_show"}
  /\ damage \in DamageRec /\ charges \in Seq(Charge) /\ fine \in FineRec
  /\ bills \in Seq(Bill) /\ deposit \in DepositRec /\ uses \in Seq(Use)

\* What is on an invoice was there to be invoiced and the customer knew of it;
\* nothing is on two that stand; damage is charged once at a time, and a fine
\* once.
OnBills    == \A b \in DOMAIN bills : bills[b].items \subseteq {Rent} \cup DOMAIN charges
ToldOf     == \A b \in DOMAIN bills : \A it \in bills[b].items \ {Rent} : charges[it].told
StandOnce  == \A it \in {Rent} \cup DOMAIN charges : \A b, c \in StandsOn(it) : b = c
OneDamage  == \A c, d \in DamageCharges : Confirmed(c) /\ Confirmed(d) => c = d
OneFine    == {c \in DOMAIN charges : charges[c].kind = "parking_tolls"} = IF fine.decision = "renter" THEN {fine.charge} ELSE {}
RentalInv  == RentalTyped /\ OnBills /\ ToldOf /\ StandOnce /\ OneDamage /\ OneFine

LEMMA AtMostOne == ASSUME NEW S, \A x, y \in S : x = y PROVE Cardinality(S) <= 1
  <1>1. CASE S = {}
    BY <1>1, FS_EmptySet
  <1>2. CASE S # {}
    <2>1. PICK x : S = {x}
      BY <1>2
    <2> QED  BY <2>1, FS_Singleton
  <1> QED  BY <1>1, <1>2

\* Steps that leave charges and invoices alone.
LEMMA ElsewhereRental ==
  ASSUME RentalInv, RentalTyped', UNCHANGED <<charges, bills>>, fine'.decision = fine.decision, fine'.charge = fine.charge
  PROVE  RentalInv'
BY DEF RentalInv, OnBills, ToldOf, StandOnce, OneDamage, OneFine, StandsOn, Standing, DamageCharges, Confirmed

LEMMA StaysRental == ASSUME RentalInv, Stays PROVE RentalInv'
  <1>1. RentalTyped'
    BY DEF RentalInv, RentalTyped, Stays, claims, money
  <1> QED  BY <1>1, ElsewhereRental DEF Stays, claims, money

LEMMA DamageRental ==
  ASSUME RentalInv, TakeDamageStep \/ TimeToObjectPasses
  PROVE  RentalInv'
  <1>1. damage \in DamageRec
    BY DEF RentalInv, RentalTyped
  <1>2. UNCHANGED <<stay, charges, fine, bills, deposit, uses>>
    BY DEF TakeDamageStep, TimeToObjectPasses, money
  <1>3. damage' \in DamageRec
    <2>1. CASE TimeToObjectPasses
      BY <1>1, <2>1 DEF TimeToObjectPasses, DamageRec
    <2>2. CASE \E a \in Sums : AmountSettled(a)
      BY <1>1, <2>2 DEF AmountSettled, DamageRec
    <2>3. CASE \E objects \in {"not said", "may"} : CustomerInformed(objects)
      BY <1>1, <2>3 DEF CustomerInformed, DamageRec
    <2>4. CASE \E answer \in {"none", "accepted", "disputed"} : CustomerResponse(answer)
      BY <1>1, <2>4 DEF CustomerResponse, DamageRec
    <2>5. CASE \E outcome \in {"invoiced", "set_against_deposit", "not owed"} : Outcome(outcome)
      BY <1>1, <2>5 DEF Outcome, DamageRec
    <2>6. CASE Reopened
      BY <1>1, <2>6 DEF Reopened, NoCase, DamageRec
    <2> QED  BY <2>1, <2>2, <2>3, <2>4, <2>5, <2>6 DEF TakeDamageStep
  <1>4. RentalTyped'
    BY <1>2, <1>3 DEF RentalInv, RentalTyped
  <1> QED  BY <1>2, <1>4, ElsewhereRental

\* A charge confirmed is the last, and neither told of nor on an invoice.
LEMMA ConfirmRental ==
  ASSUME RentalInv, NEW kind \in Kinds \cup {"parking_tolls"}, NEW key \in Requests \cup {NoRequest},
         Confirm(kind, key), UNCHANGED <<stay, damage, bills, deposit, uses>>,
         \/ kind # "parking_tolls" /\ UNCHANGED fine
         \/ kind = "parking_tolls" /\ fine.decision # "renter" /\ fine' = [fine EXCEPT !.decision = "renter", !.charge = Len(charges) + 1]
  PROVE  RentalInv'
  <1> DEFINE c == [kind |-> kind, gross |-> IF kind = "damage" THEN damage.settled ELSE Priced,
                   told |-> FALSE, withdrawn |-> FALSE, key |-> key]
             n == Len(charges) + 1
  <1>1. c \in Charge
    <2>1. damage.settled \in Nat
      <3>1. damage.settled \in {0} \cup Sums
        BY DEF RentalInv, RentalTyped, DamageRec
      <3> QED  BY <3>1, SumsAreMoney
    <2>2. PICK g \in Nat : g = IF kind = "damage" THEN damage.settled ELSE Priced
      BY <2>1 DEF Priced
    <2>3. c = [kind |-> kind, gross |-> g, told |-> FALSE, withdrawn |-> FALSE, key |-> key]
      BY <2>2
    <2> HIDE DEF c
    <2> QED  BY <2>3 DEF Charge
  <1>2. charges \in Seq(Charge) /\ charges' = Append(charges, c)
    BY DEF RentalInv, RentalTyped, Confirm
  <1>3. /\ charges' \in Seq(Charge) /\ DOMAIN charges = 1..Len(charges) /\ DOMAIN charges' = 1..n
        /\ Len(charges) \in Nat /\ n \notin DOMAIN charges
        /\ charges'[n] = c /\ \A d \in DOMAIN charges : charges'[d] = charges[d]
    BY <1>1, <1>2, AppendProperties, LenProperties
  <1>4. DOMAIN charges' = DOMAIN charges \cup {n}
    BY <1>3
  <1>5. fine' \in FineRec
    <2>1. fine \in FineRec /\ n \in Nat
      BY <1>3 DEF RentalInv, RentalTyped
    <2> HIDE DEF n
    <2>2. CASE UNCHANGED fine
      BY <2>1, <2>2
    <2>3. CASE fine' = [fine EXCEPT !.decision = "renter", !.charge = n]
      BY <2>1, <2>3 DEF FineRec
    <2> QED  BY <2>2, <2>3 DEF n
  <1>6. RentalTyped'
    BY <1>3, <1>5 DEF RentalInv, RentalTyped
  <1>7. OnBills' /\ ToldOf'
    BY <1>3, <1>4 DEF RentalInv, OnBills, ToldOf, Rent
  <1>8. StandOnce'
    <2>1. \A b \in DOMAIN bills : n \notin bills[b].items
      BY <1>3 DEF RentalInv, OnBills, Rent
    <2> QED  BY <1>4, <2>1 DEF RentalInv, StandOnce, StandsOn, Standing
  <1>9. OneDamage'
    <2>1. kind = "damage" => \A d \in DamageCharges : charges[d].withdrawn
      BY DEF Confirm, DamageIsOwed
    <2> HIDE DEF n
    <2>2. c.kind = kind
      OBVIOUS
    <2> HIDE DEF c
    <2> QED  BY <1>3, <1>4, <2>1, <2>2 DEF RentalInv, OneDamage, DamageCharges, Confirmed
  <1>10. OneFine'
    <2>1. c.kind = kind
      OBVIOUS
    <2>2. fine.decision \in {"none", "renter", "shop"} /\ DOMAIN fine = {"during", "decision", "charge", "paid"}
      BY DEF RentalInv, RentalTyped, FineRec
    <2>3. CASE kind = "parking_tolls"
      <3>1. fine'.decision = "renter" /\ fine'.charge = n
        BY <2>2, <2>3
      <3>2. {d \in DOMAIN charges : charges[d].kind = "parking_tolls"} = {}
        BY <2>3 DEF RentalInv, OneFine
      <3> HIDE DEF n, c
      <3>3. \A d \in DOMAIN charges' : charges'[d].kind = "parking_tolls" <=> d = n
        BY <1>3, <1>4, <2>1, <2>3, <3>2
      <3>4. {d \in DOMAIN charges' : charges'[d].kind = "parking_tolls"} = {n}
        BY <1>4, <3>3
      <3> QED  BY <3>1, <3>4 DEF OneFine
    <2>4. CASE kind # "parking_tolls"
      <3>1. UNCHANGED fine
        BY <2>4
      <3> HIDE DEF n, c
      <3> QED  BY <1>3, <1>4, <2>1, <2>4, <3>1 DEF RentalInv, OneFine
    <2> QED  BY <2>3, <2>4
  <1> QED  BY <1>6, <1>7, <1>8, <1>9, <1>10 DEF RentalInv

\* A charge is told of, or withdrawn: neither is taken back.
LEMMA ChargeRental ==
  ASSUME RentalInv, NEW c \in DOMAIN charges, InformCharge(c) \/ WithdrawCharge(c)
  PROVE  RentalInv'
  <1>1. charges \in Seq(Charge)
    BY DEF RentalInv, RentalTyped
  <1>2. UNCHANGED <<stay, damage, fine, bills, deposit, uses>>
    BY DEF InformCharge, WithdrawCharge, money
  <1>3. PICK x \in Charge :
          /\ charges' = [charges EXCEPT ![c] = x]
          /\ x.kind = charges[c].kind /\ (charges[c].told => x.told) /\ (charges[c].withdrawn => x.withdrawn)
    <2>1. charges[c] \in Charge
      BY <1>1, ElementOfSeq, LenProperties
    <2>2. CASE InformCharge(c)
      <3>1. [charges[c] EXCEPT !.told = TRUE] \in Charge
        BY <2>1 DEF Charge
      <3>2. charges' = [charges EXCEPT ![c] = [charges[c] EXCEPT !.told = TRUE]]
        BY <2>2 DEF InformCharge
      <3>3. /\ [charges[c] EXCEPT !.told = TRUE].kind = charges[c].kind
            /\ [charges[c] EXCEPT !.told = TRUE].told
            /\ [charges[c] EXCEPT !.told = TRUE].withdrawn = charges[c].withdrawn
        BY <2>1 DEF Charge
      <3> QED  BY <3>1, <3>2, <3>3
    <2>3. CASE WithdrawCharge(c)
      <3>1. [charges[c] EXCEPT !.withdrawn = TRUE] \in Charge
        BY <2>1 DEF Charge
      <3>2. charges' = [charges EXCEPT ![c] = [charges[c] EXCEPT !.withdrawn = TRUE]]
        BY <2>3 DEF WithdrawCharge
      <3>3. /\ [charges[c] EXCEPT !.withdrawn = TRUE].kind = charges[c].kind
            /\ [charges[c] EXCEPT !.withdrawn = TRUE].withdrawn
            /\ [charges[c] EXCEPT !.withdrawn = TRUE].told = charges[c].told
        BY <2>1 DEF Charge
      <3> QED  BY <3>1, <3>2, <3>3
    <2> QED  BY <2>2, <2>3
  <1>4. /\ charges' \in Seq(Charge) /\ DOMAIN charges' = DOMAIN charges
        /\ charges'[c] = x /\ \A d \in DOMAIN charges : d # c => charges'[d] = charges[d]
    BY <1>1, <1>3, ExceptSeq, LenProperties
  <1>5. RentalTyped'
    BY <1>2, <1>4 DEF RentalInv, RentalTyped
  <1>6. OnBills' /\ ToldOf'
    BY <1>2, <1>3, <1>4 DEF RentalInv, OnBills, ToldOf
  <1>7. StandOnce'
    <2> SUFFICES ASSUME NEW it \in {Rent} \cup DOMAIN charges PROVE \A b, d \in StandsOn(it)' : b = d
      BY <1>4 DEF StandOnce
    <2>1. StandsOn(it)' = StandsOn(it)
      BY <1>2 DEF StandsOn, Standing
    <2> QED  BY <2>1 DEF RentalInv, StandOnce
  <1>8. OneDamage'
    BY <1>3, <1>4 DEF RentalInv, OneDamage, DamageCharges, Confirmed
  <1>9. OneFine'
    BY <1>2, <1>3, <1>4 DEF RentalInv, OneFine
  <1> QED  BY <1>5, <1>6, <1>7, <1>8, <1>9 DEF RentalInv

LEMMA FineRental ==
  ASSUME RentalInv, PassFineToRenter \/ KeepFine \/ FinePaid
  PROVE  RentalInv'
  <1>1. fine \in FineRec
    BY DEF RentalInv, RentalTyped
  <1>2. CASE PassFineToRenter
    <2>1. fine.decision # "renter"
      BY <1>1, <1>2 DEF PassFineToRenter
    <2> QED  BY <1>2, <2>1, ConfirmRental DEF PassFineToRenter, money
  <1>3. CASE KeepFine \/ FinePaid
    <2>1. UNCHANGED <<stay, damage, charges, bills, deposit, uses>>
      BY <1>3 DEF KeepFine, FinePaid, money
    <2>2. RentalTyped'
      BY <1>1, <1>3, <2>1 DEF RentalInv, RentalTyped, FineRec, KeepFine, FinePaid
    <2>3. OneFine'
      BY <1>1, <1>3, <2>1 DEF RentalInv, OneFine, FineRec, KeepFine, FinePaid
    <2> QED  BY <2>1, <2>2, <2>3 DEF RentalInv, OnBills, ToldOf, StandOnce, OneDamage, StandsOn, Standing, DamageCharges, Confirmed
  <1> QED  BY <1>2, <1>3

LEMMA GrossIsNat ==
  ASSUME RentalInv, NEW items \in SUBSET ({Rent} \cup DOMAIN charges)
  PROVE  Gross(items) \in Nat
  <1> DEFINE f == [it \in items |-> IF it = Rent THEN Priced ELSE charges[it].gross]
  <1>1. charges \in Seq(Charge) /\ DOMAIN charges = 1..Len(charges) /\ Len(charges) \in Nat
    BY LenProperties DEF RentalInv, RentalTyped
  <1>2. \A c \in DOMAIN charges : charges[c].gross \in Nat
    <2> SUFFICES ASSUME NEW c \in DOMAIN charges PROVE charges[c].gross \in Nat
      OBVIOUS
    <2>1. charges[c] \in Charge
      BY <1>1, ElementOfSeq
    <2> QED  BY <2>1 DEF Charge
  <1>3. \A it \in items : f[it] \in Nat
    BY <1>2 DEF Priced
  <1>4. IsFiniteSet(items)
    <2>1. IsFiniteSet(0..Len(charges))
      BY <1>1, FS_Interval
    <2>2. items \subseteq 0..Len(charges)
      BY <1>1 DEF Rent
    <2> QED  BY <2>1, <2>2, FS_Subset
  <1>5. Gross(items) = SumFunctionOnSet(f, items)
    BY DEF Gross
  <1> HIDE DEF f
  <1> QED  BY <1>3, <1>4, <1>5, SumIsNat

LEMMA IssueRental == ASSUME RentalInv, IssueRentalInvoice PROVE RentalInv'
  <1> DEFINE items == OpenItems
             n == Len(bills) + 1
             bill == [items |-> items, gross |-> Gross(items), credited |-> 0]
  <1>1. UNCHANGED <<stay, damage, charges, fine, deposit, uses>> /\ bills' = Append(bills, bill)
    BY DEF IssueRentalInvoice, claims
  <1>2. items \subseteq {Rent} \cup DOMAIN charges /\ \A it \in items : StandsOn(it) = {}
    BY DEF OpenItems
  <1>3. \A it \in items \ {Rent} : charges[it].told
    BY <1>2 DEF OpenItems, IssueRentalInvoice
  <1> HIDE DEF items
  <1>4. DOMAIN charges \subseteq Nat
    BY LenProperties DEF RentalInv, RentalTyped
  <1>5. bill \in Bill
    BY <1>2, <1>4, GrossIsNat DEF Bill, Rent
  <1>6. bills \in Seq(Bill)
    BY DEF RentalInv, RentalTyped
  <1> HIDE DEF bill
  <1>7. /\ bills' \in Seq(Bill) /\ DOMAIN bills' = DOMAIN bills \cup {n} /\ n \notin DOMAIN bills
        /\ bills'[n] = bill /\ \A b \in DOMAIN bills : bills'[b] = bills[b]
    BY <1>1, <1>5, <1>6, AppendProperties, LenProperties
  <1>8. bill.items = items /\ bill.credited = 0
    BY DEF bill
  <1> HIDE DEF n
  <1>9. RentalTyped'
    BY <1>1, <1>7 DEF RentalInv, RentalTyped
  <1>10. OnBills' /\ ToldOf'
    BY <1>1, <1>2, <1>3, <1>7, <1>8 DEF RentalInv, OnBills, ToldOf
  <1>11. StandOnce'
    <2> SUFFICES ASSUME NEW it \in {Rent} \cup DOMAIN charges, NEW b \in StandsOn(it)', NEW c \in StandsOn(it)'
                 PROVE  b = c
      BY <1>1 DEF StandOnce
    <2>1. b \in StandsOn(it) \/ (b = n /\ it \in items)
      BY <1>7, <1>8 DEF StandsOn, Standing
    <2>2. c \in StandsOn(it) \/ (c = n /\ it \in items)
      BY <1>7, <1>8 DEF StandsOn, Standing
    <2> QED  BY <1>2, <2>1, <2>2 DEF RentalInv, StandOnce
  <1>12. OneDamage' /\ OneFine'
    BY <1>1 DEF RentalInv, OneDamage, OneFine, DamageCharges, Confirmed
  <1> QED  BY <1>9, <1>10, <1>11, <1>12 DEF RentalInv

LEMMA CreditRental ==
  ASSUME RentalInv, NEW b \in DOMAIN bills, NEW a \in Sums, CreditRentalInvoice(b, a)
  PROVE  RentalInv'
  <1>1. bills \in Seq(Bill) /\ a \in Nat
    BY SumsAreMoney DEF RentalInv, RentalTyped
  <1>2. bills[b] \in Bill
    BY <1>1, ElementOfSeq, LenProperties
  <1> DEFINE x == [bills[b] EXCEPT !.credited = @ + a]
  <1>3. x \in Bill /\ x.items = bills[b].items /\ x.credited = bills[b].credited + a
    <2>1. PICK o : o = bills[b]
      OBVIOUS
    <2>2. o \in Bill /\ o.credited + a \in Nat
      BY <1>1, <1>2, <2>1 DEF Bill
    <2>3. x = [o EXCEPT !.credited = o.credited + a]
      BY <2>1
    <2> HIDE DEF x
    <2> QED  BY <2>1, <2>2, <2>3 DEF Bill
  <1>4. UNCHANGED <<stay, damage, charges, fine, deposit, uses>> /\ bills' = [bills EXCEPT ![b] = x]
    BY DEF CreditRentalInvoice, claims
  <1> HIDE DEF x
  <1>5. /\ bills' \in Seq(Bill) /\ DOMAIN bills' = DOMAIN bills
        /\ bills'[b] = x /\ \A c \in DOMAIN bills : c # b => bills'[c] = bills[c]
    BY <1>1, <1>3, <1>4, ExceptSeq, LenProperties
  <1>6. \A c \in DOMAIN bills : bills'[c].items = bills[c].items /\ (bills'[c].credited = 0 => bills[c].credited = 0)
    <2>1. bills[b].credited \in Nat
      BY <1>2 DEF Bill
    <2>2. x.credited = 0 => bills[b].credited = 0
      BY <1>1, <1>3, <2>1
    <2> QED  BY <1>3, <1>5, <2>2
  <1>7. RentalTyped'
    BY <1>4, <1>5 DEF RentalInv, RentalTyped
  <1>8. OnBills' /\ ToldOf'
    BY <1>4, <1>5, <1>6 DEF RentalInv, OnBills, ToldOf
  <1>9. StandOnce'
    <2> SUFFICES ASSUME NEW it \in {Rent} \cup DOMAIN charges PROVE \A c, d \in StandsOn(it)' : c = d
      BY <1>4 DEF StandOnce
    <2>1. StandsOn(it)' \subseteq StandsOn(it)
      BY <1>5, <1>6 DEF StandsOn, Standing
    <2> QED  BY <2>1 DEF RentalInv, StandOnce
  <1>10. OneDamage' /\ OneFine'
    BY <1>4 DEF RentalInv, OneDamage, OneFine, DamageCharges, Confirmed
  <1> QED  BY <1>7, <1>8, <1>9, <1>10 DEF RentalInv

LEMMA DepositRental == ASSUME RentalInv, DepositSteps PROVE RentalInv'
  <1>1. deposit \in DepositRec /\ uses \in Seq(Use)
    BY DEF RentalInv, RentalTyped
  <1>2. \A a \in Sums : a \in Nat
    BY SumsAreMoney
  <1>3. DOMAIN bills \subseteq Nat
    BY LenProperties DEF RentalInv, RentalTyped
  <1>4. UNCHANGED <<stay, damage, charges, fine, bills>> /\ deposit' \in DepositRec /\ uses' \in Seq(Use)
    <2>1. CASE RequireRentalDeposit
      BY <1>1, <2>1 DEF DepositRec, RequireRentalDeposit, OnDeposit, claims
    <2>2. CASE HoldRentalDeposit
      BY <1>1, <2>2 DEF DepositRec, HoldRentalDeposit, OnDeposit, claims
    <2>3. CASE ReleaseRentalDepositHold
      BY <1>1, <2>3 DEF DepositRec, ReleaseRentalDepositHold, OnDeposit, claims
    <2>4. ASSUME NEW a \in Sums, ReceiveDeposit(a) \/ GiveBackDeposit(a)
          PROVE  UNCHANGED <<stay, damage, charges, fine, bills>> /\ deposit' \in DepositRec /\ uses' \in Seq(Use)
      BY <1>1, <1>2, <2>4 DEF DepositRec, ReceiveDeposit, GiveBackDeposit, OnDeposit, claims
    <2>5. ASSUME NEW b \in DOMAIN bills, NEW a \in Sums, ApplyRentalDeposit(b, a)
          PROVE  UNCHANGED <<stay, damage, charges, fine, bills>> /\ deposit' \in DepositRec /\ uses' \in Seq(Use)
      <3>1. [bill |-> b, amount |-> a, undone |-> FALSE] \in Use
        BY <1>2, <1>3 DEF Use
      <3>2. UNCHANGED <<stay, damage, charges, fine, bills, deposit>> /\ uses' = Append(uses, [bill |-> b, amount |-> a, undone |-> FALSE])
        BY <2>5 DEF ApplyRentalDeposit, OnDeposit, claims
      <3> QED  BY <1>1, <3>1, <3>2, AppendProperties
    <2>6. ASSUME NEW u \in DOMAIN uses, UndoUse(u)
          PROVE  UNCHANGED <<stay, damage, charges, fine, bills>> /\ deposit' \in DepositRec /\ uses' \in Seq(Use)
      <3>1. uses[u] \in Use
        BY <1>1, ElementOfSeq, LenProperties
      <3>2. [uses[u] EXCEPT !.undone = TRUE] \in Use
        BY <3>1 DEF Use
      <3>3. UNCHANGED <<stay, damage, charges, fine, bills, deposit>> /\ uses' = [uses EXCEPT ![u] = [uses[u] EXCEPT !.undone = TRUE]]
        BY <2>6 DEF UndoUse, OnDeposit, claims
      <3> QED  BY <1>1, <3>2, <3>3, ExceptSeq, LenProperties
    <2> QED  BY <2>1, <2>2, <2>3, <2>4, <2>5, <2>6 DEF DepositSteps
  <1>5. RentalTyped'
    BY <1>4 DEF RentalInv, RentalTyped
  <1> QED  BY <1>4, <1>5, ElsewhereRental

LEMMA InitRentalFits == InitRental => RentalInv
  <1> SUFFICES ASSUME InitRental PROVE RentalInv
    OBVIOUS
  <1>1. charges = <<>> /\ bills = <<>> /\ fine.decision = "none"
    BY DEF InitRental
  <1>2. RentalTyped
    <2>1. damage \in DamageRec /\ fine \in FineRec /\ deposit \in DepositRec
      <3>1. damage \in DamageRec
        BY DEF InitRental, NoCase, DamageRec
      <3>2. fine \in FineRec
        <4>1. fine \in [during : BOOLEAN, decision : {"none"}, charge : {0}, paid : BOOLEAN]
          BY DEF InitRental
        <4> QED  BY <4>1 DEF FineRec
      <3>3. deposit \in DepositRec
        BY DEF InitRental, DepositRec
      <3> QED  BY <3>1, <3>2, <3>3
    <2>2. /\ stay = "confirmed" /\ uses = <<>>
          /\ charges \in Seq(Charge) /\ bills \in Seq(Bill) /\ uses \in Seq(Use)
      BY EmptySeq DEF InitRental
    <2> QED  BY <2>1, <2>2 DEF RentalTyped
  <1>3. DOMAIN charges = {} /\ DOMAIN bills = {}
    BY <1>1
  <1> QED  BY <1>1, <1>2, <1>3 DEF RentalInv, OnBills, ToldOf, StandOnce, OneDamage, OneFine, StandsOn, DamageCharges

LEMMA NextRentalFits == RentalInv /\ [NextRental]_rentalvars => RentalInv'
  <1> SUFFICES ASSUME RentalInv, [NextRental]_rentalvars PROVE RentalInv'
    OBVIOUS
  <1>1. CASE UNCHANGED rentalvars
    <2>1. RentalTyped' /\ UNCHANGED <<charges, bills, fine>>
      BY <1>1 DEF RentalInv, RentalTyped, rentalvars
    <2> QED  BY <2>1, ElsewhereRental
  <1>2. CASE ClaimSteps
    <2>1. ASSUME NEW kind \in Kinds, NEW key \in Requests \cup {NoRequest}, ConfirmCharge(kind, key)
          PROVE  RentalInv'
      BY <2>1, ConfirmRental DEF ConfirmCharge, Kinds, money
    <2> QED  BY <1>2, <2>1, StaysRental, DamageRental, ChargeRental, FineRental DEF ClaimSteps
  <1>3. CASE BillSteps
    BY <1>3, IssueRental, CreditRental DEF BillSteps
  <1>4. CASE DepositSteps
    BY <1>4, DepositRental
  <1> QED  BY <1>1, <1>2, <1>3, <1>4 DEF NextRental

\* The inductive invariant of a rental's charges and invoices.
THEOREM RentalFits == SpecRental => []RentalInv
  BY InitRentalFits, NextRentalFits, PTL DEF SpecRental

LEMMA BilledOnceFits == RentalInv => RentalBilledOnce
  <1> SUFFICES ASSUME RentalInv PROVE RentalBilledOnce
    OBVIOUS
  <1>1. \A it \in {Rent} \cup DOMAIN charges : Cardinality(StandsOn(it)) <= 1
    BY AtMostOne DEF RentalInv, StandOnce
  <1>2. Cardinality({c \in DamageCharges : Confirmed(c)}) <= 1
    BY AtMostOne DEF RentalInv, OneDamage
  <1> QED  BY <1>1, <1>2 DEF RentalInv, RentalBilledOnce, ToldOf, OneFine

\* rental_invoices.go:19, rental_charges.go:135, 0137: nothing of a rental is on
\* two invoices that stand, the customer was told of all that is on one, and a
\* damage or a fine is asked for in one charge, however often charges are
\* confirmed, withdrawn, invoiced and credited.
THEOREM RentalsAreBilledOnce == SpecRental => []RentalBilledOnce
  BY BilledOnceFits, RentalFits, PTL

LEMMA TypedRental == RentalInv => RentalTypeOK
  BY DEF RentalInv, RentalTyped, RentalTypeOK, DamageRec, Charge, FineRec, Bill, DepositRec, Use

\* Every piece of a rental's state is of its kind; amounts are never negative.
THEOREM RentalTypeIsCorrect == SpecRental => []RentalTypeOK
  BY TypedRental, RentalFits, PTL

-----------------------------------------------------------------------------
(* Both in parts, as they are run: one of the parts starts when a deposit  *)
(* was paid in.                                                            *)

LEMMA MovedRow ==
  ASSUME NEW x \in Invoices \cup Deposits \cup Payouts, NEW a \in Int, NEW k \in MaybeKey
  PROVE  LET r == Moved(x, a, k)
         IN  /\ r \in Row /\ IsRow(r) /\ Settles(r) = a
             /\ r.on = x /\ r.key = k /\ ~r.deposit /\ r.reverses = 0 /\ r.refunds = 0
  BY DEF Moved, Row, IsRow, RowFields, MaybeKey, Settles

\* A journal of one row that was paid into a deposit.
LEMMA PaidInRow ==
  ASSUME InitPaidIn
  PROVE  \E r \in Row : /\ IsRow(r) /\ Settles(r) \in Nat /\ r.on \in Deposits /\ r.key = NoKey
                        /\ ~r.deposit /\ r.reverses = 0 /\ r.refunds = 0 /\ rows = <<r>>
  <1>1. PICK d \in Deposits, a \in Amounts : rows = <<Moved(d, a, NoKey)>>
    BY DEF InitPaidIn
  <1>2. a \in Nat /\ NoKey \in MaybeKey
    BY AmountsAreMoney DEF MaybeKey
  <1>3. PICK r : r = Moved(d, a, NoKey)
    OBVIOUS
  <1>4. /\ r \in Row /\ IsRow(r) /\ Settles(r) = a /\ r.on = d /\ r.key = NoKey
        /\ ~r.deposit /\ r.reverses = 0 /\ r.refunds = 0
    BY <1>2, <1>3, MovedRow
  <1> QED  BY <1>1, <1>2, <1>3, <1>4

LEMMA PaidInIsGood == InitPaidIn => IInv
  <1> SUFFICES ASSUME InitPaidIn PROVE IInv
    OBVIOUS
  <1>1. PICK r \in Row : IsRow(r) /\ rows = <<r>>
    BY PaidInRow
  <1>2. Numbers = {1} /\ rows[1] = r /\ IsSeq(rows)
    BY <1>1 DEF Numbers, IsSeq
  <1>3. Shape
    BY <1>1, <1>2 DEF Shape, Fields, Idle, InitPaidIn
  <1>4. LocksHold
    BY DEF InitPaidIn, NothingHeld, LocksHold, Modes, Apart
  <1>5. ASSUME NEW t \in Txs PROVE Good(t)
    <2>1. tx[t].at = "idle" /\ tx[t].rows = <<>> /\ holds[t] = {}
      BY DEF InitPaidIn, Idle, NothingHeld
    <2>2. Own(t)
      BY <2>1, EmptyIsWritable DEF Own
    <2> QED  BY <2>1, <2>2 DEF Good, Stage, Asked, Climbs, HasSeries
  <1>6. Pairs /\ OneRowPerKey
    BY <1>2 DEF Pairs, OneRowPerKey, InitPaidIn
  <1> QED  BY <1>3, <1>4, <1>5, <1>6 DEF IInv

LEMMA PaidInMoney == InitPaidIn => MoneyInv
  <1> SUFFICES ASSUME InitPaidIn PROVE MoneyInv
    OBVIOUS
  <1>1. PICK r \in Row : /\ Settles(r) \in Nat /\ r.on \in Deposits
                         /\ ~r.deposit /\ r.reverses = 0 /\ r.refunds = 0 /\ rows = <<r>>
    BY PaidInRow
  <1>2. Numbers = {1} /\ rows[1] = r /\ Len(rows) = 1 /\ rows \in Seq(Row)
    BY <1>1 DEF Numbers
  <1>3. halves = {} /\ \A t \in Txs : tx[t].at = "idle" /\ tx[t].seen = 0 /\ tx[t].rows = <<>>
    BY DEF InitPaidIn, Idle
  <1>4. TypeOK
    <2>1. /\ credited \in [Invoices -> 0..Total] /\ job \in [Invoices -> {"invoiced", "closed"}]
          /\ here \in [Invoices -> BOOLEAN]
      BY AmountsAreMoney DEF InitPaidIn
    <2>2. 0 \in 0..Len(rows) /\ <<>> \in Seq(Row)
      BY <1>2
    <2>3. halves \subseteq Numbers \X Numbers
      BY <1>3
    <2> QED  BY <1>2, <1>3, <2>1, <2>2, <2>3 DEF TypeOK
  <1>5. RowsAreLawful /\ HalvesAreWhole
    BY <1>1, <1>2, <1>3 DEF RowsAreLawful, Lawful, HalvesAreWhole
  <1>6. \A t \in Txs : Looked(t) /\ Written(t) /\ StillLetIn(t)
    BY <1>3 DEF Looked, Written, Decisive, StillLetIn
  <1>7. Comes(rows, {}) = 0
    BY SumOfNone DEF Comes
  <1>8. PaidOutWasPaidIn
    <2>1. ASSUME NEW i \in Invoices PROVE GivenBack(i) = 0
      <3>1. Back(i) = {}
        BY <1>1, <1>2, <2>1, TargetsDiffer DEF Back, On
      <3> QED  BY <1>7, <3>1, InTheseTerms
    <2>2. ASSUME NEW d \in Deposits PROVE Held(d) >= 0
      <3>1. CASE On(d) = {}
        BY <1>7, <3>1, InTheseTerms
      <3>2. CASE On(d) # {}
        <4>1. PICK S \in SUBSET DOMAIN rows : S = {}
          OBVIOUS
        <4>2. On(d) = S \cup {1} /\ 1 \in (DOMAIN rows) \ S
          BY <1>2, <3>2, <4>1 DEF On, Numbers
        <4>3. Comes(rows, S \cup {1}) = Comes(rows, S) + Settles(rows[1])
          BY <1>2, <4>2, ComesFacts
        <4>4. Held(d) = Comes(rows, S \cup {1}) /\ Comes(rows, S) = 0
          BY <1>7, <4>1, <4>2, InTheseTerms
        <4> QED  BY <1>1, <1>2, <4>3, <4>4
      <3> QED  BY <3>1, <3>2
    <2>3. \A n \in Numbers : RefundsOf(n) = {}
      BY <1>1, <1>2 DEF RefundsOf
    <2> QED  BY <2>1, <2>2, <2>3 DEF PaidOutWasPaidIn, GivenBackWasPaidOver, DepositsNeverNegative, RefundsWithinPayment
  <1>9. ApplicationsAreWhole
    <2>1. {n \in Numbers : rows[n].deposit} = {}
      BY <1>1, <1>2
    <2>2. SettledBy({}) = 0
      BY <1>7, InTheseTerms
    <2> QED  BY <1>3, <2>1, <2>2 DEF ApplicationsAreWhole
  <1> QED  BY <1>4, <1>5, <1>6, <1>8, <1>9 DEF MoneyInv

LEMMA PaidInPays == InitPaidIn => PayInv
  BY DEF InitPaidIn, Idle, PayInv, Paying, Under, Into, Settling, Closing, Decisive

LEMMA StepsOfParts == [NextOfParts]_<<vars, rentalvars, part>> => [Next]_vars /\ [NextRental]_rentalvars
  <1>1. CASE UNCHANGED <<vars, rentalvars, part>>
    BY <1>1
  <1>2. CASE NextOfParts
    <2>1. ASSUME NEW t \in Txs, Step(t) /\ InPart PROVE Next /\ UNCHANGED rentalvars
      BY <2>1 DEF Next, InPart
    <2>2. ASSUME NEW i \in Invoices, Elsewhere(i) /\ InPart PROVE Next /\ UNCHANGED rentalvars
      BY <2>2 DEF Next, InPart
    <2>3. CASE (ClaimSteps \/ BillSteps \/ DepositSteps) /\ OnRental
      BY <2>3 DEF NextRental, OnRental
    <2>4. \/ \E t \in Txs : Step(t) /\ InPart
          \/ \E i \in Invoices : Elsewhere(i) /\ InPart
          \/ (ClaimSteps \/ BillSteps \/ DepositSteps) /\ OnRental
      BY <1>2, Zenon DEF NextOfParts, Step, Elsewhere
    <2> QED  BY <2>1, <2>2, <2>3, <2>4
  <1> QED  BY <1>1, <1>2

\* The four invariants, also where a deposit was already paid in.
LEMMA PartsAreKept == SpecOfParts => [](IInv /\ MoneyInv /\ PayInv /\ RentalInv)
  <1>1. InitOfParts => IInv /\ MoneyInv /\ PayInv /\ RentalInv
    <2>1. InitOfParts => (Init \/ InitPaidIn) /\ InitRental
      BY Zenon DEF InitOfParts
    <2> QED  BY <2>1, InitIsGood, InitMoney, InitPays, PaidInIsGood, PaidInMoney, PaidInPays, InitRentalFits
  <1>2. /\ IInv /\ MoneyInv /\ PayInv /\ RentalInv /\ [NextOfParts]_<<vars, rentalvars, part>>
        => (IInv /\ MoneyInv /\ PayInv /\ RentalInv)'
    BY StepsOfParts, NextStep, NextKeepsMoney, NextPays, NextRentalFits
  <1> QED  BY <1>1, <1>2, PTL DEF SpecOfParts

\* Every piece of state of the journal and of what a rental comes to is of its
\* kind, whichever of the two a part is about and whatever it starts from.
THEOREM MoneyIsTyped == SpecOfParts => []MoneyTypeOK
  <1>1. MoneyInv /\ RentalInv => MoneyTypeOK
    BY TypedRental DEF MoneyInv, MoneyTypeOK
  <1> QED  BY <1>1, PartsAreKept, PTL

\* journal.go, payments.go, rental_invoices.go: all that is proved of the empty
\* journal, of one that starts with a deposit paid in, while a rental is charged:
\* nothing pays out more than came in, what a deposit paid is whole, a key moves
\* money once, nobody waits in a circle, what is decided stands, and nothing of a
\* rental is invoiced twice.
THEOREM PartsAreAsPromised ==
  SpecOfParts =>
    /\ [](PaidOutWasPaidIn /\ ApplicationsAreWhole /\ OneRowPerKey /\ NoCircle /\ RentalBilledOnce)
    /\ SettledAndClosed
  <1>1. IInv /\ MoneyInv /\ RentalInv
        => PaidOutWasPaidIn /\ ApplicationsAreWhole /\ OneRowPerKey /\ NoCircle /\ RentalBilledOnce
    BY NoCircleFits, BilledOnceFits DEF IInv, MoneyInv
  <1> QED  BY <1>1, PartsAreKept, DecisionsSettle, PTL
=============================================================================
