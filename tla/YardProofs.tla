------------------------------ MODULE YardProofs ------------------------------
(***************************************************************************)
(* Of one job: that what is approved was agreed to as it was quoted, that  *)
(* no work is lost by cancelling, and when a ready job may get work again. *)
(* Of the sale of a car: that the car follows its sale and the invoice     *)
(* charges the terms as they stand.  For any number of lines, steps,       *)
(* mechanics, quotes, deals, buyers and reservations.                      *)
(* At the end that the two and Fleet, side by side as a run looks at them, *)
(* are each what they are alone.                                           *)
(***************************************************************************)
EXTENDS MCYard, FleetProofs, FiniteSetTheorems

SpecWork == InitWork /\ [][NextWork]_workvars

-----------------------------------------------------------------------------
(* The job.                                                                *)

Prices   == UNION {[L -> 0 .. MaxPrice] : L \in SUBSET Lines}
Quote    == [price : Prices, answer : {"none", "yes", "no"}]
TaskRec  == [status : {"none", "pending", "blocked", "done", "omitted"}, line : Lines \cup {NoLine}]
AwayRec  == [status : {"none", "requested", "sent", "returned", "checked", "check_failed", "cancelled"},
             line : Lines \cup {NoLine}, required : BOOLEAN]
Ends     == [end : {"none", "arrived", "cancelled"}, resume : BOOLEAN]

WorkKinds ==
  /\ state \in States
  /\ line \in [Lines -> Entry]
  /\ task \in [Tasks -> TaskRec]
  /\ quotes \in Seq(Quote) /\ Len(quotes) <= MaxQuotes /\ takenBack \in BOOLEAN
  /\ request \in [Orders -> {"none", "waiting", "arrived", "cancelled"}]
  /\ arriving \in [Orders -> Ends]
  /\ clock \in [Mechanics -> {"never", "running", "stopped"}]
  /\ starting \in [Mechanics -> States \cup {"none"}]
  /\ fitted \in [now : BOOLEAN, ever : BOOLEAN]
  /\ away \in AwayRec

\* A line that was withdrawn had been there.
WithdrawnWasThere == \A l \in Lines : line[l].withdrawn => line[l].there

\* e, as an entry of line l, is approved by a quote of q that had it, at no less.
ApprovedIn(l, e, q) ==
  e.yes # 0 => e.yes \in DOMAIN q /\ l \in DOMAIN q[e.yes].price /\ e.price <= q[e.yes].price[l]

ApprovedAsQuoted == \A l \in Lines : ApprovedIn(l, line[l], quotes)

\* A part that is taken out now was taken out once.
FittedOnce == fitted.now => fitted.ever

WorkInv == WorkKinds /\ WithdrawnWasThere /\ ApprovedAsQuoted /\ FittedOnce /\ NothingDoneIsCancelled
-----------------------------------------------------------------------------
(* Entries of lines.                                                       *)

\* Only what was performed and declined may differ.
SameTerms(e, f) ==
  /\ (f.there <=> e.there) /\ (f.withdrawn <=> e.withdrawn)
  /\ f.kind = e.kind /\ f.price = e.price /\ f.yes = e.yes

LEMMA PerformedEntry ==
  ASSUME NEW e \in Entry, NEW p \in BOOLEAN, NEW d \in BOOLEAN
  PROVE  LET f == [e EXCEPT !.performed = p, !.declined = d]
         IN  f \in Entry /\ SameTerms(e, f) /\ (f.performed <=> p) /\ (f.declined <=> d)
  BY DEF Entry, SameTerms

LEMMA OnlyPerformedEntry ==
  ASSUME NEW e \in Entry, NEW p \in BOOLEAN
  PROVE  LET f == [e EXCEPT !.performed = p]
         IN  f \in Entry /\ SameTerms(e, f) /\ (f.performed <=> p) /\ (f.declined <=> e.declined)
  BY DEF Entry, SameTerms

LEMMA DeclinedEntry ==
  ASSUME NEW e \in Entry
  PROVE  LET f == [e EXCEPT !.declined = TRUE]
         IN  f \in Entry /\ SameTerms(e, f) /\ (f.performed <=> e.performed) /\ f.declined
  BY DEF Entry, SameTerms

LEMMA WithdrawnEntry ==
  ASSUME NEW e \in Entry
  PROVE  LET f == [e EXCEPT !.withdrawn = TRUE]
         IN  /\ f \in Entry /\ (f.there <=> e.there) /\ f.withdrawn /\ f.price = e.price /\ f.yes = e.yes
             /\ (f.performed <=> e.performed) /\ (f.declined <=> e.declined)
  BY DEF Entry

LEMMA ApprovedEntry ==
  ASSUME NEW e \in Entry, NEW yes \in 0 .. MaxQuotes
  PROVE  LET f == [e EXCEPT !.yes = yes, !.declined = FALSE]
         IN  /\ f \in Entry /\ (f.there <=> e.there) /\ (f.withdrawn <=> e.withdrawn)
             /\ f.price = e.price /\ f.yes = yes /\ (f.performed <=> e.performed) /\ ~f.declined
  BY DEF Entry

LEMMA NewEntry ==
  ASSUME NEW kind \in {"labour", "part"}, NEW price \in 1 .. MaxPrice
  PROVE  LET f == [NoEntry EXCEPT !.there = TRUE, !.kind = kind, !.price = price]
         IN  f \in Entry /\ f.there /\ f.yes = 0 /\ ~f.performed /\ ~f.declined /\ ~f.withdrawn
  <1>1. NoEntry \in Entry /\ NoEntry.yes = 0 /\ ~NoEntry.performed /\ ~NoEntry.declined /\ ~NoEntry.withdrawn
    <2>1. 0 \in 0 .. MaxPrice /\ 0 \in 0 .. MaxQuotes
      BY WorkBoundsAreNumbers
    <2> QED  BY <2>1 DEF Entry, NoEntry
  <1>2. price \in 0 .. MaxPrice
    BY WorkBoundsAreNumbers
  <1> QED  BY <1>1, <1>2 DEF Entry

LEMMA NoEntryIsEntry == NoEntry \in Entry /\ NoEntry.yes = 0 /\ ~NoEntry.performed /\ ~NoEntry.declined /\ ~NoEntry.withdrawn /\ ~NoEntry.there
  <1>1. 0 \in 0 .. MaxPrice /\ 0 \in 0 .. MaxQuotes
    BY WorkBoundsAreNumbers
  <1> QED  BY <1>1 DEF Entry, NoEntry

-----------------------------------------------------------------------------
(* What steps of a job have in common.                                     *)

LEMMA TransitionsAre ==
  ASSUME NEW to, CanTransition(to)
  PROVE  to \in States /\ to # state /\ state \notin {"cancelled", "closed"}
  BY DEF CanTransition, transitions, States

\* Where lines keep their terms, what was withdrawn or approved is as it was.
LEMMA LinesKept ==
  ASSUME WorkInv, line' \in [Lines -> Entry], \A l \in Lines : SameTerms(line[l], line'[l]), quotes' = quotes
  PROVE  WithdrawnWasThere' /\ ApprovedAsQuoted'
  BY DEF WorkInv, WorkKinds, WithdrawnWasThere, ApprovedAsQuoted, ApprovedIn, SameTerms

LEMMA DeclinedLines ==
  ASSUME NEW L \in [Lines -> Entry]
  PROVE  /\ Declined(L) \in [Lines -> Entry]
         /\ \A l \in Lines : SameTerms(L[l], Declined(L)[l])
  <1> SUFFICES ASSUME NEW l \in Lines
               PROVE  Declined(L)[l] \in Entry /\ SameTerms(L[l], Declined(L)[l])
    BY DEF Declined
  <1>1. L[l] \in Entry /\ SameTerms(L[l], L[l])
    BY DEF SameTerms
  <1>2. [L[l] EXCEPT !.declined = TRUE] \in Entry /\ SameTerms(L[l], [L[l] EXCEPT !.declined = TRUE])
    BY <1>1, DeclinedEntry
  <1> QED  BY <1>1, <1>2 DEF Declined

\* A move takes every line's terms along, and cancels no job with work on it.
LEMMA MovesKeep ==
  ASSUME WorkInv, NEW to, NEW L \in [Lines -> Entry], \A l \in Lines : SameTerms(line[l], L[l]),
         to = "cancelled" => L = line, Moves(to, L), fitted' = fitted, away' = away
  PROVE  /\ state' \in States /\ line' \in [Lines -> Entry] /\ takenBack' \in BOOLEAN
         /\ \A l \in Lines : SameTerms(line[l], line'[l])
         /\ NothingDoneIsCancelled'
  <1>1. to \in States /\ state' = to
    BY TransitionsAre DEF Moves
  <1>2. line' = IF to = "declined" THEN Declined(L) ELSE L
    BY DEF Moves
  <1>3. line' \in [Lines -> Entry] /\ \A l \in Lines : SameTerms(line[l], line'[l])
    BY <1>2, DeclinedLines DEF SameTerms
  <1>4. takenBack' \in BOOLEAN
    BY DEF Moves, WorkInv, WorkKinds
  <1>5. NothingDoneIsCancelled'
    <2> SUFFICES ASSUME state' = "cancelled"
                 PROVE  ~fitted'.now /\ \A l \in Lines : ~line'[l].performed
      BY DEF NothingDoneIsCancelled
    <2>1. to = "cancelled" /\ ~HasWork /\ line' = line
      BY <1>1, <1>2 DEF Moves
    <2> QED  BY <2>1 DEF HasWork, WorkInv, FittedOnce
  <1> QED  BY <1>1, <1>3, <1>4, <1>5

\* Steps that change what is neither lines, quotes, parts taken out nor work away.
LEMMA OthersKeep ==
  ASSUME WorkInv, UNCHANGED <<line, quotes, fitted, away>>, state' \in States,
         state' = "cancelled" => state = "cancelled",
         task' \in [Tasks -> TaskRec], takenBack' \in BOOLEAN,
         request' \in [Orders -> {"none", "waiting", "arrived", "cancelled"}],
         arriving' \in [Orders -> Ends],
         clock' \in [Mechanics -> {"never", "running", "stopped"}],
         starting' \in [Mechanics -> States \cup {"none"}]
  PROVE  WorkInv'
  BY DEF WorkInv, WorkKinds, WithdrawnWasThere, ApprovedAsQuoted, ApprovedIn, FittedOnce, NothingDoneIsCancelled

LEMMA StoppedClock ==
  ASSUME WorkInv, NEW m \in Mechanics
  PROVE  Stopped(m) \in [Mechanics -> {"never", "running", "stopped"}]
  BY DEF Stopped, WorkInv, WorkKinds

-----------------------------------------------------------------------------
(* The steps of a job keep its invariant.                                  *)

LEMMA MovedWorkInv ==
  ASSUME WorkInv, state' \in States, line' \in [Lines -> Entry], takenBack' \in BOOLEAN,
         \A l \in Lines : SameTerms(line[l], line'[l]), NothingDoneIsCancelled',
         UNCHANGED <<quotes, fitted, away, arriving, starting>>,
         task' \in [Tasks -> TaskRec],
         request' \in [Orders -> {"none", "waiting", "arrived", "cancelled"}],
         clock' \in [Mechanics -> {"never", "running", "stopped"}]
  PROVE  WorkInv'
  <1>1. WithdrawnWasThere' /\ ApprovedAsQuoted'
    BY LinesKept
  <1> QED  BY <1>1 DEF WorkInv, WorkKinds, FittedOnce

LEMMA StateMovesKeep == ASSUME WorkInv, StateMoves PROVE WorkInv'
  <1>0. line \in [Lines -> Entry] /\ \A l \in Lines : SameTerms(line[l], line[l])
    BY DEF WorkInv, WorkKinds, SameTerms
  <1>1. ASSUME NEW to \in States, SetState(to) PROVE WorkInv'
    <2>1. Moves(to, line) /\ UNCHANGED <<task, quotes, request, arriving, starting, fitted, away>>
      BY <1>1 DEF SetState
    <2>2. clock' \in [Mechanics -> {"never", "running", "stopped"}]
      BY <1>1, StoppedClock DEF SetState, WorkInv, WorkKinds
    <2>3. /\ state' \in States /\ line' \in [Lines -> Entry] /\ takenBack' \in BOOLEAN
          /\ \A l \in Lines : SameTerms(line[l], line'[l])
          /\ NothingDoneIsCancelled'
      BY <1>0, <2>1, MovesKeep
    <2>4. task' \in [Tasks -> TaskRec] /\ request' \in [Orders -> {"none", "waiting", "arrived", "cancelled"}]
      BY <2>1 DEF WorkInv, WorkKinds
    <2> QED  BY <2>1, <2>2, <2>3, <2>4, MovedWorkInv
  <1>2. ASSUME NEW to \in States, Bill(to) PROVE WorkInv'
    <2>1. Moves(to, line) /\ UNCHANGED <<task, quotes, request, arriving, clock, starting, fitted, away>>
      BY <1>2 DEF Bill
    <2>2. /\ state' \in States /\ line' \in [Lines -> Entry] /\ takenBack' \in BOOLEAN
          /\ \A l \in Lines : SameTerms(line[l], line'[l])
          /\ NothingDoneIsCancelled'
      BY <1>0, <2>1, MovesKeep
    <2>3. /\ task' \in [Tasks -> TaskRec] /\ request' \in [Orders -> {"none", "waiting", "arrived", "cancelled"}]
          /\ clock' \in [Mechanics -> {"never", "running", "stopped"}]
      BY <2>1 DEF WorkInv, WorkKinds
    <2> QED  BY <2>1, <2>2, <2>3, MovedWorkInv
  <1> QED  BY <1>1, <1>2 DEF StateMoves

LEMMA FinishedTasks ==
  ASSUME WorkInv, NEW ls
  PROVE  Finished(ls) \in [Tasks -> TaskRec]
  BY DEF Finished, Undone, WorkInv, WorkKinds, TaskRec

LEMMA DeclinesKeep == ASSUME WorkInv, Declines PROVE WorkInv'
  <1> PICK ls \in SUBSET Lines : Decline(ls)
    BY DEF Declines
  <1> DEFINE L == [l \in Lines |-> IF l \in ls THEN [line[l] EXCEPT !.performed = TRUE] ELSE line[l]]
  <1>1. L \in [Lines -> Entry] /\ \A l \in Lines : SameTerms(line[l], L[l])
    BY OnlyPerformedEntry DEF WorkInv, WorkKinds, SameTerms
  <1>2. Moves("declined", L) /\ UNCHANGED <<quotes, request, arriving, clock, starting, fitted, away>>
    BY DEF Decline
  <1>3. task' \in [Tasks -> TaskRec]
    BY FinishedTasks DEF Decline, WorkInv, WorkKinds, TaskRec
  <1> HIDE DEF L
  <1>4. /\ state' \in States /\ line' \in [Lines -> Entry] /\ takenBack' \in BOOLEAN
        /\ \A l \in Lines : SameTerms(line[l], line'[l])
        /\ NothingDoneIsCancelled'
    BY <1>1, <1>2, MovesKeep
  <1>5. /\ request' \in [Orders -> {"none", "waiting", "arrived", "cancelled"}]
        /\ clock' \in [Mechanics -> {"never", "running", "stopped"}]
    BY <1>2 DEF WorkInv, WorkKinds
  <1> QED  BY <1>2, <1>3, <1>4, <1>5, MovedWorkInv

\* One line of a job that accepts work becomes another.
LEMMA OneLineChanges ==
  ASSUME WorkInv, NEW l \in Lines, NEW e \in Entry, line' = [line EXCEPT ![l] = e], AcceptsWork,
         e.withdrawn => e.there, ApprovedIn(l, e, quotes), task' \in [Tasks -> TaskRec],
         UNCHANGED <<state, quotes, takenBack, request, arriving, clock, starting, fitted, away>>
  PROVE  WorkInv'
  <1>1. /\ line' \in [Lines -> Entry]
        /\ \A k \in Lines : line'[k] = IF k = l THEN e ELSE line[k]
    BY DEF WorkInv, WorkKinds
  <1>2. WithdrawnWasThere' /\ ApprovedAsQuoted'
    BY <1>1 DEF WorkInv, WithdrawnWasThere, ApprovedAsQuoted, ApprovedIn
  <1>3. NothingDoneIsCancelled'
    BY DEF AcceptsWork, NothingDoneIsCancelled
  <1> QED  BY <1>1, <1>2, <1>3 DEF WorkInv, WorkKinds, FittedOnce

LEMMA QuotedPrice ==
  ASSUME WorkInv, NEW i \in DOMAIN quotes, NEW l \in DOMAIN quotes[i].price
  PROVE  quotes[i].price[l] \in 0 .. MaxPrice
  <1>1. quotes[i] \in Quote
    BY DEF WorkInv, WorkKinds
  <1>2. PICK S \in SUBSET Lines : quotes[i].price \in [S -> 0 .. MaxPrice]
    BY <1>1 DEF Quote, Prices
  <1> QED  BY <1>2

LEMMA LineChangesKeep == ASSUME WorkInv, LineChanges PROVE WorkInv'
  <1> PICK l \in Lines :
        \/ \E kind \in {"labour", "part"}, price \in 1 .. MaxPrice : AddLine(l, kind, price)
        \/ \E price \in 1 .. MaxPrice : EditLine(l, price)
        \/ WithdrawLine(l) \/ MarkPerformed(l) \/ UnmarkPerformed(l)
    BY DEF LineChanges
  <1>0. /\ line[l] \in Entry /\ task \in [Tasks -> TaskRec] /\ ApprovedIn(l, line[l], quotes)
        /\ (line[l].withdrawn => line[l].there)
    BY DEF WorkInv, WorkKinds, ApprovedAsQuoted, WithdrawnWasThere
  <1>1. ASSUME NEW kind \in {"labour", "part"}, NEW price \in 1 .. MaxPrice, AddLine(l, kind, price) PROVE WorkInv'
    <2> DEFINE e == [NoEntry EXCEPT !.there = TRUE, !.kind = kind, !.price = price]
    <2>1. e \in Entry /\ e.there /\ e.yes = 0
      BY NewEntry
    <2>2. /\ AcceptsWork /\ line' = [line EXCEPT ![l] = e] /\ task' = task
          /\ UNCHANGED <<state, quotes, takenBack, request, arriving, clock, starting, fitted, away>>
      BY <1>1 DEF AddLine, OnLines
    <2> HIDE DEF e
    <2>3. ApprovedIn(l, e, quotes)
      BY <2>1 DEF ApprovedIn
    <2> QED  BY <1>0, <2>1, <2>2, <2>3, OneLineChanges
  <1>2. ASSUME NEW price \in 1 .. MaxPrice, EditLine(l, price) PROVE WorkInv'
    <2> DEFINE yes == IF price > line[l].price THEN 0 ELSE line[l].yes
               e   == [line[l] EXCEPT !.price = price, !.yes = yes]
    <2>1. price \in 0 .. MaxPrice /\ yes \in 0 .. MaxQuotes /\ line[l].price \in 0 .. MaxPrice
      BY <1>0, WorkBoundsAreNumbers DEF Entry
    <2> HIDE DEF yes
    <2>2. /\ e \in Entry /\ (e.there <=> line[l].there) /\ (e.withdrawn <=> line[l].withdrawn)
          /\ e.price = price /\ e.yes = yes
      BY <1>0, <2>1 DEF Entry
    <2>3. line' = [line EXCEPT ![l] = e]
      BY <1>2, <1>0 DEF EditLine, WorkInv, WorkKinds, Entry, yes
    <2>4. /\ AcceptsWork /\ task' = task
          /\ UNCHANGED <<state, quotes, takenBack, request, arriving, clock, starting, fitted, away>>
      BY <1>2 DEF EditLine, OnLines
    <2> HIDE DEF e
    <2>5. ApprovedIn(l, e, quotes)
      <3> SUFFICES ASSUME yes # 0
                   PROVE  yes \in DOMAIN quotes /\ l \in DOMAIN quotes[yes].price /\ price <= quotes[yes].price[l]
        BY <2>2 DEF ApprovedIn
      <3>1. yes = line[l].yes /\ price <= line[l].price
        BY <2>1, WorkBoundsAreNumbers DEF yes
      <3>2. yes \in DOMAIN quotes /\ l \in DOMAIN quotes[yes].price /\ line[l].price <= quotes[yes].price[l]
        BY <1>0, <3>1 DEF ApprovedIn
      <3>3. quotes[yes].price[l] \in 0 .. MaxPrice
        BY <3>2, QuotedPrice
      <3> QED  BY <2>1, <3>1, <3>2, <3>3, WorkBoundsAreNumbers
    <2> QED  BY <1>0, <2>2, <2>3, <2>4, <2>5, OneLineChanges
  <1>3. CASE WithdrawLine(l)
    <2> DEFINE e == [line[l] EXCEPT !.withdrawn = TRUE]
    <2>1. /\ e \in Entry /\ (e.there <=> line[l].there) /\ e.price = line[l].price /\ e.yes = line[l].yes
      BY <1>0, WithdrawnEntry
    <2>2. /\ AcceptsWork /\ line' = [line EXCEPT ![l] = e] /\ task' = task /\ line[l].there
          /\ UNCHANGED <<state, quotes, takenBack, request, arriving, clock, starting, fitted, away>>
      BY <1>3 DEF WithdrawLine, OnLines, Stands, WorkInv, WorkKinds
    <2> HIDE DEF e
    <2>3. ApprovedIn(l, e, quotes)
      BY <1>0, <2>1 DEF ApprovedIn
    <2> QED  BY <1>0, <2>1, <2>2, <2>3, OneLineChanges
  <1>4. CASE MarkPerformed(l)
    <2> DEFINE e == [line[l] EXCEPT !.performed = TRUE, !.declined = FALSE]
    <2>1. e \in Entry /\ SameTerms(line[l], e)
      BY <1>0, PerformedEntry
    <2>2. /\ AcceptsWork /\ line' = [line EXCEPT ![l] = e] /\ task' = Finished({l})
          /\ UNCHANGED <<state, quotes, takenBack, request, arriving, clock, starting, fitted, away>>
      BY <1>4 DEF MarkPerformed, WorkInv, WorkKinds
    <2> HIDE DEF e
    <2>3. ApprovedIn(l, e, quotes) /\ (e.withdrawn => e.there)
      BY <1>0, <2>1 DEF ApprovedIn, SameTerms
    <2>4. task' \in [Tasks -> TaskRec]
      BY <2>2, FinishedTasks
    <2> QED  BY <1>0, <2>1, <2>2, <2>3, <2>4, OneLineChanges
  <1>5. CASE UnmarkPerformed(l)
    <2> DEFINE d == state = "declined"
               e == [line[l] EXCEPT !.performed = FALSE, !.declined = d]
    <2>0. d \in BOOLEAN
      OBVIOUS
    <2> HIDE DEF d
    <2>1. e \in Entry /\ SameTerms(line[l], e)
      BY <1>0, <2>0, PerformedEntry
    <2>2. /\ AcceptsWork /\ line' = [line EXCEPT ![l] = e] /\ task' = task
          /\ UNCHANGED <<state, quotes, takenBack, request, arriving, clock, starting, fitted, away>>
      BY <1>5 DEF UnmarkPerformed, OnLines, WorkInv, WorkKinds, d
    <2> HIDE DEF e
    <2>3. ApprovedIn(l, e, quotes) /\ (e.withdrawn => e.there)
      BY <1>0, <2>1 DEF ApprovedIn, SameTerms
    <2> QED  BY <1>0, <2>1, <2>2, <2>3, OneLineChanges
  <1> QED  BY <1>1, <1>2, <1>3, <1>4, <1>5

LEMMA PresentQuoteKeeps == ASSUME WorkInv, PresentQuote PROVE WorkInv'
  <1>1. /\ state' \in States /\ state' # "cancelled"
        /\ UNCHANGED <<line, task, request, arriving, clock, starting, fitted, away>>
    BY DEF PresentQuote, settled, notAskedYet, States, WorkInv, WorkKinds
  <1>2. takenBack' \in BOOLEAN
    BY DEF PresentQuote, WorkInv, WorkKinds
  <1>3. /\ quotes' \in Seq(Quote) /\ Len(quotes') <= MaxQuotes
        /\ Len(quotes') >= Len(quotes) /\ \A i \in DOMAIN quotes : i \in DOMAIN quotes' /\ quotes'[i] = quotes[i]
    <2>1. CASE quotes' = quotes
      BY <2>1 DEF WorkInv, WorkKinds
    <2>2. CASE /\ Len(quotes) < MaxQuotes
               /\ quotes' = Append(quotes, [price |-> [l \in Pending |-> line[l].price], answer |-> "none"])
      <3> DEFINE q == [price |-> [l \in Pending |-> line[l].price], answer |-> "none"]
      <3>1. [l \in Pending |-> line[l].price] \in [Pending -> 0 .. MaxPrice] /\ Pending \in SUBSET Lines
        BY DEF Pending, WorkInv, WorkKinds, Entry
      <3>2. q \in Quote
        BY <3>1 DEF Quote, Prices
      <3> HIDE DEF q
      <3> QED  BY <2>2, <3>2, WorkBoundsAreNumbers DEF WorkInv, WorkKinds, q
    <2> QED  BY <2>1, <2>2 DEF PresentQuote
  <1>4. ApprovedAsQuoted'
    BY <1>1, <1>3 DEF WorkInv, ApprovedAsQuoted, ApprovedIn
  <1> QED  BY <1>1, <1>2, <1>3, <1>4 DEF WorkInv, WorkKinds, WithdrawnWasThere, FittedOnce, NothingDoneIsCancelled

\* An answer is written on the newest quote, and changes no price of it.
LEMMA AnsweredQuotes ==
  ASSUME WorkInv, quotes # <<>>, NEW a \in {"yes", "no"}, quotes' = [quotes EXCEPT ![Len(quotes)].answer = a]
  PROVE  /\ quotes' \in Seq(Quote) /\ Len(quotes') = Len(quotes) /\ DOMAIN quotes' = DOMAIN quotes
         /\ Len(quotes) \in DOMAIN quotes /\ Len(quotes) \in 0 .. MaxQuotes /\ Len(quotes) # 0
         /\ \A i \in DOMAIN quotes : quotes'[i].price = quotes[i].price
  <1>1. Len(quotes) \in DOMAIN quotes /\ Len(quotes) \in 0 .. MaxQuotes /\ Len(quotes) # 0 /\ quotes \in Seq(Quote)
    BY WorkBoundsAreNumbers DEF WorkInv, WorkKinds
  <1> DEFINE r == quotes[Len(quotes)]
             q == [r EXCEPT !.answer = a]
  <1>r. r \in Quote
    BY <1>1
  <1> HIDE DEF r
  <1>2. q \in Quote /\ q.price = r.price
    BY <1>r DEF Quote
  <1>3. quotes' = [quotes EXCEPT ![Len(quotes)] = q]
    BY DEF r
  <1> HIDE DEF q
  <1> QED  BY <1>1, <1>2, <1>3 DEF r

LEMMA AnswerYesKeeps == ASSUME WorkInv, AnswerYes PROVE WorkInv'
  <1>0. /\ ~settled /\ quotes # <<>> /\ ~Stale
        /\ line' = [l \in Lines |-> IF InLatest(l) THEN Approves(l) ELSE line[l]]
        /\ quotes' = [quotes EXCEPT ![Len(quotes)].answer = "yes"]
        /\ UNCHANGED <<state, task, takenBack, request, arriving, clock, starting, fitted, away>>
    BY DEF AnswerYes, Answerable
  <1>1. /\ quotes' \in Seq(Quote) /\ Len(quotes') = Len(quotes) /\ DOMAIN quotes' = DOMAIN quotes
        /\ Len(quotes) \in DOMAIN quotes /\ Len(quotes) \in 0 .. MaxQuotes /\ Len(quotes) # 0
        /\ \A i \in DOMAIN quotes : quotes'[i].price = quotes[i].price
    BY <1>0, AnsweredQuotes
  <1>2. ASSUME NEW l \in Lines
        PROVE  /\ line'[l] \in Entry /\ (line'[l].withdrawn => line'[l].there)
               /\ ApprovedIn(l, line'[l], quotes')
    <2>1. line[l] \in Entry /\ (line[l].withdrawn => line[l].there) /\ ApprovedIn(l, line[l], quotes)
      BY DEF WorkInv, WorkKinds, WithdrawnWasThere, ApprovedAsQuoted
    <2>2. CASE ~InLatest(l)
      <3>1. line'[l] = line[l]
        BY <1>0, <2>2
      <3> QED  BY <1>1, <2>1, <3>1 DEF ApprovedIn
    <2>3. CASE InLatest(l)
      <3> DEFINE e == Approves(l)
      <3>1. /\ e \in Entry /\ (e.there <=> line[l].there) /\ (e.withdrawn <=> line[l].withdrawn)
            /\ e.price = line[l].price /\ e.yes = Len(quotes)
        BY <1>1, <2>1, ApprovedEntry DEF Approves
      <3>2. line'[l] = e
        BY <1>0, <2>3
      <3> HIDE DEF e
      <3>3. l \in DOMAIN quotes[Len(quotes)].price /\ line[l].price = quotes[Len(quotes)].price[l]
        BY <1>0, <2>3 DEF InLatest, Stale, Latest
      <3>4. line[l].price \in Nat
        BY <2>1, WorkBoundsAreNumbers DEF Entry
      <3> QED  BY <1>1, <2>1, <3>1, <3>2, <3>3, <3>4 DEF ApprovedIn
    <2> QED  BY <2>2, <2>3
  <1>3. line' \in [Lines -> Entry]
    <2>1. line' = [l \in Lines |-> line'[l]]
      BY <1>0
    <2> QED  BY <1>2, <2>1
  <1>4. WithdrawnWasThere' /\ ApprovedAsQuoted'
    BY <1>2 DEF WithdrawnWasThere, ApprovedAsQuoted
  <1>5. NothingDoneIsCancelled'
    BY <1>0 DEF settled, NothingDoneIsCancelled
  <1> QED  BY <1>0, <1>1, <1>3, <1>4, <1>5 DEF WorkInv, WorkKinds, FittedOnce

LEMMA AnswerNoKeeps == ASSUME WorkInv, AnswerNo PROVE WorkInv'
  <1>0. /\ ~settled /\ quotes # <<>>
        /\ line' = [l \in Lines |-> IF InLatest(l) /\ ~line[l].performed THEN [line[l] EXCEPT !.declined = TRUE] ELSE line[l]]
        /\ quotes' = [quotes EXCEPT ![Len(quotes)].answer = "no"]
        /\ UNCHANGED <<state, task, takenBack, request, arriving, clock, starting, fitted, away>>
    BY DEF AnswerNo, Answerable
  <1>1. /\ quotes' \in Seq(Quote) /\ Len(quotes') = Len(quotes) /\ DOMAIN quotes' = DOMAIN quotes
        /\ \A i \in DOMAIN quotes : quotes'[i].price = quotes[i].price
    BY <1>0, AnsweredQuotes
  <1>2. line' \in [Lines -> Entry] /\ \A l \in Lines : SameTerms(line[l], line'[l])
    BY <1>0, DeclinedEntry DEF WorkInv, WorkKinds, SameTerms
  <1>3. WithdrawnWasThere' /\ ApprovedAsQuoted'
    BY <1>1, <1>2 DEF WorkInv, WorkKinds, WithdrawnWasThere, ApprovedAsQuoted, ApprovedIn, SameTerms
  <1>4. NothingDoneIsCancelled'
    BY <1>0 DEF settled, NothingDoneIsCancelled
  <1> QED  BY <1>0, <1>1, <1>2, <1>3, <1>4 DEF WorkInv, WorkKinds, FittedOnce

\* A step moved on the work list changes its own line alone, and not its terms.
LEMMA MovedOnList ==
  ASSUME WorkInv, NEW t \in Tasks, NEW to \in {"pending", "blocked", "done", "omitted"}, MovesOnList(t, to)
  PROVE  /\ task' \in [Tasks -> TaskRec] /\ line' \in [Lines -> Entry]
         /\ \A l \in Lines : SameTerms(line[l], line'[l])
         /\ \A l \in Lines : l # task[t].line => line'[l] = line[l]
  <1>1. task' = [task EXCEPT ![t].status = to] /\ task[t] \in TaskRec /\ task \in [Tasks -> TaskRec]
    BY DEF MovesOnList, WorkInv, WorkKinds
  <1>2. task' \in [Tasks -> TaskRec]
    BY <1>1 DEF TaskRec
  <1>3. line \in [Lines -> Entry] /\ \A l \in Lines : SameTerms(line[l], line[l])
    BY DEF WorkInv, WorkKinds, SameTerms
  <1>4. CASE line' = line
    BY <1>2, <1>3, <1>4
  <1>5. CASE task[t].line # NoLine /\ line' = [line EXCEPT ![task[t].line] = Performs(@, to = "done")]
    <2> DEFINE k == task[t].line
               e == Performs(line[k], to = "done")
    <2>1. k \in Lines
      BY <1>1, <1>5 DEF TaskRec
    <2>2. e \in Entry /\ SameTerms(line[k], e)
      <3>1. [line[k] EXCEPT !.performed = TRUE, !.declined = FALSE] \in Entry
            /\ SameTerms(line[k], [line[k] EXCEPT !.performed = TRUE, !.declined = FALSE])
        BY <1>3, <2>1, PerformedEntry
      <3> DEFINE d == state = "declined"
      <3>2. d \in BOOLEAN
        OBVIOUS
      <3> HIDE DEF d
      <3>3. [line[k] EXCEPT !.performed = FALSE, !.declined = d] \in Entry
            /\ SameTerms(line[k], [line[k] EXCEPT !.performed = FALSE, !.declined = d])
        BY <1>3, <2>1, <3>2, PerformedEntry
      <3>4. \/ e = line[k]
            \/ e = [line[k] EXCEPT !.performed = TRUE, !.declined = FALSE]
            \/ e = [line[k] EXCEPT !.performed = FALSE, !.declined = d]
        BY DEF Performs, d
      <3> HIDE DEF e
      <3> QED  BY <1>3, <2>1, <3>1, <3>3, <3>4
    <2>3. line' = [line EXCEPT ![k] = e]
      BY <1>5
    <2> HIDE DEF e
    <2> QED  BY <1>2, <1>3, <2>1, <2>2, <2>3
  <1> QED  BY <1>4, <1>5 DEF MovesOnList

LEMMA TaskStepsKeep == ASSUME WorkInv, TaskSteps PROVE WorkInv'
  <1>0. /\ line \in [Lines -> Entry] /\ \A l \in Lines : SameTerms(line[l], line[l])
        /\ task \in [Tasks -> TaskRec] /\ state \in States /\ takenBack \in BOOLEAN
        /\ request \in [Orders -> {"none", "waiting", "arrived", "cancelled"}]
        /\ clock \in [Mechanics -> {"never", "running", "stopped"}]
    BY DEF WorkInv, WorkKinds, SameTerms
  <1>1. ASSUME AcceptsWork, state' \in {state, "in_progress"}, task' \in [Tasks -> TaskRec], line' \in [Lines -> Entry],
               \A l \in Lines : SameTerms(line[l], line'[l]), UNCHANGED away, OnTasks
        PROVE  WorkInv'
    <2>1. state' \in States /\ NothingDoneIsCancelled'
      BY <1>0, <1>1 DEF AcceptsWork, NothingDoneIsCancelled, States
    <2>2. UNCHANGED <<quotes, takenBack, request, arriving, clock, starting, fitted>>
      BY <1>1 DEF OnTasks
    <2> QED  BY <1>0, <1>1, <2>1, <2>2, MovedWorkInv
  <1>2. ASSUME NEW t \in Tasks, NEW l \in Lines \cup {NoLine}, AddTask(t, l) PROVE WorkInv'
    <2>1. task' \in [Tasks -> TaskRec]
      BY <1>0, <1>2 DEF AddTask, TaskRec
    <2> QED  BY <1>0, <1>1, <1>2, <2>1 DEF AddTask, backOnTheLift
  <1>3. CASE TasksFromLines
    <2> DEFINE todo == {l \in Lines : /\ Stands(l) /\ line[l].kind = "labour" /\ line[l].yes # 0 /\ ~line[l].declined
                                      /\ \A t \in Tasks : task[t].line # l}
    <2>1. PICK f \in [todo -> {t \in Tasks : task[t].status = "none"}] :
            task' = [t \in Tasks |-> IF \E l \in todo : f[l] = t
                                     THEN [status |-> "pending", line |-> CHOOSE l \in todo : f[l] = t] ELSE task[t]]
      BY <1>3 DEF TasksFromLines
    <2>2. todo \subseteq Lines
      OBVIOUS
    <2> HIDE DEF todo
    <2>3. ASSUME NEW t \in Tasks, \E l \in todo : f[l] = t
          PROVE  (CHOOSE l \in todo : f[l] = t) \in Lines
      BY <2>2, <2>3
    <2>4. task' \in [Tasks -> TaskRec]
      BY <1>0, <2>1, <2>3 DEF TaskRec
    <2> QED  BY <1>0, <1>1, <1>3, <2>4 DEF TasksFromLines, backOnTheLift
  <1>4. ASSUME NEW t \in Tasks, NEW to \in {"pending", "blocked", "done", "omitted"}, MoveTask(t, to) PROVE WorkInv'
    <2>1. AcceptsWork /\ MovesOnList(t, to) /\ UNCHANGED away /\ OnTasks /\ state' \in {state, "in_progress"}
      BY <1>4 DEF MoveTask, backOnTheLift
    <2> QED  BY <1>1, <2>1, MovedOnList
  <1> QED  BY <1>2, <1>3, <1>4 DEF TaskSteps

LEMMA PartStepsKeep == ASSUME WorkInv, PartSteps PROVE WorkInv'
  <1>0. /\ line \in [Lines -> Entry] /\ \A l \in Lines : SameTerms(line[l], line[l])
        /\ task \in [Tasks -> TaskRec] /\ state \in States /\ takenBack \in BOOLEAN
        /\ request \in [Orders -> {"none", "waiting", "arrived", "cancelled"}]
        /\ arriving \in [Orders -> Ends]
        /\ clock \in [Mechanics -> {"never", "running", "stopped"}]
        /\ starting \in [Mechanics -> States \cup {"none"}]
    BY DEF WorkInv, WorkKinds, SameTerms
  <1>1. ASSUME NEW r \in Orders, RequestPart(r) PROVE WorkInv'
    <2>1. /\ request' \in [Orders -> {"none", "waiting", "arrived", "cancelled"}]
          /\ UNCHANGED <<task, quotes, arriving, clock, starting, fitted, away>>
      BY <1>0, <1>1 DEF RequestPart
    <2>2. CASE Moves("awaiting_parts", line)
      <3>1. /\ state' \in States /\ line' \in [Lines -> Entry] /\ takenBack' \in BOOLEAN
            /\ \A l \in Lines : SameTerms(line[l], line'[l])
            /\ NothingDoneIsCancelled'
        BY <1>0, <2>1, <2>2, MovesKeep
      <3> QED  BY <1>0, <2>1, <3>1, MovedWorkInv
    <2>3. CASE UNCHANGED <<state, line, takenBack>>
      BY <1>0, <2>1, <2>3, OthersKeep
    <2> QED  BY <1>1, <2>2, <2>3 DEF RequestPart
  <1>2. ASSUME NEW r \in Orders, CommitEnd(r) PROVE WorkInv'
    <2> DEFINE a == arriving[r]
    <2>1. a \in Ends /\ NoEnd \in Ends
      BY <1>0 DEF NoEnd, Ends
    <2>2. arriving' \in [Orders -> Ends]
      BY <1>0, <1>2, <2>1 DEF CommitEnd
    <2>3. request' \in [Orders -> {"none", "waiting", "arrived", "cancelled"}]
      BY <1>0, <1>2, <2>1 DEF CommitEnd, Ends
    <2>4. state' \in {state, "in_progress"}
      BY <1>2 DEF CommitEnd
    <2>5. UNCHANGED <<line, quotes, fitted, away, task, takenBack, clock, starting>>
      BY <1>2 DEF CommitEnd, OnParts
    <2>6. state' \in States /\ (state' = "cancelled" => state = "cancelled")
      BY <1>0, <2>4 DEF States
    <2> QED  BY <1>0, <2>2, <2>3, <2>5, <2>6, OthersKeep
  <1>3. ASSUME NEW r \in Orders, NEW end \in {"arrived", "cancelled"}, EndRequest(r, end) PROVE WorkInv'
    <2> DEFINE res == state = "awaiting_parts" /\ \A q \in Orders \ {r} : request[q] # "waiting"
    <2>0. res \in BOOLEAN
      OBVIOUS
    <2>1. arriving' = [arriving EXCEPT ![r] = [end |-> end, resume |-> res]]
      BY <1>3 DEF EndRequest
    <2> HIDE DEF res
    <2>2. [end |-> end, resume |-> res] \in Ends
      BY <2>0 DEF Ends
    <2>3. arriving' \in [Orders -> Ends]
      BY <1>0, <2>1, <2>2
    <2>4. UNCHANGED <<state, takenBack, request, line, quotes, fitted, away, task, clock, starting>>
      BY <1>3 DEF EndRequest, OnParts
    <2> QED  BY <1>0, <2>3, <2>4, OthersKeep
  <1>4. ASSUME TakeOut \/ PutBack PROVE WorkInv'
    <2>1. AcceptsWork /\ UNCHANGED <<state, takenBack, request, arriving, line, task, quotes, clock, starting, away>>
      BY <1>4 DEF TakeOut, PutBack, OnParts
    <2>2. fitted' \in [now : BOOLEAN, ever : BOOLEAN] /\ FittedOnce'
      <3>1. CASE fitted' = [now |-> TRUE, ever |-> TRUE]
        BY <3>1 DEF FittedOnce
      <3>2. CASE fitted' = [fitted EXCEPT !.now = FALSE]
        <4>1. fitted \in [now : BOOLEAN, ever : BOOLEAN]
          BY DEF WorkInv, WorkKinds
        <4> QED  BY <3>2, <4>1 DEF FittedOnce
      <3> QED  BY <1>4, <3>1, <3>2 DEF TakeOut, PutBack
    <2>3. NothingDoneIsCancelled'
      BY <2>1 DEF AcceptsWork, NothingDoneIsCancelled
    <2>4. WithdrawnWasThere' /\ ApprovedAsQuoted'
      BY <1>0, <2>1, LinesKept
    <2> QED  BY <2>1, <2>2, <2>3, <2>4 DEF WorkInv, WorkKinds
  <1> QED  BY <1>1, <1>2, <1>3, <1>4 DEF PartSteps

LEMMA ClockStepsKeep == ASSUME WorkInv, ClockSteps PROVE WorkInv'
  <1>0. /\ task \in [Tasks -> TaskRec] /\ state \in States /\ takenBack \in BOOLEAN
        /\ request \in [Orders -> {"none", "waiting", "arrived", "cancelled"}]
        /\ arriving \in [Orders -> Ends]
        /\ clock \in [Mechanics -> {"never", "running", "stopped"}]
        /\ starting \in [Mechanics -> States \cup {"none"}]
    BY DEF WorkInv, WorkKinds
  <1> PICK m \in Mechanics : ReadToClockIn(m) \/ ClockIn(m) \/ ClockOut(m)
    BY DEF ClockSteps
  <1>1. UNCHANGED <<line, task, quotes, takenBack, request, arriving, fitted, away>>
    BY DEF ReadToClockIn, ClockIn, ClockOut, OnClocks
  <1>2. state' \in {state, "in_progress"}
    BY DEF ReadToClockIn, ClockIn, ClockOut
  <1>3. state' \in States /\ (state' = "cancelled" => state = "cancelled")
    BY <1>0, <1>2 DEF States
  <1>4. clock' \in [Mechanics -> {"never", "running", "stopped"}]
    BY <1>0, StoppedClock DEF ReadToClockIn, ClockIn, ClockOut
  <1>5. starting' \in [Mechanics -> States \cup {"none"}]
    BY <1>0 DEF ReadToClockIn, ClockIn, ClockOut
  <1> QED  BY <1>0, <1>1, <1>3, <1>4, <1>5, OthersKeep

\* Recorded on a cancelled job too, it performs no line but the one it is for.
LEMMA SupplierStepsKeep == ASSUME WorkInv, SupplierSteps PROVE WorkInv'
  <1>0. /\ line \in [Lines -> Entry] /\ \A l \in Lines : SameTerms(line[l], line[l])
        /\ task \in [Tasks -> TaskRec] /\ away \in AwayRec
    BY DEF WorkInv, WorkKinds, SameTerms
  <1>1. ASSUME UNCHANGED <<state, quotes, takenBack, request, arriving, clock, starting, fitted>>,
               away' \in AwayRec, task' \in [Tasks -> TaskRec], line' \in [Lines -> Entry],
               \A l \in Lines : SameTerms(line[l], line'[l]), NothingDoneIsCancelled'
        PROVE  WorkInv'
    <2>1. WithdrawnWasThere' /\ ApprovedAsQuoted'
      BY <1>1, LinesKept
    <2> QED  BY <1>1, <2>1 DEF WorkInv, WorkKinds, FittedOnce
  <1>2. ASSUME NEW l \in Lines \cup {NoLine}, NEW required \in BOOLEAN, RequestOutsourced(l, required) PROVE WorkInv'
    <2>1. away' \in AwayRec /\ UNCHANGED <<state, line, task, quotes, takenBack, request, arriving, clock, starting, fitted>>
      BY <1>2 DEF RequestOutsourced, OnTasks, AwayRec
    <2>2. NothingDoneIsCancelled'
      BY <1>2, <2>1 DEF RequestOutsourced, AcceptsWork, NothingDoneIsCancelled
    <2> QED  BY <1>0, <1>1, <2>1, <2>2
  <1>3. ASSUME NEW kind \in {"sent", "returned", "checked", "check_failed", "cancelled"}, RecordOutsourced(kind)
        PROVE  WorkInv'
    <2>1. /\ away' \in AwayRec /\ away'.line = away.line
          /\ UNCHANGED <<state, quotes, takenBack, request, arriving, clock, starting, fitted>>
      BY <1>0, <1>3 DEF RecordOutsourced, OnTasks, AwayRec
    <2>2. /\ task' \in [Tasks -> TaskRec] /\ line' \in [Lines -> Entry]
          /\ \A l \in Lines : SameTerms(line[l], line'[l])
          /\ \A l \in Lines : l # away.line => line'[l] = line[l]
      <3>1. CASE UNCHANGED <<line, task>>
        BY <1>0, <3>1
      <3>2. ASSUME NEW t \in Tasks, Undone(t), task[t].line = away.line,
                   Follows(t, kind) # task[t].status, MovesOnList(t, Follows(t, kind))
            PROVE  /\ task' \in [Tasks -> TaskRec] /\ line' \in [Lines -> Entry]
                   /\ \A l \in Lines : SameTerms(line[l], line'[l])
                   /\ \A l \in Lines : l # away.line => line'[l] = line[l]
        <4>1. Follows(t, kind) \in {"pending", "blocked", "done", "omitted"}
          BY <1>3, <3>2 DEF Follows, Undone
        <4> QED  BY <3>2, <4>1, MovedOnList
      <3> QED  BY <1>3, <3>1, <3>2 DEF RecordOutsourced
    <2>3. NothingDoneIsCancelled'
      BY <2>1, <2>2 DEF NothingDoneIsCancelled, WorkInv
    <2> QED  BY <1>1, <2>1, <2>2, <2>3
  <1> QED  BY <1>2, <1>3 DEF SupplierSteps

LEMMA WorkStart == ASSUME InitWork PROVE WorkInv
  <1>1. line \in [Lines -> Entry] /\ \A l \in Lines : line[l].yes = 0 /\ ~line[l].withdrawn
    BY NoEntryIsEntry DEF InitWork
  <1>2. task \in [Tasks -> TaskRec] /\ away \in AwayRec /\ state \in States
    BY DEF InitWork, NoTask, TaskRec, AwayRec, States
  <1>3. arriving \in [Orders -> Ends]
    <2>1. NoEnd \in Ends
      BY DEF NoEnd, Ends
    <2> QED  BY <2>1 DEF InitWork
  <1>4. quotes \in Seq(Quote) /\ Len(quotes) <= MaxQuotes /\ takenBack \in BOOLEAN
    <2>1. quotes = <<>> /\ takenBack \in BOOLEAN
      BY DEF InitWork
    <2> QED  BY <2>1, WorkBoundsAreNumbers
  <1>5. fitted \in [now : BOOLEAN, ever : BOOLEAN] /\ FittedOnce
    BY DEF InitWork, FittedOnce
  <1>6. /\ request \in [Orders -> {"none", "waiting", "arrived", "cancelled"}]
        /\ clock \in [Mechanics -> {"never", "running", "stopped"}]
        /\ starting \in [Mechanics -> States \cup {"none"}]
    BY DEF InitWork
  <1>7. NothingDoneIsCancelled
    BY DEF InitWork, NothingDoneIsCancelled
  <1> QED  BY <1>1, <1>2, <1>3, <1>4, <1>5, <1>6, <1>7 DEF WorkInv, WorkKinds, WithdrawnWasThere, ApprovedAsQuoted, ApprovedIn

LEMMA WorkStep == ASSUME WorkInv, [NextWork]_workvars PROVE WorkInv'
  <1>1. CASE UNCHANGED workvars
    BY <1>1 DEF workvars, WorkInv, WorkKinds, WithdrawnWasThere, ApprovedAsQuoted, ApprovedIn, FittedOnce, NothingDoneIsCancelled
  <1>2. CASE NextWork
    BY <1>2, StateMovesKeep, LineChangesKeep, DeclinesKeep, PresentQuoteKeeps, AnswerYesKeeps, AnswerNoKeeps,
       TaskStepsKeep, PartStepsKeep, ClockStepsKeep, SupplierStepsKeep DEF NextWork, QuoteSteps
  <1> QED  BY <1>1, <1>2

\* In every state of a job its invariant holds.
THEOREM JobFits == SpecWork => []WorkInv
  BY WorkStart, WorkStep, PTL DEF SpecWork

\* Every piece of state of a job is of its kind.
THEOREM JobTypeIsCorrect == SpecWork => []WorkTypeOK
  <1>1. ASSUME WorkInv PROVE WorkTypeOK
    BY <1>1 DEF WorkInv, WorkKinds, WorkTypeOK, TaskRec, Ends, AwayRec
  <1> QED  BY <1>1, JobFits, PTL

\* A line that is approved costs no more than the quote said that the customer
\* said yes to; and a cancelled job has no part taken out to it and nothing
\* performed, but for what a supplier did.
THEOREM WorkIsAgreedAndKept == SpecWork => []WorkStands
  <1>1. ASSUME WorkInv PROVE WorkStands
    BY <1>1 DEF WorkInv, ApprovedAsQuoted, ApprovedIn, WorkStands, AgreedAsQuoted
  <1> QED  BY <1>1, JobFits, PTL

-----------------------------------------------------------------------------
(* New work on a job that is ready.                                        *)

GoneAs(e)       == e.withdrawn \/ (e.declined /\ ~e.performed)
UndoneAs(x)     == x.status \in {"pending", "blocked"}
OpenAs(x, L)    == UndoneAs(x) /\ (x.line = NoLine \/ ~GoneAs(L[x.line]))

\* The line of a step was declined, and is taken up again.
TakenUp(t) ==
  LET l == task[t].line IN l # NoLine /\ line[l].declined /\ (AnswerYes \/ UnmarkPerformed(l))

\* What an open step of the work list needs, to have been open before.
LEMMA StillOpen ==
  ASSUME WorkInv, NEW t \in Tasks, \A l \in Lines : l = task[t].line /\ GoneAs(line[l]) => GoneAs(line'[l]),
         task'[t].line = task[t].line, UndoneAs(task'[t]) => UndoneAs(task[t]), OpenAs(task'[t], line')
  PROVE  OpenAs(task[t], line)
  <1>1. task[t].line \in Lines \cup {NoLine}
    BY DEF WorkInv, WorkKinds, TaskRec
  <1> QED  BY <1>1 DEF OpenAs

LEMMA NoNewLines ==
  ASSUME WorkInv, LineChanges, state = "ready", NEW t \in Tasks, OpenAs(task'[t], line'), ~OpenAs(task[t], line)
  PROVE  TakenUp(t)
  <1> PICK l \in Lines :
        \/ \E kind \in {"labour", "part"}, price \in 1 .. MaxPrice : AddLine(l, kind, price)
        \/ \E price \in 1 .. MaxPrice : EditLine(l, price)
        \/ WithdrawLine(l) \/ MarkPerformed(l) \/ UnmarkPerformed(l)
    BY DEF LineChanges
  <1>0. /\ line[l] \in Entry /\ line \in [Lines -> Entry] /\ task \in [Tasks -> TaskRec]
        /\ (line[l].withdrawn => line[l].there)
    BY DEF WorkInv, WorkKinds, WithdrawnWasThere
  <1>1. task'[t].line = task[t].line /\ (UndoneAs(task'[t]) => UndoneAs(task[t]))
    <2>1. CASE task' = task
      BY <2>1
    <2>2. CASE task' = Finished({l})
      <3>1. task'[t] = IF Undone(t) /\ task[t].line \in {l} THEN [task[t] EXCEPT !.status = "done"] ELSE task[t]
        BY <2>2 DEF Finished
      <3>2. task[t] \in TaskRec
        BY <1>0
      <3> QED  BY <3>1, <3>2 DEF Undone, UndoneAs, TaskRec
    <2> QED  BY <2>1, <2>2 DEF AddLine, EditLine, WithdrawLine, MarkPerformed, UnmarkPerformed, OnLines
  <1>2. ASSUME NEW e \in Entry, line' = [line EXCEPT ![l] = e],
               GoneAs(line[l]) => GoneAs(e)
        PROVE  \A k \in Lines : GoneAs(line[k]) => GoneAs(line'[k])
    BY <1>0, <1>2
  <1>3. ASSUME NEW kind \in {"labour", "part"}, NEW price \in 1 .. MaxPrice, AddLine(l, kind, price)
        PROVE  \A k \in Lines : GoneAs(line[k]) => GoneAs(line'[k])
    <2> DEFINE e == [NoEntry EXCEPT !.there = TRUE, !.kind = kind, !.price = price]
    <2>1. e \in Entry
      BY NewEntry
    <2>2. line' = [line EXCEPT ![l] = e] /\ line[l] = NoEntry
      BY <1>3 DEF AddLine
    <2> HIDE DEF e
    <2>3. ~GoneAs(line[l])
      BY <2>2, NoEntryIsEntry DEF GoneAs
    <2> QED  BY <1>2, <2>1, <2>2, <2>3
  <1>4. ASSUME NEW price \in 1 .. MaxPrice, EditLine(l, price) PROVE \A k \in Lines : GoneAs(line[k]) => GoneAs(line'[k])
    <2> DEFINE yes == IF price > line[l].price THEN 0 ELSE line[l].yes
               e   == [line[l] EXCEPT !.price = price, !.yes = yes]
    <2>1. price \in 0 .. MaxPrice /\ yes \in 0 .. MaxQuotes
      BY <1>0, WorkBoundsAreNumbers DEF Entry
    <2> HIDE DEF yes
    <2>2. /\ e \in Entry /\ (e.withdrawn <=> line[l].withdrawn)
          /\ (e.declined <=> line[l].declined) /\ (e.performed <=> line[l].performed)
      BY <1>0, <2>1 DEF Entry
    <2>3. line' = [line EXCEPT ![l] = e]
      BY <1>4, <1>0 DEF EditLine, Entry, yes
    <2> HIDE DEF e
    <2> QED  BY <1>2, <2>2, <2>3 DEF GoneAs
  <1>5. ASSUME WithdrawLine(l) PROVE \A k \in Lines : GoneAs(line[k]) => GoneAs(line'[k])
    <2> DEFINE e == [line[l] EXCEPT !.withdrawn = TRUE]
    <2>1. e \in Entry /\ e.withdrawn
      BY <1>0, WithdrawnEntry
    <2>2. line' = [line EXCEPT ![l] = e]
      BY <1>5, <1>0 DEF WithdrawLine
    <2> HIDE DEF e
    <2> QED  BY <1>2, <2>1, <2>2 DEF GoneAs
  <1>6. ASSUME NEW p \in BOOLEAN, NEW d \in BOOLEAN,
               line' = [line EXCEPT ![l] = [line[l] EXCEPT !.performed = p, !.declined = d]]
        PROVE  /\ \A k \in Lines \ {l} : line'[k] = line[k]
               /\ line'[l].withdrawn <=> line[l].withdrawn
    <2> DEFINE e == [line[l] EXCEPT !.performed = p, !.declined = d]
    <2>1. SameTerms(line[l], e)
      BY <1>0, PerformedEntry
    <2>2. line' = [line EXCEPT ![l] = e]
      BY <1>6
    <2> HIDE DEF e
    <2> QED  BY <1>0, <2>1, <2>2 DEF SameTerms
  \* Its own steps are done with it.
  <1>7. ASSUME MarkPerformed(l) PROVE \A k \in Lines : k = task[t].line /\ GoneAs(line[k]) => GoneAs(line'[k])
    <2> DEFINE yes == TRUE
               no == FALSE
    <2>1. yes \in BOOLEAN /\ no \in BOOLEAN
      OBVIOUS
    <2>2. line' = [line EXCEPT ![l] = [line[l] EXCEPT !.performed = yes, !.declined = no]]
      BY <1>7, <1>0 DEF MarkPerformed
    <2> HIDE DEF yes, no
    <2>3. \A k \in Lines \ {l} : line'[k] = line[k]
      BY <1>6, <2>1, <2>2
    <2>4. task[t].line # l
      <3>1. task[t] \in TaskRec /\ UndoneAs(task'[t])
        BY <1>0 DEF OpenAs
      <3>2. task'[t] = IF Undone(t) /\ task[t].line \in {l} THEN [task[t] EXCEPT !.status = "done"] ELSE task[t]
        BY <1>7 DEF MarkPerformed, Finished
      <3> QED  BY <3>1, <3>2 DEF Undone, UndoneAs, TaskRec
    <2> QED  BY <2>3, <2>4
  \* Its own steps are open again, and nothing else is.
  <1>8. ASSUME UnmarkPerformed(l) PROVE TakenUp(t)
    <2> DEFINE no == FALSE
               d  == state = "declined"
    <2>1. no \in BOOLEAN /\ d \in BOOLEAN
      OBVIOUS
    <2>2. line' = [line EXCEPT ![l] = [line[l] EXCEPT !.performed = no, !.declined = d]]
      BY <1>8, <1>0 DEF UnmarkPerformed
    <2> HIDE DEF no, d
    <2>3. (\A k \in Lines \ {l} : line'[k] = line[k]) /\ (line'[l].withdrawn <=> line[l].withdrawn)
      BY <1>6, <2>1, <2>2
    <2>4. PICK k \in Lines : k = task[t].line /\ GoneAs(line[k]) /\ ~GoneAs(line'[k])
      BY <1>1, StillOpen
    <2>5. k = l
      BY <2>3, <2>4
    <2>6. line[l].declined
      BY <2>3, <2>4, <2>5 DEF GoneAs
    <2> QED  BY <1>8, <2>4, <2>5, <2>6, NoLineIsNone DEF TakenUp
  <1>9. CASE UnmarkPerformed(l)
    BY <1>8, <1>9
  <1>10. CASE ~UnmarkPerformed(l)
    <2>1. \A k \in Lines : k = task[t].line /\ GoneAs(line[k]) => GoneAs(line'[k])
      BY <1>3, <1>4, <1>5, <1>7, <1>10
    <2> QED  BY <1>1, <2>1, StillOpen
  <1> QED  BY <1>9, <1>10

LEMMA NoNewOnList ==
  ASSUME WorkInv, state = "ready", NEW u \in Tasks, NEW to \in {"pending", "blocked", "done", "omitted"},
         MovesOnList(u, to), ~Reopens(u, to), NEW t \in Tasks, OpenAs(task'[t], line')
  PROVE  OpenAs(task[t], line)
  <1>0. /\ task[u] \in TaskRec /\ task[t] \in TaskRec /\ line \in [Lines -> Entry]
        /\ task[u].status \notin {"none", to} /\ task' = [task EXCEPT ![u].status = to]
        /\ task \in [Tasks -> TaskRec]
    BY DEF WorkInv, WorkKinds, MovesOnList
  <1>1. task'[t].line = task[t].line /\ (UndoneAs(task'[t]) => UndoneAs(task[t]))
    BY <1>0 DEF Reopens, ReopensDone, UndoneAs, TaskRec
  <1>2. \A k \in Lines : GoneAs(line[k]) => GoneAs(line'[k])
    <2>1. CASE line' = line
      BY <2>1
    <2>2. ASSUME task[u].line # NoLine, line' = [line EXCEPT ![task[u].line] = Performs(@, to = "done")],
                 to = "done" \/ (task[u].status = "done" /\ to # "omitted")
          PROVE  \A k \in Lines : GoneAs(line[k]) => GoneAs(line'[k])
      <3> DEFINE l == task[u].line
                 e == Performs(line[l], to = "done")
      <3>1. l \in Lines
        BY <1>0, <2>2 DEF TaskRec
      <3>2. line' = [line EXCEPT ![l] = e]
        BY <2>2
      <3>3. to = "done"
        BY <1>0, <2>2 DEF Reopens, ReopensDone
      <3>4. GoneAs(line[l]) => e = line[l]
        BY <3>3 DEF Performs, GoneAs
      <3> HIDE DEF e, l
      <3> QED  BY <1>0, <3>1, <3>2, <3>4
    <2> QED  BY <2>1, <2>2 DEF MovesOnList
  <1> QED  BY <1>1, <1>2, StillOpen

\* A job that stays ready gets no open step it had not, but for a line that was
\* declined and is taken up again.
LEMMA NoNewWork ==
  ASSUME WorkInv, [NextWork]_workvars, state = "ready", state' = "ready",
         NEW t \in Tasks, OpenAs(task'[t], line'), ~OpenAs(task[t], line)
  PROVE  TakenUp(t)
  <1>1. CASE UNCHANGED <<line, task>>
    BY <1>1
  <1>2. ASSUME NEW to, NEW L, Moves(to, L) PROVE FALSE
    BY <1>2, TransitionsAre DEF Moves
  <1>3. CASE StateMoves
    <2>1. PICK to \in States : Moves(to, line)
      BY <1>3 DEF StateMoves, SetState, Bill
    <2> QED  BY <1>2, <2>1
  <1>4. CASE LineChanges
    BY <1>4, NoNewLines
  <1>5. CASE Declines
    <2>1. PICK ls \in SUBSET Lines : Decline(ls)
      BY <1>5 DEF Declines
    <2> QED  BY <1>2, <2>1 DEF Decline
  <1>6. CASE QuoteSteps
    <2>1. CASE PresentQuote
      BY <1>1, <2>1 DEF PresentQuote
    <2>2. CASE AnswerYes
      <3>0. task' = task /\ line' = [l \in Lines |-> IF InLatest(l) THEN Approves(l) ELSE line[l]]
        BY <2>2 DEF AnswerYes
      <3>1. PICK l \in Lines : l = task[t].line /\ GoneAs(line[l]) /\ ~GoneAs(line'[l])
        BY <3>0, StillOpen
      <3>2. line[l] \in Entry
        BY DEF WorkInv, WorkKinds
      <3>3. InLatest(l)
        BY <3>0, <3>1
      <3> DEFINE e == Approves(l)
      <3>4. Len(quotes) \in 0 .. MaxQuotes
        BY WorkBoundsAreNumbers DEF WorkInv, WorkKinds
      <3>5. (e.withdrawn <=> line[l].withdrawn) /\ (e.performed <=> line[l].performed)
        BY <3>2, <3>4, ApprovedEntry DEF Approves
      <3>6. line'[l] = e
        BY <3>0, <3>3
      <3> HIDE DEF e
      <3>7. line[l].declined
        BY <3>1, <3>5, <3>6 DEF GoneAs
      <3> QED  BY <2>2, <3>1, <3>7, NoLineIsNone DEF TakenUp
    <2>3. CASE AnswerNo
      <3>0. task' = task /\ line' = [l \in Lines |-> IF InLatest(l) /\ ~line[l].performed THEN [line[l] EXCEPT !.declined = TRUE] ELSE line[l]]
        BY <2>3 DEF AnswerNo
      <3>1. ASSUME NEW l \in Lines PROVE GoneAs(line[l]) => GoneAs(line'[l])
        <4>1. line[l] \in Entry
          BY DEF WorkInv, WorkKinds
        <4> DEFINE e == [line[l] EXCEPT !.declined = TRUE]
        <4>2. (e.performed <=> line[l].performed) /\ e.declined /\ SameTerms(line[l], e)
          BY <4>1, DeclinedEntry
        <4>3. line'[l] = line[l] \/ line'[l] = e
          BY <3>0
        <4> HIDE DEF e
        <4> QED  BY <4>2, <4>3 DEF GoneAs, SameTerms
      <3> QED  BY <3>0, <3>1, StillOpen
    <2> QED  BY <1>6, <2>1, <2>2, <2>3 DEF QuoteSteps
  <1>7. CASE TaskSteps
    <2>1. ASSUME NEW u \in Tasks, NEW l \in Lines \cup {NoLine}, AddTask(u, l) PROVE FALSE
      BY <2>1 DEF AddTask, backOnTheLift
    <2>2. CASE TasksFromLines
      BY <2>2 DEF TasksFromLines, backOnTheLift
    <2>3. ASSUME NEW u \in Tasks, NEW to \in {"pending", "blocked", "done", "omitted"}, MoveTask(u, to)
          PROVE  OpenAs(task[t], line)
      <3>1. MovesOnList(u, to) /\ ~Reopens(u, to)
        BY <2>3 DEF MoveTask, backOnTheLift
      <3> QED  BY <3>1, NoNewOnList
    <2> QED  BY <1>7, <2>1, <2>2, <2>3 DEF TaskSteps
  <1>8. CASE PartSteps
    <2>1. ASSUME NEW r \in Orders, RequestPart(r) PROVE UNCHANGED <<line, task>>
      BY <1>2, <2>1 DEF RequestPart
    <2>2. UNCHANGED <<line, task>>
      BY <1>8, <2>1 DEF PartSteps, CommitEnd, EndRequest, TakeOut, PutBack, OnParts
    <2> QED  BY <1>1, <2>2
  <1>9. CASE ClockSteps
    BY <1>1, <1>9 DEF ClockSteps, ReadToClockIn, ClockIn, ClockOut, OnClocks
  <1>10. CASE SupplierSteps
    <2>1. ASSUME NEW l \in Lines \cup {NoLine}, NEW required \in BOOLEAN, RequestOutsourced(l, required)
          PROVE  UNCHANGED <<line, task>>
      BY <2>1 DEF RequestOutsourced
    <2>2. ASSUME NEW kind \in {"sent", "returned", "checked", "check_failed", "cancelled"}, RecordOutsourced(kind)
          PROVE  OpenAs(task[t], line)
      <3>1. ASSUME NEW u \in Tasks, Undone(u), Follows(u, kind) # task[u].status, MovesOnList(u, Follows(u, kind))
            PROVE  OpenAs(task[t], line)
        <4>1. Follows(u, kind) \in {"pending", "blocked", "done", "omitted"} /\ ~Reopens(u, Follows(u, kind))
          BY <2>2, <3>1 DEF Follows, Undone, Reopens, ReopensDone
        <4> QED  BY <3>1, <4>1, NoNewOnList
      <3> QED  BY <1>1, <2>2, <3>1 DEF RecordOutsourced
    <2> QED  BY <1>1, <1>10, <2>1, <2>2 DEF SupplierSteps
  <1>11. CASE UNCHANGED workvars
    BY <1>1, <1>11 DEF workvars
  <1> QED  BY <1>3, <1>4, <1>5, <1>6, <1>7, <1>8, <1>9, <1>10, <1>11 DEF NextWork

\* Work that a supplier has to do comes to a job by being asked of them, or by
\* failing its check after it was accepted.
LEMMA NewAway ==
  ASSUME WorkInv, NextWork, ~Unresolved, Unresolved'
  PROVE  (\E l \in Lines \cup {NoLine} : RequestOutsourced(l, TRUE)) \/ RecordOutsourced("check_failed")
  <1>1. away' # away
    BY DEF Unresolved
  <1>2. SupplierSteps
    <2>1. ASSUME StateMoves PROVE UNCHANGED away
      BY <2>1 DEF StateMoves, SetState, Bill
    <2>2. ASSUME LineChanges PROVE UNCHANGED away
      BY <2>2 DEF LineChanges, AddLine, EditLine, WithdrawLine, MarkPerformed, UnmarkPerformed, OnLines
    <2>3. ASSUME Declines \/ QuoteSteps PROVE UNCHANGED away
      BY <2>3 DEF Declines, Decline, QuoteSteps, PresentQuote, AnswerYes, AnswerNo
    <2>4. ASSUME TaskSteps PROVE UNCHANGED away
      BY <2>4 DEF TaskSteps, AddTask, TasksFromLines, MoveTask
    <2>5. ASSUME PartSteps PROVE UNCHANGED away
      BY <2>5 DEF PartSteps, RequestPart, CommitEnd, EndRequest, TakeOut, PutBack, OnParts
    <2>6. ASSUME ClockSteps PROVE UNCHANGED away
      BY <2>6 DEF ClockSteps, ReadToClockIn, ClockIn, ClockOut, OnClocks
    <2> QED  BY <1>1, <2>1, <2>2, <2>3, <2>4, <2>5, <2>6 DEF NextWork
  <1>3. ASSUME NEW l \in Lines \cup {NoLine}, NEW required \in BOOLEAN, RequestOutsourced(l, required)
        PROVE  required = TRUE
    <2>1. away'.required = required
      BY <1>3 DEF RequestOutsourced
    <2> QED  BY <2>1 DEF Unresolved
  <1>4. ASSUME NEW kind \in {"sent", "returned", "checked", "check_failed", "cancelled"}, RecordOutsourced(kind)
        PROVE  kind = "check_failed"
    <2>1. <<away.status, kind>> \in outsourcedMoves /\ away' = [away EXCEPT !.status = kind]
      BY <1>4 DEF RecordOutsourced
    <2>2. away'.required = away.required
      BY <2>1 DEF WorkInv, WorkKinds, AwayRec
    <2>3. away.status \in {"checked", "cancelled", "none"}
      BY <2>2 DEF Unresolved
    <2> QED  BY <2>1, <2>3 DEF outsourcedMoves
  <1> QED  BY <1>2, <1>3, <1>4 DEF SupplierSteps

\* Work comes to be open on a job that stays ready only by a yes to a line that
\* was turned down, or by its performed mark being taken off, and only that
\* line's steps; and at a supplier only by being asked of them as required, or
\* by failing its check after all.
THEOREM ReadyStaysDone == SpecWork => NewWorkIsNotReady
  <1>1. ASSUME WorkInv, NextWork, state = "ready", state' = "ready",
               NEW t \in Tasks, ~Outstanding(t), Outstanding(t)'
        PROVE  TakenUp(t)
    <2>1. OpenAs(task'[t], line') /\ ~OpenAs(task[t], line)
      BY <1>1 DEF Outstanding, Undone, Gone, OpenAs, UndoneAs, GoneAs
    <2> QED  BY <1>1, <2>1, NoNewWork
  <1>2. ASSUME WorkInv, [NextWork]_workvars
        PROVE  [state = "ready" /\ state' = "ready" =>
                  /\ \A t \in Tasks : ~Outstanding(t) /\ Outstanding(t)' =>
                       LET l == task[t].line IN l # NoLine /\ line[l].declined /\ (AnswerYes \/ UnmarkPerformed(l))
                  /\ ~Unresolved /\ Unresolved' =>
                       \/ \E l \in Lines \cup {NoLine} : RequestOutsourced(l, TRUE)
                       \/ RecordOutsourced("check_failed")]_workvars
    BY <1>1, <1>2, NewAway DEF TakenUp
  <1> QED  BY <1>2, JobFits, PTL DEF SpecWork, NewWorkIsNotReady

-----------------------------------------------------------------------------
(* The sale of a car.                                                      *)

Terms   == AnyTerms \cup [buyers : {{}}, consumer : {FALSE}, tax : {"unset"}, trade : BOOLEAN]
DealRec == [state : {"none", "draft", "contracted", "cancelled"}, version : Nat, terms : Terms,
            defects : Nat, contract : Contracts]
HoldRec == [holder : People, root : Nat, end : {"no", "extended", "ended", "sold"}]
CarRec  == [status : {"preparation", "for sale", "reserved", "sold", "delivered", "closed"},
            sale : Sales \cup {NoSale}, consigned : {"no", "standing", "ended"}]
Invoices == [stands : BOOLEAN, ever : BOOLEAN, version : Nat, scheme : BOOLEAN, owed : 0 .. Price, from : SUBSET People]
Answers  == [Defects -> [People -> {"none", "accepted", "refused"}]]
TradeAt  == {"none", "taking", "received", "clear", "crediting", "credited"}

SaleKinds ==
  /\ car \in CarRec /\ eligible \in BOOLEAN
  /\ holds \in Seq(HoldRec)
  /\ deal \in [Sales -> DealRec] /\ answer \in [Sales -> Answers]
  /\ invoice \in [Sales -> Invoices]
  /\ issuing \in Sales \cup {NoSale}
  /\ trade \in [Sales -> TradeAt]
  /\ handedOver \subseteq Sales

\* What is held is held for a sale, or for a reservation that was the first of
\* its extensions, and a trade-in that was credited is among it.
HeldFits ==
  /\ deposit \in [DOMAIN deposit -> {0, 1}]
  /\ DOMAIN deposit \subseteq Sales \cup DOMAIN holds
  /\ \A h \in DOMAIN holds : holds[h].root \in DOMAIN holds
  /\ \A s \in Sales : trade[s] = "credited" => s \in DOMAIN deposit

OneLive == \A s, t \in Sales : Live(s) /\ Live(t) => s = t

CarIsOfItsSale   == \A s \in Sales : car.sale = s <=> deal[s].state = "contracted"
HandedOverStays  == \A s \in handedOver : car.sale = s /\ car.status = "delivered"
ReservationKeeps == \A h \in DOMAIN holds : holds[h].end = "no" => h = Len(holds) /\ car.status = "reserved"

\* A sale whose invoice is being made is contracted: it is locked meanwhile.
IssuingIsContracted == \A s \in Sales : issuing = s => deal[s].state = "contracted"

InvoiceFits(i, d) ==
  i.stands => d.state = "contracted" /\ i.version = d.version /\ (i.scheme <=> d.terms.tax = "scheme")
InvoicesFit == \A s \in Sales : InvoiceFits(invoice[s], deal[s])

SaleInv ==
  /\ SaleKinds /\ HeldFits /\ OneLive
  /\ CarIsOfItsSale /\ HandedOverStays /\ ReservationKeeps
  /\ IssuingIsContracted /\ InvoicesFit

LEMMA NoReservation ==
  ASSUME SaleInv, car.status # "reserved"
  PROVE  \A h \in DOMAIN holds : holds[h].end # "no"
  BY DEF SaleInv, ReservationKeeps

\* Steps of the car and its reservations, which leave its sale alone.
LEMMA StockChanges ==
  ASSUME SaleInv, ByStock, car' \in CarRec, car'.sale = car.sale,
         car.status = "delivered" => car'.status = "delivered",
         holds' \in Seq(HoldRec), ReservationKeeps', HeldFits'
  PROVE  SaleInv'
  <1>1. UNCHANGED <<eligible, deal, answer, invoice, issuing, trade, handedOver>>
    BY DEF ByStock
  <1>2. SaleKinds'
    BY <1>1 DEF SaleInv, SaleKinds
  <1>3. OneLive' /\ CarIsOfItsSale' /\ HandedOverStays' /\ IssuingIsContracted' /\ InvoicesFit'
    BY <1>1 DEF SaleInv, OneLive, Live, CarIsOfItsSale, HandedOverStays, IssuingIsContracted, InvoicesFit, InvoiceFits
  <1> QED  BY <1>2, <1>3 DEF SaleInv

\* Where the reservations are as they were, and the car was not kept by one.
LEMMA StatusChanges ==
  ASSUME SaleInv, ByStock, car' \in CarRec, car'.sale = car.sale,
         car.status = "delivered" => car'.status = "delivered",
         UNCHANGED <<holds, deposit>>, \A h \in DOMAIN holds : holds[h].end # "no"
  PROVE  SaleInv'
  <1>1. HeldFits' /\ holds' \in Seq(HoldRec)
    BY DEF ByStock, SaleInv, HeldFits, SaleKinds
  <1>2. ReservationKeeps'
    BY DEF ReservationKeeps
  <1> QED  BY <1>1, <1>2, StockChanges

LEMMA MoveStockUnitKeeps ==
  ASSUME SaleInv, NEW to \in {"preparation", "for sale", "reserved", "sold", "delivered", "closed"}, MoveStockUnit(to)
  PROVE  SaleInv'
  <1>1. car \in CarRec
    BY DEF SaleInv, SaleKinds
  <1>2. car' \in CarRec /\ car'.sale = car.sale
    BY <1>1 DEF MoveStockUnit, CarRec
  <1>3. car.status # "delivered"
    BY DEF MoveStockUnit, MovesOn, StockMoves
  <1>4. \A h \in DOMAIN holds : holds[h].end # "no"
    BY NoReservation DEF MoveStockUnit, MovesOn, Standing
  <1> QED  BY <1>2, <1>3, <1>4, StatusChanges DEF MoveStockUnit

LEMMA EndConsignmentKeeps == ASSUME SaleInv, EndConsignment PROVE SaleInv'
  <1>1. car \in CarRec
    BY DEF SaleInv, SaleKinds
  <1>2. car' \in CarRec /\ car'.sale = car.sale
    BY <1>1 DEF EndConsignment, CarRec
  <1>3. car.status # "delivered" /\ car.status # "reserved"
    BY DEF EndConsignment, MovesOn, StockMoves
  <1> QED  BY <1>2, <1>3, NoReservation, StatusChanges DEF EndConsignment

LEMMA ReserveKeeps == ASSUME SaleInv, NEW p \in People, Reserve(p) PROVE SaleInv'
  <1> DEFINE n == [holder |-> p, root |-> Len(holds) + 1, end |-> "no"]
  <1>1. car \in CarRec /\ holds \in Seq(HoldRec) /\ car.status = "for sale"
    BY DEF SaleInv, SaleKinds, Reserve
  <1>0. holds \in Seq(HoldRec) /\ Len(holds) \in Nat
    BY DEF SaleInv, SaleKinds
  <1>r. n.root = Len(holds) + 1
    OBVIOUS
  <1>2. n \in HoldRec
    <2>1. Len(holds) + 1 \in Nat
      BY <1>0
    <2> QED  BY <2>1 DEF HoldRec
  <1>3. car' \in CarRec /\ car'.sale = car.sale /\ car'.status = "reserved"
    BY <1>1 DEF Reserve, CarRec
  <1>4. holds' = Append(holds, n) /\ deposit' = deposit /\ ByStock
    BY DEF Reserve
  <1> HIDE DEF n
  <1>5. /\ holds' \in Seq(HoldRec) /\ Len(holds') = Len(holds) + 1
        /\ DOMAIN holds' = DOMAIN holds \cup {Len(holds) + 1}
        /\ \A h \in DOMAIN holds : holds'[h] = holds[h]
        /\ holds'[Len(holds) + 1] = n
    BY <1>0, <1>2, <1>4
  <1>6. ReservationKeeps'
    BY <1>1, <1>3, <1>5, NoReservation DEF ReservationKeeps
  <1>7. HeldFits'
    BY <1>r, <1>4, <1>5 DEF ByStock, SaleInv, HeldFits
  <1> QED  BY <1>1, <1>3, <1>4, <1>5, <1>6, <1>7, StockChanges

LEMMA ExtendReservationKeeps == ASSUME SaleInv, NEW h \in DOMAIN holds, ExtendReservation(h) PROVE SaleInv'
  <1> DEFINE x == [holds[h] EXCEPT !.end = "extended"]
             H == [holds EXCEPT ![h] = x]
  <1>1. car \in CarRec /\ holds \in Seq(HoldRec) /\ Len(holds) \in Nat /\ holds[h] \in HoldRec
    BY DEF SaleInv, SaleKinds
  <1>2. holds[h].end = "no" /\ h = Len(holds) /\ car.status = "reserved"
    BY DEF ExtendReservation, Standing, SaleInv, ReservationKeeps
  <1>3. x \in HoldRec /\ x.end = "extended" /\ x.root = holds[h].root
    BY <1>1 DEF HoldRec
  <1>4. holds' = Append(H, holds[h]) /\ UNCHANGED <<car, deposit>> /\ ByStock
    BY DEF ExtendReservation
  <1> HIDE DEF x
  <1>5. H \in Seq(HoldRec) /\ Len(H) = Len(holds) /\ H[h] = x /\ \A g \in DOMAIN holds \ {h} : H[g] = holds[g]
    BY <1>1, <1>3
  <1> HIDE DEF H
  <1>6. /\ holds' \in Seq(HoldRec) /\ Len(holds') = Len(holds) + 1
        /\ DOMAIN holds' = DOMAIN holds \cup {Len(holds) + 1}
        /\ holds'[h] = x /\ \A g \in DOMAIN holds \ {h} : holds'[g] = holds[g]
        /\ holds'[Len(holds) + 1] = holds[h]
    BY <1>1, <1>4, <1>5
  <1>7. ReservationKeeps'
    BY <1>2, <1>3, <1>4, <1>6 DEF SaleInv, ReservationKeeps
  <1>8. HeldFits'
    BY <1>3, <1>4, <1>6 DEF ByStock, SaleInv, HeldFits
  <1> QED  BY <1>1, <1>4, <1>6, <1>7, <1>8, StockChanges

LEMMA EndReservationKeeps == ASSUME SaleInv, NEW h \in DOMAIN holds, EndReservation(h) PROVE SaleInv'
  <1> DEFINE x == [holds[h] EXCEPT !.end = "ended"]
  <1>1. car \in CarRec /\ holds \in Seq(HoldRec) /\ Len(holds) \in Nat /\ holds[h] \in HoldRec
    BY DEF SaleInv, SaleKinds
  <1>2. holds[h].end = "no" /\ h = Len(holds) /\ car.status = "reserved"
    BY DEF EndReservation, Standing, SaleInv, ReservationKeeps
  <1>3. x \in HoldRec /\ x.end = "ended" /\ x.root = holds[h].root
    BY <1>1 DEF HoldRec
  <1>4. holds' = [holds EXCEPT ![h] = x] /\ deposit' = deposit /\ ByStock
    BY DEF EndReservation
  <1>5. car' \in CarRec /\ car'.sale = car.sale
    BY <1>1 DEF EndReservation, CarRec
  <1> HIDE DEF x
  <1>6. /\ holds' \in Seq(HoldRec) /\ DOMAIN holds' = DOMAIN holds
        /\ holds'[h] = x /\ \A g \in DOMAIN holds \ {h} : holds'[g] = holds[g]
    BY <1>1, <1>3, <1>4
  <1>7. ReservationKeeps'
    BY <1>2, <1>3, <1>6 DEF SaleInv, ReservationKeeps
  <1>8. HeldFits'
    BY <1>3, <1>4, <1>6 DEF ByStock, SaleInv, HeldFits
  <1> QED  BY <1>2, <1>4, <1>5, <1>6, <1>7, <1>8, StockChanges

LEMMA DepositsOfStockKeep ==
  ASSUME SaleInv, \/ \E h \in DOMAIN holds : RecordReservationDeposit(h)
                  \/ \E x \in DOMAIN deposit : RefundDeposit(x)
  PROVE  SaleInv'
  <1>1. UNCHANGED <<car, holds>> /\ ByStock
    BY DEF RecordReservationDeposit, RefundDeposit
  <1>2. HeldFits'
    <2>0. HeldFits
      BY DEF SaleInv
    <2>1. ASSUME NEW h \in DOMAIN holds, RecordReservationDeposit(h) PROVE HeldFits'
      <3>1. deposit' = Holding(holds[h].root, 1)
        BY <2>1 DEF RecordReservationDeposit
      <3> QED  BY <1>1, <2>0, <3>1 DEF HeldFits, ByStock, Holding
    <2>2. ASSUME NEW x \in DOMAIN deposit, RefundDeposit(x) PROVE HeldFits'
      BY <1>1, <2>0, <2>2 DEF RefundDeposit, HeldFits, ByStock
    <2> QED  BY <2>1, <2>2
  <1>3. car \in CarRec /\ holds \in Seq(HoldRec) /\ ReservationKeeps'
    BY <1>1 DEF SaleInv, SaleKinds, ReservationKeeps
  <1> QED  BY <1>1, <1>2, <1>3, StockChanges

LEMMA CorrectVATEligibilityKeeps == ASSUME SaleInv, CorrectVATEligibility PROVE SaleInv'
  <1>1. UNCHANGED <<car, holds, deal, answer, invoice, issuing, trade, deposit, handedOver>>
    BY DEF CorrectVATEligibility
  <1>2. eligible' \in BOOLEAN
    BY DEF CorrectVATEligibility
  <1> QED  BY <1>1, <1>2 DEF SaleInv, SaleKinds, HeldFits, OneLive, Live, CarIsOfItsSale, HandedOverStays,
              ReservationKeeps, IssuingIsContracted, InvoicesFit, InvoiceFits

LEMMA NextStockKeeps == ASSUME SaleInv, NextStock PROVE SaleInv'
  BY MoveStockUnitKeeps, ReserveKeeps, ExtendReservationKeeps, EndReservationKeeps, DepositsOfStockKeep,
     EndConsignmentKeeps, CorrectVATEligibilityKeeps DEF NextStock

-----------------------------------------------------------------------------
(* Deals.                                                                  *)

LEMMA NoTermsAre ==
  /\ NoTerms \in Terms
  /\ \A t \in Terms : [NoTerms EXCEPT !.trade = t.trade] \in Terms /\ t.buyers \in SUBSET People
  <1> DEFINE Empty == [buyers : {{}}, consumer : {FALSE}, tax : {"unset"}, trade : BOOLEAN]
  <1>1. NoTerms \in Empty
    BY DEF NoTerms
  <1>2. ASSUME NEW t \in Terms PROVE t.trade \in BOOLEAN /\ t.buyers \in SUBSET People
    BY DEF Terms, AnyTerms
  <1>3. ASSUME NEW b \in BOOLEAN PROVE [NoTerms EXCEPT !.trade = b] \in Empty
    BY <1>1
  <1> QED  BY <1>1, <1>2, <1>3 DEF Terms

LEMMA NoContractIs == NoContract \in Contracts
  <1>1. {} \in SUBSET People /\ 0 \in Nat
    OBVIOUS
  <1> QED  BY <1>1 DEF NoContract, Contracts

LEMMA NoDealIs == NoDeal \in DealRec /\ NoDeal.terms = NoTerms
  BY NoTermsAre, NoContractIs DEF NoDeal, DealRec

\* Steps of one deal that leave its state, and the terms an invoice charges.
LEMMA OneDealChanges ==
  ASSUME SaleInv, NEW s \in Sales, NEW n \in DealRec, deal' = [deal EXCEPT ![s] = n], n.state = deal[s].state,
         invoice[s].stands => n.version = deal[s].version /\ n.terms = deal[s].terms,
         answer' \in [Sales -> Answers], ByTerms
  PROVE  SaleInv'
  <1>1. UNCHANGED <<car, eligible, holds, invoice, issuing, trade, deposit, handedOver>>
    BY DEF ByTerms
  <1>2. /\ deal' \in [Sales -> DealRec] /\ deal'[s] = n
        /\ \A t \in Sales \ {s} : deal'[t] = deal[t]
    BY DEF SaleInv, SaleKinds
  <1>3. \A t \in Sales : deal'[t].state = deal[t].state
    BY <1>2
  <1>4. SaleKinds' /\ HeldFits' /\ HandedOverStays' /\ ReservationKeeps'
    BY <1>1, <1>2 DEF SaleInv, SaleKinds, HeldFits, HandedOverStays, ReservationKeeps
  <1>5. OneLive' /\ CarIsOfItsSale' /\ IssuingIsContracted'
    BY <1>1, <1>3 DEF SaleInv, OneLive, Live, CarIsOfItsSale, IssuingIsContracted
  <1>6. InvoicesFit'
    BY <1>1, <1>2, <1>3 DEF SaleInv, InvoicesFit, InvoiceFits
  <1> QED  BY <1>4, <1>5, <1>6 DEF SaleInv

LEMMA ReviseDealKeeps == ASSUME SaleInv, NEW s \in Sales, NEW t \in Offers, ReviseDeal(s, t) PROVE SaleInv'
  <1> DEFINE d == deal[s]
             v == d.version + 1
             n == [d EXCEPT !.version = v, !.terms = t]
  <1>1. d \in DealRec /\ deal \in [Sales -> DealRec] /\ answer \in [Sales -> Answers]
    BY DEF SaleInv, SaleKinds
  <1>2. t \in Terms
    BY OffersAreTerms DEF Terms
  <1>3. deal' = [deal EXCEPT ![s] = n] /\ ~invoice[s].stands /\ answer' = answer /\ ByTerms
    BY <1>1 DEF ReviseDeal, MayRevise
  <1> HIDE DEF d
  <1>4. v \in Nat
    BY <1>1 DEF DealRec
  <1> HIDE DEF v
  <1>5. n \in DealRec /\ n.state = d.state
    BY <1>1, <1>2, <1>4 DEF DealRec
  <1> HIDE DEF n
  <1> QED  BY <1>1, <1>3, <1>5, OneDealChanges DEF d

LEMMA AddDefectKeeps == ASSUME SaleInv, NEW s \in Sales, AddDefect(s) PROVE SaleInv'
  <1> DEFINE n == [deal[s] EXCEPT !.defects = @ + 1]
  <1>1. deal[s] \in DealRec /\ deal \in [Sales -> DealRec] /\ answer \in [Sales -> Answers]
    BY DEF SaleInv, SaleKinds
  <1>2. n \in DealRec /\ n.state = deal[s].state /\ n.version = deal[s].version /\ n.terms = deal[s].terms
    BY <1>1 DEF DealRec
  <1>3. deal' = [deal EXCEPT ![s] = n] /\ answer' = answer /\ ByTerms
    BY <1>1 DEF AddDefect
  <1> HIDE DEF n
  <1> QED  BY <1>1, <1>2, <1>3, OneDealChanges

LEMMA AnswerDefectKeeps ==
  ASSUME SaleInv, NEW s \in Sales, NEW d \in Defects, NEW p \in People, NEW a \in {"accepted", "refused"},
         AnswerDefect(s, d, p, a)
  PROVE  SaleInv'
  <1>1. deal[s] \in DealRec /\ deal \in [Sales -> DealRec] /\ answer \in [Sales -> Answers]
    BY DEF SaleInv, SaleKinds
  <1>2. answer' \in [Sales -> Answers]
    BY <1>1 DEF AnswerDefect, Answers
  <1>3. deal' = [deal EXCEPT ![s] = deal[s]] /\ ByTerms
    BY <1>1 DEF AnswerDefect
  <1> QED  BY <1>1, <1>2, <1>3, OneDealChanges

LEMMA ContractKeeps ==
  ASSUME SaleInv, NEW s \in Sales, NEW c \in Contracts, deal' = [deal EXCEPT ![s].contract = c], answer' = answer, ByTerms
  PROVE  SaleInv'
  <1> DEFINE n == [deal[s] EXCEPT !.contract = c]
  <1>1. deal[s] \in DealRec /\ deal \in [Sales -> DealRec] /\ answer \in [Sales -> Answers]
    BY DEF SaleInv, SaleKinds
  <1>2. n \in DealRec /\ n.state = deal[s].state /\ n.version = deal[s].version /\ n.terms = deal[s].terms
    BY <1>1 DEF DealRec
  <1>3. deal' = [deal EXCEPT ![s] = n]
    BY <1>1
  <1> HIDE DEF n
  <1> QED  BY <1>1, <1>2, <1>3, OneDealChanges

LEMMA ProduceSalesContractKeeps == ASSUME SaleInv, NEW s \in Sales, ProduceSalesContract(s) PROVE SaleInv'
  <1> DEFINE yes == TRUE
             no == FALSE
             c == [made |-> yes, terms |-> deal[s].version, defects |-> deal[s].defects,
                   parties |-> deal[s].terms.buyers, signed |-> {}, complete |-> no]
  <1>1. deal[s] \in DealRec
    BY DEF SaleInv, SaleKinds
  <1>2. deal[s].version \in Nat /\ deal[s].defects \in Nat /\ deal[s].terms \in Terms
    BY <1>1 DEF DealRec
  <1>3. yes \in BOOLEAN /\ no \in BOOLEAN /\ deal[s].terms.buyers \in SUBSET People /\ {} \in SUBSET People
    BY <1>2, NoTermsAre
  <1>4. deal' = [deal EXCEPT ![s].contract = c] /\ answer' = answer /\ ByTerms
    BY DEF ProduceSalesContract
  <1> HIDE DEF yes, no
  <1>5. c \in Contracts
    BY <1>2, <1>3 DEF Contracts
  <1> HIDE DEF c
  <1> QED  BY <1>4, <1>5, ContractKeeps

LEMMA SignContractKeeps == ASSUME SaleInv, NEW s \in Sales, NEW p \in People, SignContract(s, p) PROVE SaleInv'
  <1> DEFINE k == deal[s].contract
             c == [k EXCEPT !.signed = @ \cup {p}]
  <1>1. deal[s] \in DealRec /\ deal \in [Sales -> DealRec]
    BY DEF SaleInv, SaleKinds
  <1>2. k \in Contracts
    BY <1>1 DEF DealRec
  <1>3. deal' = [deal EXCEPT ![s].contract = c] /\ answer' = answer /\ ByTerms
    BY <1>1 DEF SignContract, DealRec
  <1> HIDE DEF k
  <1>4. c \in Contracts
    BY <1>2 DEF Contracts
  <1> HIDE DEF c
  <1> QED  BY <1>3, <1>4, ContractKeeps

LEMMA CreateDealKeeps == ASSUME SaleInv, NEW s \in Sales, NEW t \in Offers, CreateDeal(s, t) PROVE SaleInv'
  <1> DEFINE n == [NoDeal EXCEPT !.state = "draft", !.version = 1, !.terms = t]
  <1>1. deal[s] \in DealRec /\ deal \in [Sales -> DealRec] /\ answer \in [Sales -> Answers]
    BY DEF SaleInv, SaleKinds
  <1>2. t \in Terms
    BY OffersAreTerms DEF Terms
  <1>3. n \in DealRec /\ n.state = "draft"
    BY <1>2, NoDealIs DEF DealRec
  <1>4. /\ deal' = [deal EXCEPT ![s] = n] /\ deal[s].state = "none" /\ \A x \in Sales : ~Live(x)
        /\ UNCHANGED <<car, eligible, holds, invoice, issuing, trade, deposit, handedOver, answer>>
    BY DEF CreateDeal, ByTerms
  <1> HIDE DEF n
  <1>5. /\ deal' \in [Sales -> DealRec] /\ deal'[s].state = "draft"
        /\ \A x \in Sales \ {s} : deal'[x] = deal[x]
    BY <1>1, <1>3, <1>4
  <1>6. SaleKinds' /\ HeldFits' /\ HandedOverStays' /\ ReservationKeeps'
    BY <1>4, <1>5 DEF SaleInv, SaleKinds, HeldFits, HandedOverStays, ReservationKeeps
  <1>7. OneLive' /\ CarIsOfItsSale' /\ IssuingIsContracted'
    BY <1>4, <1>5 DEF SaleInv, OneLive, Live, CarIsOfItsSale, IssuingIsContracted
  <1>8. InvoicesFit'
    BY <1>4, <1>5 DEF SaleInv, InvoicesFit, InvoiceFits
  <1> QED  BY <1>6, <1>7, <1>8 DEF SaleInv

LEMMA SoldHoldsAre ==
  ASSUME SaleInv
  PROVE  /\ SoldHolds \in Seq(HoldRec) /\ DOMAIN SoldHolds = DOMAIN holds
         /\ \A h \in DOMAIN holds : SoldHolds[h].end # "no" /\ SoldHolds[h].root = holds[h].root
  <1>1. holds \in Seq(HoldRec) /\ Len(holds) \in Nat /\ DOMAIN holds = 1 .. Len(holds)
    BY DEF SaleInv, SaleKinds
  <1>2. ASSUME NEW h \in DOMAIN holds
        PROVE  SoldHolds[h] \in HoldRec /\ SoldHolds[h].end # "no" /\ SoldHolds[h].root = holds[h].root
    <2>1. holds[h] \in HoldRec
      BY <1>1
    <2>2. /\ [holds[h] EXCEPT !.end = "sold"] \in HoldRec /\ [holds[h] EXCEPT !.end = "sold"].end = "sold"
          /\ [holds[h] EXCEPT !.end = "sold"].root = holds[h].root
      BY <2>1 DEF HoldRec
    <2> QED  BY <2>1, <2>2 DEF SoldHolds, Standing
  <1>3. SoldHolds = [h \in 1 .. Len(holds) |-> SoldHolds[h]]
    BY <1>1 DEF SoldHolds
  <1>4. \A h \in 1 .. Len(holds) : SoldHolds[h] \in HoldRec
    BY <1>1, <1>2
  <1> HIDE DEF SoldHolds
  <1>5. SoldHolds \in Seq(HoldRec) /\ DOMAIN SoldHolds = 1 .. Len(holds)
    BY <1>1, <1>3, <1>4
  <1> QED  BY <1>1, <1>2, <1>5

LEMMA CompleteDealKeeps == ASSUME SaleInv, NEW s \in Sales, CompleteDeal(s) PROVE SaleInv'
  <1> DEFINE d == deal[s]
             k == d.contract
             yes == TRUE
             c == [k EXCEPT !.complete = yes]
             n == [d EXCEPT !.state = "contracted", !.contract = c]
  <1>1. d \in DealRec /\ deal \in [Sales -> DealRec] /\ car \in CarRec
    BY DEF SaleInv, SaleKinds
  <1>2. k \in Contracts
    BY <1>1 DEF DealRec
  <1>3. deal' = [deal EXCEPT ![s] = n]
    BY <1>1 DEF CompleteDeal, DealRec
  <1>4. yes \in BOOLEAN
    OBVIOUS
  <1> HIDE DEF yes, k
  <1>5. c \in Contracts
    BY <1>2, <1>4 DEF Contracts
  <1> HIDE DEF c, d
  <1>6. n \in DealRec /\ n.state = "contracted" /\ n.version = d.version /\ n.terms = d.terms
    BY <1>1, <1>5 DEF DealRec
  <1> HIDE DEF n
  <1>7. /\ deal' \in [Sales -> DealRec] /\ deal'[s] = n
        /\ \A t \in Sales \ {s} : deal'[t] = deal[t]
    BY <1>1, <1>3, <1>6
  <1>8. Live(s) /\ issuing # s /\ UNCHANGED <<eligible, answer, invoice, issuing, trade, deposit, handedOver>>
    BY DEF CompleteDeal, Locked
  <1>9. \A t \in Sales : deal'[t].state = "contracted" <=> t = s
    BY <1>6, <1>7, <1>8 DEF SaleInv, OneLive, Live
  <1>10. /\ car' \in CarRec /\ car'.sale = s /\ (car.status = "delivered" => car'.status = "delivered")
         /\ holds' \in Seq(HoldRec) /\ DOMAIN holds' = DOMAIN holds
         /\ \A h \in DOMAIN holds : holds'[h].end # "no" /\ holds'[h].root = holds[h].root
    <2>1. CASE car.status \in {"sold", "delivered"}
      <3>1. car' = [car EXCEPT !.sale = s] /\ holds' = holds
        BY <2>1 DEF CompleteDeal
      <3>2. car' \in CarRec /\ car'.sale = s /\ car'.status = car.status
        BY <1>1, <3>1 DEF CarRec
      <3>3. holds' \in Seq(HoldRec)
        BY <3>1 DEF SaleInv, SaleKinds
      <3> QED  BY <2>1, <3>1, <3>2, <3>3, NoReservation
    <2>2. CASE car.status \notin {"sold", "delivered"}
      <3>1. /\ holds' = SoldHolds
            /\ car' = [car EXCEPT !.status = "sold", !.sale = s, !.consigned = IF @ = "standing" THEN "ended" ELSE @]
        BY <2>2 DEF CompleteDeal
      <3>2. car' \in CarRec /\ car'.sale = s
        BY <1>1, <3>1 DEF CarRec
      <3> QED  BY <2>2, <3>1, <3>2, SoldHoldsAre
    <2> QED  BY <2>1, <2>2
  <1>11. SaleKinds' /\ HeldFits' /\ ReservationKeeps'
    BY <1>7, <1>8, <1>10 DEF SaleInv, SaleKinds, HeldFits, ReservationKeeps
  <1>12. OneLive'
    BY <1>6, <1>7, <1>8 DEF SaleInv, OneLive, Live
  <1>13. CarIsOfItsSale' /\ IssuingIsContracted'
    BY <1>8, <1>9, <1>10 DEF SaleInv, CarIsOfItsSale, IssuingIsContracted, OneLive, Live
  <1>14. HandedOverStays'
    <2> SUFFICES ASSUME NEW t \in handedOver PROVE t = s /\ car.status = "delivered"
      BY <1>8, <1>10 DEF HandedOverStays
    <2>1. t \in Sales /\ car.sale = t /\ car.status = "delivered"
      BY DEF SaleInv, SaleKinds, HandedOverStays
    <2>2. Live(t)
      BY <2>1 DEF SaleInv, CarIsOfItsSale, Live
    <2> QED  BY <1>8, <2>1, <2>2 DEF SaleInv, OneLive
  <1>15. InvoicesFit'
    BY <1>6, <1>7, <1>8 DEF SaleInv, InvoicesFit, InvoiceFits, d
  <1> QED  BY <1>11, <1>12, <1>13, <1>14, <1>15 DEF SaleInv

LEMMA CancelDealKeeps == ASSUME SaleInv, NEW s \in Sales, CancelDeal(s) PROVE SaleInv'
  <1> DEFINE t0 == [NoTerms EXCEPT !.trade = deal[s].terms.trade]
             n  == [NoDeal EXCEPT !.state = "cancelled", !.terms = t0]
  <1>1. deal[s] \in DealRec /\ deal \in [Sales -> DealRec] /\ car \in CarRec /\ answer \in [Sales -> Answers]
    BY DEF SaleInv, SaleKinds
  <1>2. t0 \in Terms
    <2>1. deal[s].terms \in Terms
      BY <1>1 DEF DealRec
    <2> QED  BY <2>1, NoTermsAre
  <1>3. deal' = [deal EXCEPT ![s] = n]
    BY NoDealIs DEF CancelDeal, DealRec
  <1> HIDE DEF t0
  <1>4. n \in DealRec /\ n.state = "cancelled"
    BY <1>2, NoDealIs DEF DealRec
  <1> HIDE DEF n
  <1>5. /\ deal' \in [Sales -> DealRec] /\ deal'[s].state = "cancelled"
        /\ \A t \in Sales \ {s} : deal'[t] = deal[t]
    BY <1>1, <1>3, <1>4
  <1>6. /\ Live(s) /\ issuing # s /\ ~invoice[s].stands /\ car.status # "delivered"
        /\ UNCHANGED <<eligible, holds, invoice, issuing, trade, deposit, handedOver>>
        /\ answer' = [answer EXCEPT ![s] = NoAnswer]
        /\ car' = [car EXCEPT !.sale = LetsGo(s),
                              !.status = IF deal[s].state = "contracted" /\ @ = "sold" THEN "for sale" ELSE @]
    BY DEF CancelDeal, Locked
  <1>7. answer' \in [Sales -> Answers]
    BY <1>1, <1>6 DEF NoAnswer, Answers
  <1>8. LetsGo(s) \in Sales \cup {NoSale}
    BY <1>1 DEF LetsGo, CarRec
  <1>9. car' \in CarRec /\ car'.sale = LetsGo(s) /\ (car.status = "reserved" => car'.status = "reserved")
    BY <1>1, <1>6, <1>8 DEF CarRec
  <1>10. SaleKinds' /\ HeldFits'
    BY <1>5, <1>6, <1>7, <1>9 DEF SaleInv, SaleKinds, HeldFits
  <1>11. ReservationKeeps'
    BY <1>6, <1>9 DEF SaleInv, ReservationKeeps
  <1>12. OneLive' /\ IssuingIsContracted'
    BY <1>5, <1>6 DEF SaleInv, OneLive, Live, IssuingIsContracted
  <1>13. CarIsOfItsSale'
    <2> SUFFICES ASSUME NEW t \in Sales PROVE car'.sale = t <=> deal'[t].state = "contracted"
      BY DEF CarIsOfItsSale
    <2>1. CASE t = s
      BY <1>5, <1>9, <2>1, NoSaleIsNone DEF LetsGo
    <2>2. CASE t # s
      <3>1. deal[t].state # "contracted"
        BY <1>6, <2>2 DEF SaleInv, OneLive, Live
      <3>2. car.sale # t
        BY <3>1 DEF SaleInv, CarIsOfItsSale
      <3> QED  BY <1>5, <1>9, <2>2, <3>1, <3>2, NoSaleIsNone DEF LetsGo
    <2> QED  BY <2>1, <2>2
  <1>14. HandedOverStays'
    BY <1>6 DEF SaleInv, HandedOverStays
  <1>15. InvoicesFit'
    BY <1>5, <1>6 DEF SaleInv, InvoicesFit, InvoiceFits
  <1> QED  BY <1>10, <1>11, <1>12, <1>13, <1>14, <1>15 DEF SaleInv

LEMMA NextTermsKeeps == ASSUME SaleInv, NextTerms PROVE SaleInv'
  BY CreateDealKeeps, ReviseDealKeeps, AddDefectKeeps, AnswerDefectKeeps, ProduceSalesContractKeeps,
     CompleteDealKeeps, CancelDealKeeps, SignContractKeeps DEF NextTerms

-----------------------------------------------------------------------------
(* The invoice, the trade-in and the delivery.                             *)

LEMMA AtMostOne == ASSUME NEW r, NEW T \in SUBSET {r} PROVE Cardinality(T) \in {0, 1}
  <1>1. CASE T = {}
    BY <1>1, FS_EmptySet
  <1>2. CASE T = {r}
    BY <1>2, FS_Singleton
  <1> QED  BY <1>1, <1>2

Smaller == {x \in Nat \X Nat : x[1] < x[2]}

LEMMA LastIs == ASSUME NEW n \in Nat, NEW H \in SUBSET (1 .. n), H # {} PROVE Last(H) \in H
  <1> DEFINE Left == {n - h : h \in H}
  <1>1. Left \subseteq Nat /\ Left # {}
    OBVIOUS
  <1>2. IsWellFoundedOn(Smaller, Nat)
    BY NatLessThanWellFounded DEF OpToRel, Smaller
  <1> HIDE DEF Left
  <1>3. PICK m \in Left : \A k \in Left : ~ (<<k, m>> \in Smaller)
    BY <1>1, <1>2, WFMin
  <1>4. ASSUME NEW k \in Left PROVE m <= k
    <2>1. k \in Nat /\ m \in Nat
      BY <1>1
    <2>2. k < m => <<k, m>> \in Smaller
      BY <2>1 DEF Smaller
    <2> QED  BY <1>3, <2>1, <2>2
  <1>5. PICK h \in H : m = n - h
    BY DEF Left
  <1>6. ASSUME NEW g \in H PROVE g <= h
    <2>1. n - g \in Left /\ g \in Nat /\ h \in Nat
      BY DEF Left
    <2>2. m <= n - g
      BY <1>4, <2>1
    <2> QED  BY <1>5, <2>1, <2>2
  <1> QED  BY <1>6 DEF Last

\* Steps that change neither the car nor what its deals are.
LEMMA MoneyChanges ==
  ASSUME SaleInv, ByMoney, invoice' \in [Sales -> Invoices], InvoicesFit',
         issuing' \in Sales \cup {NoSale}, IssuingIsContracted',
         trade' \in [Sales -> TradeAt], HeldFits'
  PROVE  SaleInv'
  <1>1. UNCHANGED <<car, eligible, holds, deal, answer, handedOver>>
    BY DEF ByMoney
  <1> QED  BY <1>1 DEF SaleInv, SaleKinds, OneLive, Live, CarIsOfItsSale, HandedOverStays, ReservationKeeps

\* ... but one invoice.
LEMMA OneInvoiceChanges ==
  ASSUME SaleInv, ByMoney, NEW s \in Sales, NEW i \in Invoices, invoice' = [invoice EXCEPT ![s] = i],
         InvoiceFits(i, deal[s]), issuing' \in {issuing, NoSale}, trade' \in [Sales -> TradeAt], HeldFits'
  PROVE  SaleInv'
  <1>1. UNCHANGED <<car, eligible, holds, deal, answer, handedOver>>
    BY DEF ByMoney
  <1>2. /\ invoice' \in [Sales -> Invoices] /\ invoice'[s] = i
        /\ \A t \in Sales \ {s} : invoice'[t] = invoice[t]
    BY DEF SaleInv, SaleKinds
  <1>3. InvoicesFit'
    BY <1>1, <1>2 DEF SaleInv, InvoicesFit, InvoiceFits
  <1>4. issuing' \in Sales \cup {NoSale} /\ IssuingIsContracted'
    BY <1>1, NoSaleIsNone DEF SaleInv, SaleKinds, IssuingIsContracted
  <1> QED  BY <1>2, <1>3, <1>4, MoneyChanges

\* ... but where a trade-in is.
LEMMA OneTradeMoves ==
  ASSUME SaleInv, ByMoney, NEW s \in Sales, NEW a \in TradeAt \ {"credited"}, trade' = [trade EXCEPT ![s] = a],
         UNCHANGED <<invoice, issuing, deposit>>
  PROVE  SaleInv'
  <1>1. UNCHANGED <<holds, deal>>
    BY DEF ByMoney
  <1>2. trade' \in [Sales -> TradeAt] /\ \A t \in Sales : trade'[t] = "credited" => trade[t] = "credited"
    BY DEF SaleInv, SaleKinds
  <1>3. HeldFits'
    BY <1>1, <1>2 DEF SaleInv, HeldFits
  <1>4. /\ invoice' \in [Sales -> Invoices] /\ InvoicesFit'
        /\ issuing' \in Sales \cup {NoSale} /\ IssuingIsContracted'
    BY <1>1 DEF SaleInv, SaleKinds, InvoicesFit, InvoiceFits, IssuingIsContracted
  <1> QED  BY <1>2, <1>3, <1>4, MoneyChanges

LEMMA HeldStays ==
  ASSUME SaleInv, UNCHANGED <<trade, deposit>>, ByMoney
  PROVE  HeldFits' /\ trade' \in [Sales -> TradeAt]
  BY DEF SaleInv, SaleKinds, HeldFits, ByMoney

LEMMA ReadDealToInvoiceKeeps == ASSUME SaleInv, NEW s \in Sales, ReadDealToInvoice(s) PROVE SaleInv'
  <1>1. issuing' = s /\ deal[s].state = "contracted" /\ UNCHANGED <<invoice, trade, deposit>> /\ ByMoney
    BY DEF ReadDealToInvoice, Completed
  <1>2. deal' = deal
    BY <1>1 DEF ByMoney
  <1>3. HeldFits' /\ trade' \in [Sales -> TradeAt]
    BY <1>1, HeldStays
  <1>4. invoice' \in [Sales -> Invoices] /\ InvoicesFit' /\ IssuingIsContracted'
    BY <1>1, <1>2 DEF SaleInv, SaleKinds, InvoicesFit, InvoiceFits, IssuingIsContracted
  <1> QED  BY <1>1, <1>3, <1>4, MoneyChanges

LEMMA IssueDealInvoiceKeeps == ASSUME SaleInv, NEW s \in Sales, IssueDealInvoice(s) PROVE SaleInv'
  <1> DEFINE traded   == {x \in {s} \cap DOMAIN deposit : deposit[x] > 0}
             left     == Price - Cardinality(traded)
             r        == holds[Last(SoldWithDeposit)].root
             reserved == IF SoldWithDeposit = {} \/ left = 0 THEN {} ELSE {x \in {r} : deposit[x] > 0}
             owed     == left - Cardinality(reserved)
             from     == {holds[x].holder : x \in reserved}
             scheme   == deal[s].terms.tax = "scheme"
             yes      == TRUE
             i        == [stands |-> yes, ever |-> yes, version |-> deal[s].version, scheme |-> scheme,
                          owed |-> owed, from |-> from]
  <1>1. /\ issuing = s /\ issuing' = NoSale /\ trade' = trade /\ ByMoney
        /\ deposit' = [x \in DOMAIN deposit |-> IF x \in traded \cup reserved THEN 0 ELSE deposit[x]]
        /\ invoice' = [invoice EXCEPT ![s] = i]
    BY DEF IssueDealInvoice, Locked
  <1>2. deal[s].state = "contracted" /\ deal[s] \in DealRec
    BY <1>1 DEF SaleInv, SaleKinds, IssuingIsContracted
  <1>3. HeldFits'
    <2> HIDE DEF traded, reserved
    <2>1. deposit \in [DOMAIN deposit -> {0, 1}]
      BY DEF SaleInv, HeldFits
    <2>2. deposit' \in [DOMAIN deposit -> {0, 1}] /\ DOMAIN deposit' = DOMAIN deposit
      BY <1>1, <2>1
    <2>3. UNCHANGED <<trade, holds>>
      BY <1>1 DEF ByMoney
    <2> QED  BY <2>2, <2>3 DEF SaleInv, HeldFits
  <1>4. left \in {Price, Price - 1} /\ left \in Nat
    <2>1. Cardinality(traded) \in {0, 1}
      BY AtMostOne
    <2> QED  BY <2>1, BoundsAreNumbers
  <1>5. owed \in 0 .. Price
    <2>1. Cardinality(reserved) \in {0, 1}
      <3>1. reserved \in SUBSET {r}
        OBVIOUS
      <3> HIDE DEF reserved
      <3> QED  BY <3>1, AtMostOne
    <2>2. left = 0 => Cardinality(reserved) = 0
      BY FS_EmptySet
    <2> HIDE DEF left, reserved
    <2> QED  BY <1>4, <2>1, <2>2, BoundsAreNumbers
  <1>6. from \in SUBSET People
    <2>1. CASE SoldWithDeposit = {}
      BY <2>1
    <2>2. CASE SoldWithDeposit # {}
      <3>1. SoldWithDeposit \in SUBSET (1 .. Len(holds)) /\ Len(holds) \in Nat
        BY DEF SoldWithDeposit, SaleInv, SaleKinds
      <3>2. Last(SoldWithDeposit) \in DOMAIN holds
        BY <2>2, <3>1, LastIs DEF SoldWithDeposit
      <3>3. r \in DOMAIN holds
        BY <3>2 DEF SaleInv, HeldFits
      <3>4. reserved \in SUBSET {r}
        OBVIOUS
      <3> HIDE DEF r, reserved
      <3>5. holds[r].holder \in People
        <4>1. holds[r] \in HoldRec
          BY <3>3 DEF SaleInv, SaleKinds
        <4> QED  BY <4>1 DEF HoldRec
      <3> QED  BY <3>4, <3>5
    <2> QED  BY <2>1, <2>2
  <1>7. deal[s].version \in Nat /\ scheme \in BOOLEAN /\ yes \in BOOLEAN
    BY <1>2 DEF DealRec
  <1> HIDE DEF traded, left, r, reserved, owed, from, scheme, yes
  <1>8. i \in Invoices
    BY <1>5, <1>6, <1>7 DEF Invoices
  <1>9. InvoiceFits(i, deal[s])
    BY <1>2 DEF InvoiceFits, scheme
  <1>10. trade' \in [Sales -> TradeAt]
    BY <1>1 DEF SaleInv, SaleKinds
  <1> HIDE DEF i
  <1> QED  BY <1>1, <1>3, <1>8, <1>9, <1>10, OneInvoiceChanges

\* What is owed changes, or the invoice is credited.
LEMMA OwedChanges ==
  ASSUME SaleInv, NEW s \in Sales, NEW o \in 0 .. Price
  PROVE  LET i == [invoice[s] EXCEPT !.owed = o] IN i \in Invoices /\ InvoiceFits(i, deal[s])
  <1> DEFINE j == invoice[s]
             i == [j EXCEPT !.owed = o]
  <1>1. j \in Invoices /\ InvoiceFits(j, deal[s])
    BY DEF SaleInv, SaleKinds, InvoicesFit
  <1> HIDE DEF j
  <1>2. i \in Invoices /\ (i.stands <=> j.stands) /\ i.version = j.version /\ (i.scheme <=> j.scheme)
    BY <1>1 DEF Invoices
  <1>3. InvoiceFits(i, deal[s])
    BY <1>1, <1>2 DEF InvoiceFits
  <1> QED  BY <1>2, <1>3 DEF j

LEMMA PayInvoiceKeeps == ASSUME SaleInv, NEW s \in Sales, PayInvoice(s) PROVE SaleInv'
  <1> DEFINE i == [invoice[s] EXCEPT !.owed = 0]
  <1>1. i \in Invoices /\ InvoiceFits(i, deal[s])
    BY OwedChanges, BoundsAreNumbers
  <1>2. invoice' = [invoice EXCEPT ![s] = i] /\ UNCHANGED <<issuing, trade, deposit>> /\ ByMoney
    BY DEF PayInvoice, SaleInv, SaleKinds
  <1> HIDE DEF i
  <1> QED  BY <1>1, <1>2, HeldStays, OneInvoiceChanges

LEMMA NoInvoiceIs == NoInvoice \in Invoices /\ ~NoInvoice.stands
  <1>1. 0 \in 0 .. Price /\ 0 \in Nat /\ {} \in SUBSET People
    BY BoundsAreNumbers
  <1> QED  BY <1>1 DEF NoInvoice, Invoices

LEMMA CreditInvoiceKeeps == ASSUME SaleInv, NEW s \in Sales, CreditInvoice(s) PROVE SaleInv'
  <1> DEFINE yes == TRUE
             i == [NoInvoice EXCEPT !.ever = yes]
  <1>1. invoice' = [invoice EXCEPT ![s] = i] /\ UNCHANGED <<issuing, trade, deposit>> /\ ByMoney
    BY DEF CreditInvoice
  <1>2. yes \in BOOLEAN
    OBVIOUS
  <1> HIDE DEF yes
  <1>3. i \in Invoices /\ ~i.stands
    BY <1>2, NoInvoiceIs DEF Invoices
  <1> HIDE DEF i
  <1>4. InvoiceFits(i, deal[s])
    BY <1>3 DEF InvoiceFits
  <1> QED  BY <1>1, <1>3, <1>4, HeldStays, OneInvoiceChanges

LEMMA CreditTradeInKeeps == ASSUME SaleInv, NEW s \in Sales, CreditTradeIn(s) PROVE SaleInv'
  <1> DEFINE held   == IF trade[s] = "clear" THEN 1 ELSE deposit[s]
             amount == Lesser(held, invoice[s].owed)
             owed   == invoice[s].owed - amount
             kept   == held - amount
             i      == [invoice[s] EXCEPT !.owed = owed]
  <1>1. /\ trade[s] \in {"clear", "credited"} /\ trade' = [trade EXCEPT ![s] = "credited"]
        /\ deposit' = Holding(s, kept) /\ issuing' = issuing /\ ByMoney
    BY DEF CreditTradeIn
  <1>2. invoice' = [invoice EXCEPT ![s] = i]
    BY DEF CreditTradeIn, SaleInv, SaleKinds
  <1>3. held \in {0, 1}
    BY <1>1 DEF SaleInv, HeldFits
  <1>4. invoice[s].owed \in 0 .. Price
    BY DEF SaleInv, SaleKinds, Invoices
  <1> HIDE DEF held
  <1>5. owed \in 0 .. Price /\ kept \in {0, 1}
    BY <1>3, <1>4, BoundsAreNumbers DEF Lesser
  <1> HIDE DEF owed, kept
  <1>6. i \in Invoices /\ InvoiceFits(i, deal[s])
    BY <1>5, OwedChanges
  <1>7. trade' \in [Sales -> TradeAt] /\ trade'[s] = "credited" /\ \A t \in Sales \ {s} : trade'[t] = trade[t]
    BY <1>1 DEF SaleInv, SaleKinds, TradeAt
  <1>8. holds' = holds
    BY <1>1 DEF ByMoney
  <1>9. HeldFits'
    BY <1>1, <1>5, <1>7, <1>8 DEF SaleInv, HeldFits, Holding
  <1> HIDE DEF i
  <1> QED  BY <1>1, <1>2, <1>6, <1>7, <1>9, OneInvoiceChanges

LEMMA CommitTradeInKeeps == ASSUME SaleInv, NEW s \in Sales, CommitTradeIn(s) PROVE SaleInv'
  <1>1. /\ trade' = [trade EXCEPT ![s] = "credited"] /\ deposit' = Holding(s, 1)
        /\ UNCHANGED <<invoice, issuing>> /\ ByMoney
    BY DEF CommitTradeIn
  <1>2. trade' \in [Sales -> TradeAt] /\ trade'[s] = "credited" /\ \A t \in Sales \ {s} : trade'[t] = trade[t]
    BY <1>1 DEF SaleInv, SaleKinds, TradeAt
  <1>3. UNCHANGED <<holds, deal>>
    BY <1>1 DEF ByMoney
  <1>4. HeldFits'
    BY <1>1, <1>2, <1>3 DEF SaleInv, HeldFits, Holding
  <1>5. /\ invoice' \in [Sales -> Invoices] /\ InvoicesFit'
        /\ issuing' \in Sales \cup {NoSale} /\ IssuingIsContracted'
    BY <1>1, <1>3 DEF SaleInv, SaleKinds, InvoicesFit, InvoiceFits, IssuingIsContracted
  <1> QED  BY <1>1, <1>2, <1>4, <1>5, MoneyChanges

LEMMA TradeInMovesKeep ==
  ASSUME SaleInv, NEW s \in Sales, HandOverTradeIn(s) \/ ReceiveTradeIn(s) \/ ChecksPass(s) \/ HoldTradeIn(s)
  PROVE  SaleInv'
  <1>1. PICK a \in {"taking", "received", "clear", "crediting"} : trade' = [trade EXCEPT ![s] = a]
    BY DEF HandOverTradeIn, ReceiveTradeIn, ChecksPass, HoldTradeIn
  <1>2. UNCHANGED <<invoice, issuing, deposit>> /\ ByMoney
    BY DEF HandOverTradeIn, ReceiveTradeIn, ChecksPass, HoldTradeIn
  <1>3. a \in TradeAt \ {"credited"}
    BY DEF TradeAt
  <1> QED  BY <1>1, <1>2, <1>3, OneTradeMoves

LEMMA DeliverCarKeeps == ASSUME SaleInv, NEW s \in Sales, NEW override \in BOOLEAN, DeliverCar(s, override) PROVE SaleInv'
  <1>1. /\ deal[s].state = "contracted" /\ car.status # "reserved"
        /\ handedOver' = handedOver \cup {s} /\ car' = [car EXCEPT !.status = "delivered"]
        /\ UNCHANGED <<eligible, holds, deal, answer, invoice, issuing, trade, deposit>>
    BY DEF DeliverCar, Completed
  <1>2. car' \in CarRec /\ car'.sale = car.sale /\ car'.status = "delivered"
    BY <1>1 DEF SaleInv, SaleKinds, CarRec
  <1>3. SaleKinds' /\ HeldFits'
    BY <1>1, <1>2 DEF SaleInv, SaleKinds, HeldFits
  <1>4. ReservationKeeps'
    BY <1>1, NoReservation DEF ReservationKeeps
  <1>5. HandedOverStays'
    BY <1>1, <1>2 DEF SaleInv, HandedOverStays, CarIsOfItsSale
  <1>6. OneLive' /\ CarIsOfItsSale' /\ IssuingIsContracted' /\ InvoicesFit'
    BY <1>1, <1>2 DEF SaleInv, OneLive, Live, CarIsOfItsSale, IssuingIsContracted, InvoicesFit, InvoiceFits
  <1> QED  BY <1>3, <1>4, <1>5, <1>6 DEF SaleInv

LEMMA NextMoneyKeeps == ASSUME SaleInv, NextMoney PROVE SaleInv'
  BY ReadDealToInvoiceKeeps, IssueDealInvoiceKeeps, PayInvoiceKeeps, CreditInvoiceKeeps, TradeInMovesKeep,
     CreditTradeInKeeps, CommitTradeInKeeps, DeliverCarKeeps DEF NextMoney

-----------------------------------------------------------------------------
(* Its invariant, and what follows from it.                                *)

LEMMA SaleStart == ASSUME InitDeals PROVE SaleInv
  <1>1. deal \in [Sales -> DealRec] /\ \A s \in Sales : deal[s].state = "none"
    <2>1. NoDeal \in DealRec /\ NoDeal.state = "none"
      BY NoDealIs DEF NoDeal
    <2> QED  BY <2>1 DEF InitDeals
  <1>2. invoice \in [Sales -> Invoices] /\ \A s \in Sales : ~invoice[s].stands
    BY NoInvoiceIs DEF InitDeals
  <1>3. answer \in [Sales -> Answers]
    BY DEF InitDeals, NoAnswer, Answers
  <1>4. /\ car \in CarRec /\ car.sale = NoSale /\ eligible \in BOOLEAN
        /\ trade \in [Sales -> TradeAt] /\ \A s \in Sales : trade[s] = "none"
    <2>1. car \in [status : {"preparation"}, sale : {NoSale}, consigned : {"no", "standing"}]
      BY DEF InitDeals
    <2>2. eligible \in BOOLEAN
      BY DEF InitDeals
    <2>3. car \in CarRec /\ car.sale = NoSale
      BY <2>1 DEF CarRec
    <2>4. trade \in [Sales -> TradeAt] /\ \A s \in Sales : trade[s] = "none"
      BY DEF InitDeals, TradeAt
    <2> QED  BY <2>2, <2>3, <2>4
  <1>5. holds = <<>> /\ deposit = <<>> /\ issuing = NoSale /\ handedOver = {}
    BY DEF InitDeals
  <1>6. holds \in Seq(HoldRec) /\ DOMAIN holds = {} /\ DOMAIN deposit = {} /\ deposit \in [DOMAIN deposit -> {0, 1}]
    BY <1>5
  <1>7. SaleKinds /\ HeldFits /\ ReservationKeeps /\ HandedOverStays
    BY <1>1, <1>2, <1>3, <1>4, <1>5, <1>6 DEF SaleKinds, HeldFits, ReservationKeeps, HandedOverStays
  <1>8. OneLive /\ CarIsOfItsSale /\ IssuingIsContracted /\ InvoicesFit
    BY <1>1, <1>2, <1>4, <1>5, NoSaleIsNone DEF OneLive, Live, CarIsOfItsSale, IssuingIsContracted, InvoicesFit, InvoiceFits
  <1> QED  BY <1>7, <1>8 DEF SaleInv

LEMMA SaleStep == ASSUME SaleInv, [NextDeals]_salevars PROVE SaleInv'
  <1>1. CASE UNCHANGED salevars
    BY <1>1 DEF salevars, SaleInv, SaleKinds, HeldFits, OneLive, Live, CarIsOfItsSale, HandedOverStays,
         ReservationKeeps, IssuingIsContracted, InvoicesFit, InvoiceFits
  <1>2. CASE NextDeals
    BY <1>2, NextStockKeeps, NextTermsKeeps, NextMoneyKeeps DEF NextDeals
  <1> QED  BY <1>1, <1>2

\* In every state of a car and its deals their invariant holds.
THEOREM SaleFits == SpecDeals => []SaleInv
  BY SaleStart, SaleStep, PTL DEF SpecDeals

\* Every piece of state of a car and its deals is of its kind.
THEOREM SaleTypeIsCorrect == SpecDeals => []DealsTypeOK
  <1>1. ASSUME SaleInv PROVE DealsTypeOK
    BY <1>1 DEF SaleInv, SaleKinds, HeldFits, DealsTypeOK, CarRec, HoldRec, DealRec, Terms, Answers, Invoices, TradeAt
  <1> QED  BY <1>1, SaleFits, PTL

\* A car points at the one deal that is contracted and at no other, stays that
\* deal's once it is handed over, and is kept by the last reservation made and
\* by no other.
THEOREM CarStaysWithItsSale == SpecDeals => []CarFollowsItsSale
  <1>1. ASSUME SaleInv PROVE CarFollowsItsSale
    <2>1. ASSUME NEW h \in Standing PROVE Standing = {h} /\ h = Len(holds) /\ car.status = "reserved"
      BY <1>1, <2>1 DEF SaleInv, ReservationKeeps, Standing
    <2>2. /\ \A s \in Sales : car.sale = s <=> deal[s].state = "contracted"
          /\ \A s \in handedOver : car.sale = s /\ car.status = "delivered"
      BY <1>1 DEF SaleInv, CarIsOfItsSale, HandedOverStays
    <2> QED  BY <2>1, <2>2 DEF CarFollowsItsSale
  <1> QED  BY <1>1, SaleFits, PTL

\* An invoice that stands charges the terms as they stand, of a contracted
\* deal, and is taxed as they say.
THEOREM TermsStandOnceInvoiced == SpecDeals => []InvoicedTermsStand
  <1>1. ASSUME SaleInv PROVE InvoicedTermsStand
    <2> SUFFICES ASSUME NEW s \in Sales, invoice[s].stands
                 PROVE  /\ deal[s].state = "contracted" /\ invoice[s].version = deal[s].version
                        /\ invoice[s].scheme = (deal[s].terms.tax = "scheme")
      BY DEF InvoicedTermsStand
    <2>1. InvoiceFits(invoice[s], deal[s]) /\ invoice[s] \in Invoices
      BY <1>1 DEF SaleInv, SaleKinds, InvoicesFit
    <2>2. invoice[s].scheme <=> deal[s].terms.tax = "scheme"
      BY <2>1 DEF InvoiceFits
    <2>3. invoice[s].scheme \in BOOLEAN
      BY <2>1 DEF Invoices
    <2>4. invoice[s].scheme = (deal[s].terms.tax = "scheme")
      BY <2>2, <2>3, Zenon
    <2> QED  BY <2>1, <2>4 DEF InvoiceFits
  <1> QED  BY <1>1, SaleFits, PTL
-----------------------------------------------------------------------------
(* The three side by side.                                                 *)

LEMMA StepsOfTheThree == [NextYard]_yardvars => [Next]_vars /\ [NextDeals]_salevars /\ [NextWork]_workvars
  <1>1. CASE UNCHANGED yardvars
    BY <1>1 DEF yardvars, vars, salevars, workvars
  <1>2. CASE NextYard
    <2>1. OnFleet \/ OnDeals \/ OnWork
      BY <1>2 DEF NextYard
    <2>2. CASE UNCHANGED <<salevars, workvars>> /\ Next
      BY <2>2
    <2>3. CASE UNCHANGED <<vars, workvars>> /\ NextDeals
      BY <2>3
    <2>4. CASE UNCHANGED <<vars, salevars>> /\ NextWork
      BY <2>4
    <2> QED  BY <1>2, <2>2, <2>3, <2>4, Zenon DEF NextYard, OnFleet, OnDeals, OnWork, Next, NextDeals, NextWork
  <1> QED  BY <1>1, <1>2

\* The fleet, the sales and the job, in whatever order the steps of a run come,
\* are each what they are alone: what is proved of one of them holds of the run.
THEOREM YardIsTheThree == SpecYard => Spec /\ SpecDeals /\ SpecWork
  <1>1. InitYard => Init /\ InitDeals /\ InitWork
    BY DEF InitYard
  <1> QED  BY <1>1, StepsOfTheThree, PTL DEF SpecYard, Spec, SpecDeals, SpecWork

\* Every piece of state is of its kind: the ledger with its reservations and test
\* drives, the car with its deals and invoices, the job with its lines and quotes.
THEOREM YardIsTyped == SpecYard => []YardTypeOK
  <1>1. TypeOK /\ DealsTypeOK /\ WorkTypeOK => YardTypeOK
    BY DEF YardTypeOK
  <1> QED  BY <1>1, YardIsTheThree, TypeIsCorrect, SaleTypeIsCorrect, JobTypeIsCorrect, PTL

=============================================================================
