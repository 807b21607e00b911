------------------------------ MODULE WorkOrder ------------------------------
(***************************************************************************)
(* One job, from its estimate to its end: its state, its lines and what    *)
(* the customer said of them, the work list, the parts asked for, what a   *)
(* supplier was asked to do, and who has a clock on it (state.go,          *)
(* lines.go, lineedit.go, quotes.go, performed.go, tasks.go, handover.go,  *)
(* outsourced.go, takeout.go, queries.go).                                 *)
(*                                                                         *)
(* What locks the job's row before it reads is one step.  Two handlers are *)
(* not: ClockIn reads the state and takes the row's lock only if it moves  *)
(* it, and an arrival reads the job's other requests and its state holding *)
(* its own request alone.  What either finds stale it is refused for, and  *)
(* nothing of it stays.                                                    *)
(*                                                                         *)
(* A price stands for all that can make a line dearer: price, quantity,    *)
(* tax.  Lines the customer does not pay for, fees, answers to an          *)
(* inspection, deliveries in parts, the final check and who may do what    *)
(* are left out; a task under way is one pending, work a supplier is       *)
(* waited for one sent.  One piece of work is asked of a supplier.         *)
(***************************************************************************)
EXTENDS Naturals, FiniteSets, Sequences

CONSTANTS
  Lines,      \* lines the job may get
  Tasks,      \* steps its work list may get
  Orders,     \* requests for parts that may be made
  Mechanics,  \* people with a clock
  NoLine,
  MaxPrice,   \* bound: what a line may cost
  MaxQuotes   \* bound: versions put to the customer

ASSUME NoLineIsNone == NoLine \notin Lines
ASSUME WorkBoundsAreNumbers == MaxPrice \in Nat \ {0} /\ MaxQuotes \in Nat

VARIABLES
  state,      \* the job's state
  line,       \* [Lines -> the line; yes is the quote whose yes approves it, or 0]
  task,       \* [Tasks -> where it stands, and the line it is the work for]
  quotes,     \* the versions put to the customer: the prices, and the last answer
  takenBack,  \* taken back from the customer after the last of them
  request,    \* [Orders -> where each stands, as committed]
  arriving,   \* [Orders -> an end under way: what it will be, and whether work resumes]
  clock,      \* [Mechanics -> a time entry on this job]
  starting,   \* [Mechanics -> the state a ClockIn under way has read, or "none"]
  fitted,     \* a part taken out to the job: now, and ever
  away        \* work asked of a supplier: where it stands, for which line, and required or not

workvars == <<state, line, task, quotes, takenBack, request, arriving, clock, starting, fitted, away>>

States == {"draft", "estimated", "awaiting_approval", "approved", "in_progress", "awaiting_parts",
           "ready", "invoiced", "closed", "declined", "cancelled"}
Entry == [there : BOOLEAN, kind : {"labour", "part"}, price : 0 .. MaxPrice, yes : 0 .. MaxQuotes,
          declined : BOOLEAN, performed : BOOLEAN, withdrawn : BOOLEAN]
NoEntry == [there |-> FALSE, kind |-> "labour", price |-> 0, yes |-> 0,
            declined |-> FALSE, performed |-> FALSE, withdrawn |-> FALSE]
NoTask == [status |-> "none", line |-> NoLine]
NoEnd  == [end |-> "none", resume |-> FALSE]

InitWork ==
  /\ state = "draft"
  /\ line = [l \in Lines |-> NoEntry]
  /\ task = [t \in Tasks |-> NoTask]
  /\ quotes = <<>> /\ takenBack = FALSE
  /\ request = [r \in Orders |-> "none"]
  /\ arriving = [r \in Orders |-> NoEnd]
  /\ clock = [m \in Mechanics |-> "never"]
  /\ starting = [m \in Mechanics |-> "none"]
  /\ fitted = [now |-> FALSE, ever |-> FALSE]
  /\ away = [status |-> "none", line |-> NoLine, required |-> FALSE]

AcceptsWork == state \notin {"invoiced", "closed", "cancelled"}
notAskedYet == state \in {"draft", "estimated"}
settled     == state \in {"invoiced", "closed", "cancelled", "declined"}

-----------------------------------------------------------------------------
(* The state machine.                                                      *)

transitions == {
  <<"draft", "estimated">>, <<"draft", "cancelled">>,
  <<"estimated", "awaiting_approval">>, <<"estimated", "draft">>, <<"estimated", "cancelled">>,
  <<"awaiting_approval", "approved">>, <<"awaiting_approval", "declined">>,
  <<"awaiting_approval", "estimated">>, <<"awaiting_approval", "cancelled">>,
  <<"approved", "in_progress">>, <<"approved", "awaiting_parts">>, <<"approved", "declined">>, <<"approved", "cancelled">>,
  <<"in_progress", "awaiting_parts">>, <<"in_progress", "ready">>, <<"in_progress", "declined">>,
  <<"awaiting_parts", "in_progress">>, <<"awaiting_parts", "ready">>, <<"awaiting_parts", "declined">>,
  <<"ready", "invoiced">>, <<"ready", "in_progress">>,
  <<"invoiced", "closed">>,
  <<"declined", "invoiced">>, <<"declined", "cancelled">>}

CanTransition(to) == <<state, to>> \in transitions

Stands(l)  == line[l].there /\ ~line[l].withdrawn
Pending    == {l \in Lines : Stands(l) /\ line[l].yes = 0 /\ ~line[l].declined}
Gone(l)    == line[l].withdrawn \/ (line[l].declined /\ ~line[l].performed)
Undone(t)  == task[t].status \in {"pending", "blocked"}
Outstanding(t) == Undone(t) /\ (task[t].line = NoLine \/ ~Gone(task[t].line))

\* agreementTx: nothing is left to ask, and not everything was turned down.
Agreed ==
  /\ Pending = {}
  /\ (\E l \in Lines : Stands(l)) => \E l \in Lines : Stands(l) /\ ~line[l].declined

Unresolved == away.required /\ away.status \notin {"none", "checked", "cancelled"}
NothingLeft == ~Unresolved /\ \A t \in Tasks : ~Outstanding(t)

HasWork ==
  \/ \E m \in Mechanics : clock[m] # "never"
  \/ \E l \in Lines : line[l].performed
  \/ fitted.ever

\* The lines as a decline leaves them: what was done, or had a part taken out
\* for it, is still owed.
Declined(L) ==
  [l \in Lines |->
     IF /\ L[l].there /\ ~L[l].performed /\ ~L[l].withdrawn
        /\ ~(L[l].kind = "part" /\ fitted.ever)
     THEN [L[l] EXCEPT !.declined = TRUE] ELSE L[l]]

\* setStateTx, on the lines as the handler has left them.
Moves(to, L) ==
  /\ CanTransition(to)
  /\ to = "cancelled" => ~HasWork
  /\ state' = to
  /\ line' = IF to = "declined" THEN Declined(L) ELSE L
  /\ takenBack' = (takenBack \/ (quotes # <<>> /\ ~notAskedYet /\ to \in {"draft", "estimated"}))

\* A move to ready stops the clock of whoever makes it, if that is a mechanic.
Stopped(m) == [clock EXCEPT ![m] = IF @ = "running" THEN "stopped" ELSE @]

SetState(to) ==
  /\ to \notin {"invoiced", "closed"}
  /\ to = "approved" => Agreed
  /\ to = "ready" => NothingLeft
  /\ Moves(to, line)
  /\ clock' \in {clock} \cup {Stopped(m) : m \in IF to = "ready" THEN Mechanics ELSE {}}
  /\ UNCHANGED <<task, quotes, request, arriving, starting, fitted, away>>

\* Issue and CloseJob, as far as the job goes (Invoicing, Payments).
Bill(to) ==
  /\ to \in {"invoiced", "closed"} /\ Moves(to, line)
  /\ UNCHANGED <<task, quotes, request, arriving, clock, starting, fitted, away>>

-----------------------------------------------------------------------------
(* Lines.                                                                  *)

OnLines == UNCHANGED <<state, task, quotes, takenBack, request, arriving, clock, starting, fitted, away>>

AddLine(l, kind, price) ==
  /\ AcceptsWork /\ line[l] = NoEntry
  /\ line' = [line EXCEPT ![l] = [NoEntry EXCEPT !.there = TRUE, !.kind = kind, !.price = price]]
  /\ OnLines

\* What could cost the customer more is not what they agreed to.
EditLine(l, price) ==
  /\ AcceptsWork /\ Stands(l) /\ ~line[l].declined /\ price # line[l].price
  /\ line' = [line EXCEPT ![l].price = price, ![l].yes = IF price > line[l].price THEN 0 ELSE @]
  /\ OnLines

WithdrawLine(l) ==
  /\ AcceptsWork /\ Stands(l) /\ ~line[l].declined /\ ~line[l].performed
  /\ line' = [line EXCEPT ![l].withdrawn = TRUE]
  /\ OnLines

\* The open steps of these lines are done with them.
Finished(ls) == [t \in Tasks |-> IF Undone(t) /\ task[t].line \in ls THEN [task[t] EXCEPT !.status = "done"] ELSE task[t]]

MarkPerformed(l) ==
  /\ AcceptsWork /\ line[l].there
  /\ line' = [line EXCEPT ![l].performed = TRUE, ![l].declined = FALSE]
  /\ task' = Finished({l})
  /\ UNCHANGED <<state, quotes, takenBack, request, arriving, clock, starting, fitted, away>>

UnmarkPerformed(l) ==
  /\ AcceptsWork /\ line[l].there
  /\ line' = [line EXCEPT ![l].performed = FALSE, ![l].declined = state = "declined"]
  /\ OnLines

\* The customer says no: what was performed, done is what is open of it, and
\* the rest of the work list is left out.
Decline(ls) ==
  /\ \A l \in ls : line[l].there
  /\ Moves("declined", [l \in Lines |-> IF l \in ls THEN [line[l] EXCEPT !.performed = TRUE] ELSE line[l]])
  /\ task' = [t \in Tasks |-> IF Undone(t) /\ task[t].line \notin ls THEN [task[t] EXCEPT !.status = "omitted"] ELSE Finished(ls)[t]]
  /\ UNCHANGED <<quotes, request, arriving, clock, starting, fitted, away>>

-----------------------------------------------------------------------------
(* Quotes: the lines as they are put to the customer, and what they say.   *)

Latest == quotes[Len(quotes)]
InLatest(l) == l \in DOMAIN Latest.price
Stale == \E l \in DOMAIN Latest.price : line[l].withdrawn \/ line[l].price # Latest.price[l]

\* The same lines waiting for an answer are the same version, whatever they
\* cost by now.
PresentQuote ==
  /\ ~settled /\ Pending # {}
  /\ state' = IF notAskedYet THEN "awaiting_approval" ELSE state
  /\ IF quotes # <<>> /\ Latest.answer = "none" /\ DOMAIN Latest.price = Pending
     THEN UNCHANGED <<quotes, takenBack>>
     ELSE /\ Len(quotes) < MaxQuotes
          /\ quotes' = Append(quotes, [price |-> [l \in Pending |-> line[l].price], answer |-> "none"])
          /\ takenBack' = FALSE
  /\ UNCHANGED <<line, task, request, arriving, clock, starting, fitted, away>>

\* An answer, written down or given on the link.  A quote put forward on a job
\* that is not waiting was taken back.
Answerable == ~settled /\ quotes # <<>> /\ ~(notAskedYet /\ takenBack)

Approves(l) == [line[l] EXCEPT !.yes = Len(quotes), !.declined = FALSE]

\* A mutant: a yes to lines that have been corrected since.
AnswerYesAnyway ==
  /\ Answerable
  /\ line' = [l \in Lines |-> IF InLatest(l) THEN Approves(l) ELSE line[l]]
  /\ quotes' = [quotes EXCEPT ![Len(quotes)].answer = "yes"]
  /\ UNCHANGED <<state, task, takenBack, request, arriving, clock, starting, fitted, away>>

AnswerYes ==
  /\ Answerable /\ ~Stale
  /\ line' = [l \in Lines |-> IF InLatest(l) THEN Approves(l) ELSE line[l]]
  /\ quotes' = [quotes EXCEPT ![Len(quotes)].answer = "yes"]
  /\ UNCHANGED <<state, task, takenBack, request, arriving, clock, starting, fitted, away>>

AnswerNo ==
  /\ Answerable
  /\ line' = [l \in Lines |-> IF InLatest(l) /\ ~line[l].performed THEN [line[l] EXCEPT !.declined = TRUE] ELSE line[l]]
  /\ quotes' = [quotes EXCEPT ![Len(quotes)].answer = "no"]
  /\ UNCHANGED <<state, task, takenBack, request, arriving, clock, starting, fitted, away>>

-----------------------------------------------------------------------------
(* The work list.                                                          *)

OnTasks == UNCHANGED <<quotes, takenBack, request, arriving, clock, starting, fitted>>

backOnTheLift == state' = IF state = "ready" THEN "in_progress" ELSE state

AddTask(t, l) ==
  /\ AcceptsWork /\ task[t].status = "none"
  /\ l # NoLine => Stands(l)
  /\ task' = [task EXCEPT ![t] = [status |-> "pending", line |-> l]]
  /\ backOnTheLift
  /\ UNCHANGED <<line, away>> /\ OnTasks

\* A step for each agreed line of labour that has none.
TasksFromLines ==
  LET todo == {l \in Lines : /\ Stands(l) /\ line[l].kind = "labour" /\ line[l].yes # 0 /\ ~line[l].declined
                             /\ \A t \in Tasks : task[t].line # l}
  IN  /\ AcceptsWork /\ todo # {}
      /\ \E f \in [todo -> {t \in Tasks : task[t].status = "none"}] :
           /\ \A l, k \in todo : f[l] = f[k] => l = k
           /\ task' = [t \in Tasks |-> IF \E l \in todo : f[l] = t
                                       THEN [status |-> "pending", line |-> CHOOSE l \in todo : f[l] = t] ELSE task[t]]
      /\ backOnTheLift
      /\ UNCHANGED <<line, away>> /\ OnTasks

\* performedByTaskTx: a step done is its line performed, unless the customer
\* turned that down; a step opened again takes it back.
Performs(e, done) ==
  IF done
  THEN IF ~e.withdrawn /\ (~e.declined \/ state = "declined") THEN [e EXCEPT !.performed = TRUE, !.declined = FALSE] ELSE e
  ELSE IF e.performed THEN [e EXCEPT !.performed = FALSE, !.declined = state = "declined"] ELSE e

\* moveTaskTx, and what it does to the task's line.
MovesOnList(t, to) ==
  LET from == task[t].status
      l    == task[t].line
  IN  /\ from \notin {"none", to}
      /\ task' = [task EXCEPT ![t].status = to]
      /\ line' = IF l # NoLine /\ (to = "done" \/ (from = "done" /\ to # "omitted"))
                 THEN [line EXCEPT ![l] = Performs(@, to = "done")] ELSE line

\* A mutant: only a step that was done puts the car back on the lift.
ReopensDone(t, to) == task[t].status = "done" /\ to \in {"pending", "blocked"}
Reopens(t, to) == ReopensDone(t, to) \/ (task[t].status = "omitted" /\ to # "done")

MoveTask(t, to) ==
  /\ AcceptsWork /\ MovesOnList(t, to)
  /\ IF Reopens(t, to) THEN backOnTheLift ELSE UNCHANGED state
  /\ UNCHANGED away /\ OnTasks

-----------------------------------------------------------------------------
(* Parts: asked for, waited for, taken out.                                *)

OnParts == UNCHANGED <<line, task, quotes, clock, starting, away>>

RequestPart(r) ==
  /\ request[r] = "none"
  /\ request' = [request EXCEPT ![r] = "waiting"]
  /\ IF CanTransition("awaiting_parts") THEN Moves("awaiting_parts", line) ELSE UNCHANGED <<state, line, takenBack>>
  /\ UNCHANGED <<task, quotes, arriving, clock, starting, fitted, away>>

\* ReceivePart or CancelPartRequest, until it waits for the job's row: what
\* another of them has not committed is still waited for.
EndRequest(r, end) ==
  /\ request[r] = "waiting" /\ arriving[r] = NoEnd
  /\ arriving' = [arriving EXCEPT ![r] =
       [end |-> end, resume |-> state = "awaiting_parts" /\ \A q \in Orders \ {r} : request[q] # "waiting"]]
  /\ UNCHANGED <<state, takenBack, request, fitted>> /\ OnParts

\* Refused where work cannot resume: the end is rolled back.
CommitEnd(r) ==
  LET a == arriving[r] IN
  /\ a # NoEnd
  /\ arriving' = [arriving EXCEPT ![r] = NoEnd]
  /\ IF a.resume /\ state # "in_progress" /\ ~CanTransition("in_progress")
     THEN UNCHANGED <<state, request>>
     ELSE /\ request' = [request EXCEPT ![r] = a.end]
          /\ state' = IF a.resume THEN "in_progress" ELSE state
  /\ UNCHANGED <<takenBack, fitted>> /\ OnParts

TakeOut ==
  /\ AcceptsWork /\ ~fitted.now
  /\ fitted' = [now |-> TRUE, ever |-> TRUE]
  /\ UNCHANGED <<state, takenBack, request, arriving>> /\ OnParts

PutBack ==
  /\ AcceptsWork /\ fitted.now
  /\ fitted' = [fitted EXCEPT !.now = FALSE]
  /\ UNCHANGED <<state, takenBack, request, arriving>> /\ OnParts

-----------------------------------------------------------------------------
(* Clocks.                                                                 *)

OnClocks == UNCHANGED <<line, task, quotes, takenBack, request, arriving, fitted, away>>

\* ClockIn reads the state without the row's lock.
ReadToClockIn(m) ==
  /\ AcceptsWork /\ starting[m] = "none"
  /\ starting' = [starting EXCEPT ![m] = state]
  /\ UNCHANGED <<state, clock>> /\ OnClocks

\* The entry is written, and a job agreed or waiting is moved on; a job that
\* cannot be takes the entry with it.
ClockIn(m) ==
  LET moves == starting[m] \in {"approved", "awaiting_parts"} IN
  /\ starting[m] # "none"
  /\ starting' = [starting EXCEPT ![m] = "none"]
  /\ IF moves /\ state # "in_progress" /\ ~CanTransition("in_progress")
     THEN UNCHANGED <<state, clock>>
     ELSE /\ clock' = [clock EXCEPT ![m] = "running"]
          /\ state' = IF moves THEN "in_progress" ELSE state
  /\ OnClocks

ClockOut(m) ==
  /\ clock[m] = "running"
  /\ clock' = Stopped(m)
  /\ UNCHANGED <<state, starting>> /\ OnClocks

-----------------------------------------------------------------------------
(* Work at a supplier.                                                     *)

outsourcedMoves ==
  {<<"requested", "sent">>, <<"requested", "cancelled">>,
   <<"sent", "returned">>, <<"sent", "cancelled">>,
   <<"returned", "checked">>, <<"returned", "check_failed">>,
   <<"check_failed", "sent">>, <<"check_failed", "cancelled">>,
   <<"checked", "check_failed">>}

RequestOutsourced(l, required) ==
  /\ AcceptsWork /\ away.status = "none"
  /\ l # NoLine => line[l].there
  /\ away' = [status |-> "requested", line |-> l, required |-> required]
  /\ UNCHANGED <<state, line, task>> /\ OnTasks

\* followOutsourcedTaskTx: what the first open step of the line follows to.
Follows(t, kind) ==
  CASE kind = "sent"                                            -> "blocked"
    [] kind = "checked"                                         -> "done"
    [] kind = "cancelled" /\ task[t].status = "blocked"         -> "pending"
    [] OTHER                                                    -> task[t].status

\* Whatever state the job is in.
RecordOutsourced(kind) ==
  /\ <<away.status, kind>> \in outsourcedMoves
  /\ away' = [away EXCEPT !.status = kind]
  /\ LET open == {t \in Tasks : Undone(t) /\ away.line # NoLine /\ task[t].line = away.line}
     IN  IF open = {} THEN UNCHANGED <<line, task>>
         ELSE \E t \in open : IF Follows(t, kind) = task[t].status THEN UNCHANGED <<line, task>>
                                ELSE MovesOnList(t, Follows(t, kind))
  /\ UNCHANGED state /\ OnTasks

-----------------------------------------------------------------------------
StateMoves == (\E to \in States : SetState(to)) \/ (\E to \in States : Bill(to))
LineChanges == \E l \in Lines :
  \/ \E kind \in {"labour", "part"}, price \in 1 .. MaxPrice : AddLine(l, kind, price)
  \/ \E price \in 1 .. MaxPrice : EditLine(l, price)
  \/ WithdrawLine(l) \/ MarkPerformed(l) \/ UnmarkPerformed(l)
Declines    == \E ls \in SUBSET Lines : Decline(ls)
QuoteSteps  == PresentQuote \/ AnswerYes \/ AnswerNo
TaskSteps   ==
  \/ \E t \in Tasks, l \in Lines \cup {NoLine} : AddTask(t, l)
  \/ TasksFromLines
  \/ \E t \in Tasks, to \in {"pending", "blocked", "done", "omitted"} : MoveTask(t, to)
PartSteps   ==
  \/ \E r \in Orders : RequestPart(r) \/ CommitEnd(r) \/ EndRequest(r, "arrived") \/ EndRequest(r, "cancelled")
  \/ TakeOut \/ PutBack
ClockSteps  == \E m \in Mechanics : ReadToClockIn(m) \/ ClockIn(m) \/ ClockOut(m)
SupplierSteps ==
  \/ \E l \in Lines \cup {NoLine}, required \in BOOLEAN : RequestOutsourced(l, required)
  \/ \E kind \in {"sent", "returned", "checked", "check_failed", "cancelled"} : RecordOutsourced(kind)

NextWork == StateMoves \/ LineChanges \/ Declines \/ QuoteSteps \/ TaskSteps \/ PartSteps \/ ClockSteps \/ SupplierSteps

-----------------------------------------------------------------------------
(* What holds of a job.                                                    *)

WorkTypeOK ==
  /\ state \in States
  /\ line \in [Lines -> Entry]
  /\ task \in [Tasks -> [status : {"none", "pending", "blocked", "done", "omitted"}, line : Lines \cup {NoLine}]]
  /\ Len(quotes) <= MaxQuotes /\ takenBack \in BOOLEAN
  /\ request \in [Orders -> {"none", "waiting", "arrived", "cancelled"}]
  /\ arriving \in [Orders -> [end : {"none", "arrived", "cancelled"}, resume : BOOLEAN]]
  /\ clock \in [Mechanics -> {"never", "running", "stopped"}]
  /\ starting \in [Mechanics -> States \cup {"none"}]
  /\ fitted \in [now : BOOLEAN, ever : BOOLEAN]
  /\ away.status \in {"none", "requested", "sent", "returned", "checked", "check_failed", "cancelled"}
  /\ away.line \in Lines \cup {NoLine} /\ away.required \in BOOLEAN

\* "yes" is a yes to the copy the customer was shown (quotes.go): a line that
\* is approved was in the quote whose yes approves it, and costs no more than
\* it said there, whatever was corrected, presented again, declined and agreed
\* to after all in between.
AgreedAsQuoted ==
  \A l \in Lines : line[l].yes # 0 =>
    LET q == quotes[line[l].yes] IN l \in DOMAIN q.price /\ line[l].price <= q.price[l]

\* "a job that says ready with work open is the lie this list exists to stop"
\* (backOnTheLiftTx).  These are the ways it is told all the same, and there is
\* no other: the customer says yes to a line they had turned down
\* (quotes.go:621), or the performed mark is taken off one (performed.go:57),
\* which opens that line's steps and no others; and a supplier is asked for
\* work that is required (outsourced.go:264), or what was accepted from them
\* fails its check after all (outsourced.go:383).
NewWorkIsNotReady ==
  [][state = "ready" /\ state' = "ready" =>
       /\ \A t \in Tasks : ~Outstanding(t) /\ Outstanding(t)' =>
            LET l == task[t].line IN l # NoLine /\ line[l].declined /\ (AnswerYes \/ UnmarkPerformed(l))
       /\ ~Unresolved /\ Unresolved' =>
            \/ \E l \in Lines \cup {NoLine} : RequestOutsourced(l, TRUE)
            \/ RecordOutsourced("check_failed")]_workvars

\* Cancelling "would lose the work" is refused (setStateTx), and work on a
\* cancelled job too: it has no part taken out to it, and nothing performed,
\* but for what a supplier was asked to do.  A time entry, which is work to
\* setStateTx too, is not among it: a ClockIn that read the state before the job
\* was cancelled writes one after (queries.go:375).
NothingDoneIsCancelled ==
  state = "cancelled" =>
    /\ ~fitted.now
    /\ \A l \in Lines : line[l].performed => l = away.line

\* Both: what is to be billed was agreed to, and what was done can be billed.
WorkStands == AgreedAsQuoted /\ NothingDoneIsCancelled
=============================================================================
