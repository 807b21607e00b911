------------------------------ MODULE Messages ------------------------------
(***************************************************************************)
(* Messages to customers (messages.go, booking_messages.go, followup.go,   *)
(* handlers_messages.go): a message is a row, where it stands is the last  *)
(* of its events, and the two goroutines that send (the tick, and the one  *)
(* started after something was queued) take turns.                         *)
(*                                                                         *)
(* One booking, one invoice and one job are told about.  Times are whole   *)
(* numbers: when a message may go, when the booking starts.  A message     *)
(* that is tried again rests first, for as long as it likes.  Links, what  *)
(* a message says and who may send it are left out.                        *)
(***************************************************************************)
EXTENDS Naturals, Sequences, FiniteSets

CONSTANTS
  Desks,       \* people at a page with a message to queue
  Senders,     \* goroutines that can be in sendDue
  MaxMessages, \* bound: messages queued in all
  MaxTries,    \* maxTries
  LastHour,    \* bound: the last of the times
  MaxFaults    \* bound: how often the process dies or the database fails it

ASSUME TriesAreMade    == MaxTries \in Nat \ {0}
ASSUME HoursAreCounted == LastHour \in Nat

VARIABLES
  hour,     \* what the clock says
  booking,  \* [status, starts]
  invoice,  \* [owed, disputed]
  message,  \* the messages, in the order they were queued
  log,      \* the events of each, in order
  resting,  \* those whose next try is not due
  copies,   \* what the provider took of each: [known: the shop wrote it down, reported]
  desk,     \* [Desks -> what each has asked about and not queued yet]
  sender,   \* [Senders -> what each is doing]
  faults

tellvars == <<hour, booking, invoice, message, log, resting, copies, desk, sender, faults>>
rows     == <<message, log, resting, copies>>
subjects == <<hour, booking, invoice>>

OfBooking == {"booking_confirm", "booking_reminder", "booking_moved", "booking_cancelled"}
Kept      == {"booking_moved", "booking_cancelled"}
Hours     == 0..LastHour
Queued    == DOMAIN message

Last(m)     == log[m][Len(log[m])]
Had(m, e)   == \E i \in DOMAIN log[m] : log[m][i] = e
Tries(m)    == Cardinality({i \in DOMAIN log[m] : log[m][i] = "retry"})
Waiting(m)  == Last(m) \in {"queued", "retry"}
NoDesk      == [at |-> "idle"]
NotSending  == [at |-> "idle"]
Event(m, e) == log' = [log EXCEPT ![m] = Append(@, e)]

InitMessages ==
  /\ hour \in Hours
  /\ booking \in [status : {"booked"}, starts : 1..LastHour]
  /\ invoice = [owed |-> TRUE, disputed |-> FALSE]
  /\ message = <<>> /\ log = <<>> /\ resting = {} /\ copies = <<>>
  /\ desk = [d \in Desks |-> NoDesk]
  /\ sender = [s \in Senders |-> NotSending]
  /\ faults = 0

-----------------------------------------------------------------------------
(* What the messages are about.                                            *)

\* stopPendingBookingMessagesTx: a confirmation or a reminder that waits.
ToStop == {m \in Queued : message[m].about \in OfBooking \ Kept /\ Waiting(m)}
Stop   == log' = [m \in Queued |-> IF m \in ToStop THEN Append(log[m], "cancelled") ELSE log[m]]

\* QueueBookingMessage has the booking FOR UPDATE.
Held == \E d \in Desks : desk[d].at = "booking"

BookingChanges(b) ==
  /\ ~Held
  /\ booking' = b /\ Stop
  /\ UNCHANGED <<hour, invoice, message, resting, copies, desk, sender, faults>>

\* MoveBooking, to another time or another technician.
MoveBooking == booking.status = "booked" /\ \E t \in Hours : BookingChanges([booking EXCEPT !.starts = t])

\* CancelBooking, BookingNoShow.
CloseBooking ==
  booking.status = "booked" /\ \E s \in {"cancelled", "no_show"} : BookingChanges([booking EXCEPT !.status = s])

\* TakeInBooking.
TakeInBooking == booking.status = "booked" /\ BookingChanges([booking EXCEPT !.status = "arrived"])

CorrectBookingContact == BookingChanges(booking)

\* Paid, or the payment undone.
Settle ==
  /\ invoice' = [invoice EXCEPT !.owed = ~@]
  /\ UNCHANGED <<hour, booking, rows, desk, sender, faults>>

\* Dispute, ResolveDispute.
Dispute ==
  /\ invoice' = [invoice EXCEPT !.disputed = ~@]
  /\ UNCHANGED <<hour, booking, rows, desk, sender, faults>>

Clock == hour < LastHour /\ hour' = hour + 1 /\ UNCHANGED <<booking, invoice, rows, desk, sender, faults>>

-----------------------------------------------------------------------------
(* Queueing.                                                               *)

Room == Len(message) + Cardinality({d \in Desks : desk[d].at # "idle"}) < MaxMessages

Put(m) ==
  /\ message' = Append(message, m)
  /\ log' = Append(log, <<"queued">>)
  /\ copies' = Append(copies, <<>>)
  /\ UNCHANGED resting

\* SendHours.NotBefore: at once, or when the shop's hours begin again.
Within(t) == {u \in Hours : u - t \in {0, 1}}

\* The day before at the same hour, if that has not gone; a day is one hour here.
DayBefore == IF booking.starts - 1 < hour THEN hour ELSE booking.starts - 1

\* The same for the same time, not known to have failed or been stopped.
SaidAlready(about, starts) ==
  \E m \in Queued : message[m].about = about /\ message[m].for = starts /\ ~Had(m, "failed") /\ ~Had(m, "cancelled")

Says(about, wish, again) == [about |-> about, says |-> 0, for |-> 0, wish |-> wish, from |-> wish, again |-> again]

\* handleBookingMessage, until it queues: what the message says, and when it is to go.
Compose(d) ==
  /\ desk[d] = NoDesk /\ Room
  /\ \E about \in OfBooking, again \in BOOLEAN :
     \E wish \in IF about = "booking_reminder" THEN {u \in Within(DayBefore) : u < booking.starts} ELSE Within(hour) :
       desk' = [desk EXCEPT ![d] = [at |-> "composed", new |-> [Says(about, wish, again) EXCEPT !.says = booking.starts]]]
  /\ UNCHANGED <<subjects, rows, sender, faults>>

MayQueue(m) ==
  /\ IF m.about = "booking_cancelled" THEN booking.status = "cancelled"
     ELSE booking.status = "booked" /\ booking.starts > hour
  /\ m.again \/ ~SaidAlready(m.about, booking.starts)

\* not: "if it is given, now".
Sooner(wish) == hour

\* QueueBookingMessage, as far as the questions.
AskAboutBooking(d) ==
  /\ desk[d].at = "composed" /\ ~Held
  /\ LET new == desk[d].new
     IN  desk' = [desk EXCEPT ![d] =
           IF MayQueue(new) THEN [at |-> "booking", new |-> [new EXCEPT !.for = booking.starts, !.from = Sooner(new.wish)]]
           ELSE NoDesk]
  /\ UNCHANGED <<subjects, rows, sender, faults>>

\* handleSendMessage, as far as AlreadySent; no lock is held after it.
AskAboutJob(d) ==
  /\ desk[d] = NoDesk /\ Room
  /\ \E again \in BOOLEAN, wish \in Within(hour) :
       /\ again \/ ~\E m \in Queued : message[m].about = "ready" /\ ~Had(m, "failed")
       /\ desk' = [desk EXCEPT ![d] = [at |-> "asked", new |-> Says("ready", wish, again)]]
  /\ UNCHANGED <<subjects, rows, sender, faults>>

\* The end of QueueBookingMessage; QueueMessage.
QueueMessage(d) ==
  /\ desk[d].at \in {"booking", "asked"}
  /\ Put(desk[d].new)
  /\ desk' = [desk EXCEPT ![d] = NoDesk]
  /\ UNCHANGED <<subjects, sender, faults>>

\* QueueReminder: the balance is locked until it is queued.
QueueReminder(d) ==
  /\ desk[d] = NoDesk /\ Room
  /\ invoice.owed /\ ~invoice.disputed
  /\ \E wish \in Within(hour) : Put([Says("reminder", wish, TRUE) EXCEPT !.from = Sooner(wish)])
  /\ UNCHANGED <<subjects, desk, sender, faults>>

-----------------------------------------------------------------------------
(* Sending.                                                                *)

\* A mutant: a message that was refused once is not looked at again.
DueOnce(m) == message[m].from <= hour /\ Last(m) = "queued"
\* DueMessages.
DueMessage(m) == message[m].from <= hour /\ Waiting(m) /\ m \notin resting

\* A mutant: no mutex.
AnyTurn(s) == TRUE
\* sendingMu.
MyTurn(s) == \A t \in Senders : sender[t] = NotSending

InOrder(M) == CHOOSE q \in [1..Cardinality(M) -> M] : \A i, j \in DOMAIN q : i < j => q[i] < q[j]

Begin(s) ==
  /\ sender[s] = NotSending /\ MyTurn(s)
  /\ LET M == {m \in Queued : DueMessage(m)}
         q == InOrder(M)
     IN  /\ M # {}
         /\ sender' = [sender EXCEPT ![s] = [at |-> "next", batch |-> [i \in DOMAIN q |-> [id |-> q[i], tries |-> Tries(q[i])]]]]
  /\ UNCHANGED <<subjects, rows, desk, faults>>

Hand(s)     == Head(sender[s].batch).id
Becomes(s, at) == sender' = [sender EXCEPT ![s].at = at]
GoOn(s) ==
  sender' = [sender EXCEPT ![s] = IF Len(@.batch) = 1 THEN NotSending ELSE [at |-> "next", batch |-> Tail(@.batch)]]
Fault  == faults < MaxFaults /\ faults' = faults + 1

\* BookingMessageStillWanted, StillOwed.
Wanted(m) ==
  CASE message[m].about = "ready"             -> TRUE
    [] message[m].about = "reminder"          -> invoice.owed /\ ~invoice.disputed
    [] message[m].about = "booking_cancelled" -> booking.status = "cancelled"
    [] OTHER -> booking.status = "booked" /\ booking.starts = message[m].for /\ booking.starts > hour

\* Asked again as it is about to go.  If it cannot be asked it waits.
AskAgain(s) ==
  /\ sender[s].at = "next"
  /\ \/ Becomes(s, IF Wanted(Hand(s)) THEN "send" ELSE "cancel") /\ UNCHANGED faults
     \/ message[Hand(s)].about # "ready" /\ Fault /\ GoOn(s)   \* it could not be asked
  /\ UNCHANGED <<subjects, rows, desk>>

\* MessageCancelled.
StopSending(s) ==
  /\ sender[s].at = "cancel"
  /\ \/ Event(Hand(s), "cancelled") /\ UNCHANGED faults
     \/ Fault /\ UNCHANGED log
  /\ GoOn(s)
  /\ UNCHANGED <<subjects, message, resting, copies, desk>>

\* The provider takes it, and says so or is not heard; or refuses; or there is none.
Send(s) ==
  /\ sender[s].at = "send"
  /\ \/ /\ \E answer \in {"taken", "refused"} : Becomes(s, answer)
        /\ copies' = [copies EXCEPT ![Hand(s)] = Append(@, [by |-> s, known |-> FALSE, reported |-> FALSE])]
     \/ (\E answer \in {"refused", "no provider"} : Becomes(s, answer)) /\ UNCHANGED copies
  /\ UNCHANGED <<subjects, message, log, resting, desk, faults>>

\* The copy whose id the provider answered with.
LastBy(s) == CHOOSE c \in DOMAIN copies[Hand(s)] :
               /\ copies[Hand(s)][c].by = s
               /\ \A d \in DOMAIN copies[Hand(s)] : copies[Hand(s)][d].by = s => d <= c

\* MessageSent: and the customer was told.
MessageSent(s) ==
  /\ sender[s].at = "taken"
  /\ \/ /\ Event(Hand(s), "sent")
        /\ copies' = [copies EXCEPT ![Hand(s)][LastBy(s)].known = TRUE]
        /\ UNCHANGED faults
     \/ Fault /\ UNCHANGED <<log, copies>>
  /\ GoOn(s)
  /\ UNCHANGED <<subjects, message, resting, desk>>

GivenUp(tries) == tries + 1 >= MaxTries

\* MessageNotSent.
MessageNotSent(s) ==
  /\ sender[s].at \in {"refused", "no provider"}
  /\ \/ /\ IF sender[s].at = "no provider" \/ GivenUp(Head(sender[s].batch).tries)
           THEN Event(Hand(s), "failed") /\ UNCHANGED resting
           ELSE Event(Hand(s), "retry") /\ resting' = resting \cup {Hand(s)}
        /\ UNCHANGED faults
     \/ Fault /\ UNCHANGED <<log, resting>>
  /\ GoOn(s)
  /\ UNCHANGED <<subjects, message, copies, desk>>

\* A minute, then two, then four.
Rested ==
  \E m \in resting : resting' = resting \ {m} /\ UNCHANGED <<subjects, message, log, copies, desk, sender, faults>>

\* handleElksDelivered, MessageDelivery: of a copy nobody has written down
\* nothing is recorded, and the provider is told that all is well.
Report ==
  \E m \in Queued : \E c \in DOMAIN copies[m], e \in {"delivered", "failed"} :
    /\ ~copies[m][c].reported
    /\ copies' = [copies EXCEPT ![m][c].reported = TRUE]
    /\ IF copies[m][c].known THEN Event(m, e) ELSE UNCHANGED log
    /\ UNCHANGED <<subjects, message, resting, desk, sender, faults>>

\* The process dies and is started again; what a desk was writing is not written.
Restart ==
  /\ Fault
  /\ sender' = [s \in Senders |-> NotSending] /\ desk' = [d \in Desks |-> NoDesk]
  /\ UNCHANGED <<subjects, rows>>

SubjectSteps == MoveBooking \/ CloseBooking \/ TakeInBooking \/ CorrectBookingContact \/ Settle \/ Dispute \/ Clock
DeskSteps    == \E d \in Desks : Compose(d) \/ AskAboutBooking(d) \/ AskAboutJob(d) \/ QueueMessage(d) \/ QueueReminder(d)
SendSteps(s) == Begin(s) \/ AskAgain(s) \/ StopSending(s) \/ Send(s) \/ MessageSent(s) \/ MessageNotSent(s)
Sending      == \E s \in Senders : SendSteps(s)
OutsideSteps == Rested \/ Report \/ Restart

NextMessages == SubjectSteps \/ DeskSteps \/ Sending \/ OutsideSteps

\* sendLoop looks every sendEvery for as long as the process lives, goroutines
\* get their turn, a provider answers or times out, and time passes.
FairMessages ==
  /\ \A s \in Senders : WF_tellvars(SendSteps(s))
  /\ WF_tellvars(Rested) /\ WF_tellvars(Clock)

-----------------------------------------------------------------------------
(* What is promised.                                                       *)

\* handlers_messages.go:36-41: a message is handed over again only if that it
\* was handed over could not be written down, whichever goroutines send.
HandedOverOnce == \A m \in Queued : \A c \in DOMAIN copies[m] : copies[m][c].known => c = Len(copies[m])

\* "Writing sent first would lose messages": one that says sent, or delivered,
\* was taken by the provider.
SentWasTaken == \A m \in Queued : Had(m, "sent") \/ Had(m, "delivered") => copies[m] # <<>>

\* booking_messages.go:47-50: of two messages that say the same about the same
\* time of a booking, and neither of which failed or was stopped, somebody said
\* of the later that it should go as well -- whoever else was queueing, or
\* moving the booking.
OncePerTime ==
  \A m, n \in Queued :
    /\ m < n /\ message[m].about \in OfBooking
    /\ message[m].about = message[n].about /\ message[m].for = message[n].for
    /\ \A k \in {m, n} : ~Had(k, "failed") /\ ~Had(k, "cancelled")
    => message[n].again

MessagesAreTrue == HandedOverOnce /\ SentWasTaken /\ OncePerTime

\* Every message queued goes, fails or is stopped, whatever happens to what it
\* is about, and though the process dies and providers refuse.
EveryMessageSettles ==
  \A m \in 1..MaxMessages : m \in Queued /\ Waiting(m) ~> m \in Queued /\ ~Waiting(m)
-----------------------------------------------------------------------------
(* What is said and is not so.                                             *)

\* messages.go:37-39, "A message queued outside them waits"; handlers_booking_
\* messages.go:90, "A reminder goes the day before, inside the hours the shop
\* sends in": no message is handed over before the hour it was queued for.
NotBeforeItsHour == \A m \in Queued : copies[m] # <<>> => hour >= message[m].wish

\* handlers_messages.go:81, "A booking message is for the booking as it was
\* when it was written": the time it names is the one it is sent for.
SaysItsTime == \A m \in Queued : message[m].about \in OfBooking => message[m].says = message[m].for
=============================================================================
