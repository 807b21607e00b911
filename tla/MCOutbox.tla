------------------------------ MODULE MCOutbox ------------------------------
(***************************************************************************)
(* What leaves the shop by sendLoop, on small instances: the calls of      *)
(* Outbox, and Messages about a booking, a job or an invoice.  A run looks *)
(* at each for itself; nothing is taken as alike, since liveness is        *)
(* checked.                                                                *)
(***************************************************************************)
EXTENDS Outbox, Messages

CONSTANT Shown   \* the parts a run looks at

VARIABLE part

sendvars == <<part, vars, tellvars>>

Asked   == {d \in Desks : desk[d].at # "idle"}
\* One message, queued by one desk.
OneDesk == \A d \in Asked : d = CHOOSE e \in Desks : TRUE
OnlyOne == OneDesk /\ Len(message) + Cardinality(Asked) <= 1 /\ \A d \in Asked : ~desk[d].new.again
OneTurn == \A s \in Senders : sender[s] # NotSending => s = CHOOSE t \in Senders : TRUE
AtOnce  == OneDesk /\ \A d \in Asked : desk[d].new.wish = 0 /\ desk[d].new.again
Awake   == \A d \in Asked : desk[d].new.wish <= hour
\* Nothing fails, and no provider reports.
Smooth == /\ faults = 0 /\ booking.status = "booked"
          /\ \A m \in Queued : \A c \in DOMAIN copies[m] : ~copies[m][c].reported
Calm  == booking.status = "booked" /\ booking.starts = LastHour
Quiet == invoice.owed /\ ~invoice.disputed
About == {message[m].about : m \in Queued} \cup {desk[d].new.about : d \in Asked}

\* How far each part goes.
Fits ==
  CASE part = "bookings" -> OnlyOne /\ OneTurn /\ Awake /\ Quiet /\ About \subseteq OfBooking
    [] part = "desks"    -> Awake /\ Quiet /\ About \subseteq {"booking_confirm", "booking_moved"}
    [] part = "batch"    -> Quiet /\ Calm /\ Smooth /\ AtOnce /\ OneTurn /\ About \subseteq {"ready"}
    [] part = "reminder" -> OnlyOne /\ OneTurn /\ Calm /\ Quiet /\ About \subseteq {"booking_reminder"}
    [] part = "invoices" -> OnlyOne /\ Calm /\ About \subseteq {"ready", "reminder"}
    [] OTHER             -> TRUE

\* Where the calls are looked at the clock has run out, since it is fair.
InitSend == /\ Init /\ InitMessages /\ part \in Shown /\ Fits
            /\ hour = IF part = "calls" THEN LastHour ELSE 0

OnCalls    == part = "calls" /\ UNCHANGED <<part, tellvars>>
OnMessages == part # "calls" /\ UNCHANGED <<part, vars>>

NextSend ==
  \/ OnCalls /\ Next
  \/ OnMessages /\ SubjectSteps /\ Fits'
  \/ OnMessages /\ DeskSteps /\ Fits'
  \/ OnMessages /\ part # "desks" /\ Sending /\ Fits'
  \/ OnMessages /\ OutsideSteps /\ Fits'

SpecSend == InitSend /\ [][NextSend]_sendvars /\ Fairness /\ FairMessages
=============================================================================
