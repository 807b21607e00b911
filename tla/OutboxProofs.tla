---------------------------- MODULE OutboxProofs ----------------------------
(* That one worker at a time has a call, and that what is settled stays so *)
(* until somebody asks, for any number of calls, workers and leases.  Then *)
(* that a message to a customer is handed over once and says what is so,   *)
(* for any number of desks, senders and messages.                          *)
EXTENDS Outbox, Messages, SequenceTheorems, FiniteSetTheorems, WellFoundedInduction, TLAPS

\* No two workers were given the same lease.
LeasesDiffer ==
  \A v, w \in Owning : worker[v].lease = worker[w].lease => v = w

\* A lease that still runs is still the row's: nobody takes it from its worker.
RunningIsHeld ==
  \A w \in Owning : worker[w].lease \in running => Ours(w)

\* While a worker's lease is the row's, the call is under way or cancelled:
\* nobody else makes an end of it.
HeldIsUnderWay ==
  \A w \in Owning : Ours(w) => state[worker[w].call] \in Open \cup {"cancelled"}

IInv == TypeOK /\ LeasesDiffer /\ RunningIsHeld /\ HeldIsUnderWay

-----------------------------------------------------------------------------
(* The shape of what a worker is doing.                                    *)

\* A worker that owns a call has a lease, a call and an attempt; one that
\* looked has a call and an attempt.
LEMMA Working ==
  ASSUME TypeOK, NEW w \in Workers
  PROVE  /\ worker[w].at \in {"idle", "looked", "claimed", "sending"}
         /\ worker[w].at = "looked" =>
              /\ worker[w].call \in Calls /\ worker[w].attempt \in 1..(MaxAttempts + 1)
         /\ worker[w].at \in {"claimed", "sending"} =>
              /\ worker[w].call \in Calls /\ worker[w].lease \in Leases
              /\ worker[w].attempt \in 1..(MaxAttempts + 1)
              /\ worker[w] \in [at : {"claimed", "sending"}, call : Calls, lease : Leases,
                                attempt : 1..(MaxAttempts + 1)]
  <1>1. worker[w] \in Doing
    BY DEF TypeOK
  <1> QED
    BY <1>1 DEF Doing, Idle

\* People change where a call stands and not who has it.
LEMMA PeopleKeepWorkers ==
  ASSUME IInv, NEW c \in Calls, Ask(c) \/ Cancel(c) \/ Retry(c) \/ FinishByHand(c)
  PROVE  IInv'
  <1>1. /\ worker' = worker /\ running' = running /\ crashes' = crashes
        /\ Owning' = Owning
    BY DEF Ask, Cancel, Retry, FinishByHand, Owning
  <1>2. TypeOK'
    BY <1>1, AttemptsAreMade DEF IInv, TypeOK, Ask, Cancel, Retry, FinishByHand, Queue, Open, Stuck, Done
  <1>3. \A d \in Calls : /\ d # c => state'[d] = state[d] /\ claimed'[d] = claimed[d]
                         /\ claimed'[d] # claimed[d] => state[d] \in Stuck
    BY DEF IInv, TypeOK, Ask, Cancel, Retry, FinishByHand, Queue
  <1>4. \A w \in Owning : worker[w].call \in Calls /\ worker[w].lease \in Leases
    BY Working DEF IInv, Owning
  <1>5. \A d \in Calls : \/ state'[d] = state[d]
                         \/ state'[d] \in {"queued", "cancelled"}
                         \/ state[d] \in Stuck
    BY DEF IInv, TypeOK, Ask, Cancel, Retry, FinishByHand, Queue
  <1>6. \A w \in Owning : Ours(w)' <=> Ours(w)
    <2> SUFFICES ASSUME NEW w \in Owning PROVE Ours(w)' <=> Ours(w)
      OBVIOUS
    <2>1. CASE claimed'[worker[w].call] = claimed[worker[w].call]
      BY <2>1, <1>1 DEF Ours
    <2>2. CASE claimed'[worker[w].call] # claimed[worker[w].call]
      <3>1. state[worker[w].call] \in Stuck
        BY <2>2, <1>3, <1>4
      <3>2. ~Ours(w)
        BY <3>1 DEF IInv, HeldIsUnderWay, Open, Stuck
      <3>3. claimed'[worker[w].call] = None
        BY <2>2, <1>3, <1>4 DEF IInv, TypeOK, Ask, Cancel, Retry, FinishByHand
      <3> QED
        BY <3>2, <3>3, <1>1, <1>4, NoneIsNoLease DEF Ours
    <2> QED
      BY <2>1, <2>2
  <1>7. LeasesDiffer' /\ RunningIsHeld'
    BY <1>1, <1>6 DEF IInv, LeasesDiffer, RunningIsHeld
  <1>8. HeldIsUnderWay'
    <2> SUFFICES ASSUME NEW w \in Owning, Ours(w)
                 PROVE  state'[worker[w].call] \in Open \cup {"cancelled"}
      BY <1>1, <1>6 DEF HeldIsUnderWay
    <2>1. state[worker[w].call] \in Open \cup {"cancelled"}
      BY DEF IInv, HeldIsUnderWay
    <2> QED
      BY <2>1, <1>4, <1>5 DEF Open, Stuck
  <1> QED
    BY <1>2, <1>7, <1>8 DEF IInv

-----------------------------------------------------------------------------
(* What workers do.                                                        *)

\* A worker whose step ends with it idle leaves the other workers, and what
\* they hold, as they were, if it gives up no lease but its own.
LEMMA LettingGo ==
  ASSUME IInv, TypeOK', NEW w \in Workers,
         worker' = [worker EXCEPT ![w] = Idle], running' = running,
         \/ claimed' = claimed /\ state' = state
         \/ /\ w \in Owning /\ Ours(w)
            /\ claimed' = [claimed EXCEPT ![worker[w].call] = None]
            /\ \A d \in Calls : d # worker[w].call => state'[d] = state[d]
  PROVE  IInv'
  <1>1. \A v \in Owning' : v \in Owning /\ v # w /\ worker'[v] = worker[v]
    BY DEF IInv, TypeOK, Owning, Idle
  <1>2. LeasesDiffer'
    BY <1>1 DEF IInv, LeasesDiffer
  <1>3. CASE claimed' = claimed /\ state' = state
    BY <1>1, <1>2, <1>3 DEF IInv, RunningIsHeld, HeldIsUnderWay, Ours
  <1>4. CASE /\ w \in Owning /\ Ours(w)
             /\ claimed' = [claimed EXCEPT ![worker[w].call] = None]
             /\ \A d \in Calls : d # worker[w].call => state'[d] = state[d]
    <2>1. \A v \in Owning : worker[v].call \in Calls /\ worker[v].lease \in Leases
      BY Working DEF IInv, Owning
    <2>2. \A v \in Owning' : Ours(v) => worker[v].call # worker[w].call
      BY <1>1, <1>4 DEF IInv, LeasesDiffer, Ours
    <2>3. \A v \in Owning' : Ours(v)' => Ours(v)
      BY <1>1, <1>4, <2>1, NoneIsNoLease DEF IInv, TypeOK, Ours
    <2>4. \A v \in Owning' : Ours(v) => Ours(v)' /\ state'[worker[v].call] = state[worker[v].call]
      BY <1>1, <1>4, <2>1, <2>2 DEF IInv, TypeOK, Ours
    <2>5. RunningIsHeld'
      BY <1>1, <2>4 DEF IInv, RunningIsHeld
    <2>6. HeldIsUnderWay'
      BY <1>1, <2>3, <2>4 DEF IInv, HeldIsUnderWay
    <2> QED
      BY <1>2, <2>5, <2>6 DEF IInv
  <1> QED
    BY <1>2, <1>3, <1>4

LEMMA LookKeeps ==
  ASSUME IInv, NEW w \in Workers, NEW c \in Calls, Look(w, c)
  PROVE  IInv'
  <1>1. [at |-> "looked", call |-> c, attempt |-> attempts[c] + 1] \in Doing
    <2>1. attempts[c] + 1 \in 1..(MaxAttempts + 1)
      BY AttemptsAreMade DEF IInv, TypeOK
    <2> QED
      BY <2>1 DEF Doing
  <1>2. TypeOK'
    BY <1>1 DEF IInv, TypeOK, Look, row
  <1>3. Owning' = Owning /\ \A v \in Owning : worker'[v] = worker[v]
    BY DEF IInv, TypeOK, Look, Owning
  <1> QED
    BY <1>2, <1>3 DEF IInv, LeasesDiffer, RunningIsHeld, HeldIsUnderWay, Ours, Look, row

\* A row that is free has no worker whose lease still runs, and the lease it
\* gets is nobody's.
LEMMA TakeKeeps ==
  ASSUME IInv, NEW w \in Workers, Take(w)
  PROVE  IInv'
  <1> DEFINE c == worker[w].call
  <1>1. c \in Calls /\ worker[w].attempt \in 1..(MaxAttempts + 1)
    BY Working DEF IInv, Take
  <1>2. CASE ~Free(c)
    <2>1. worker' = [worker EXCEPT ![w] = Idle] /\ UNCHANGED <<row, running, crashes>>
      BY <1>2 DEF Take
    <2>2. TypeOK'
      BY <2>1 DEF IInv, TypeOK, row, Doing
    <2> QED
      BY <2>1, <2>2, LettingGo DEF row
  <1>3. CASE Free(c)
    <2>1. PICK l \in Leases :
            /\ \A d \in Calls : claimed[d] # l
            /\ \A v \in Owning : worker[v].lease # l
            /\ claimed' = [claimed EXCEPT ![c] = l] /\ running' = running \cup {l}
            /\ state' = [state EXCEPT ![c] = "attempted"]
            /\ attempts' = [attempts EXCEPT ![c] = IF @ < MaxAttempts THEN @ + 1 ELSE @]
            /\ worker' = [worker EXCEPT ![w] = [at |-> "claimed", call |-> c, lease |-> l,
                                                attempt |-> worker[w].attempt]]
            /\ crashes' = crashes
      BY <1>3 DEF Take
    <2>2. TypeOK'
      <3>1. worker'[w] \in Doing /\ worker' \in [Workers -> Doing]
        BY <1>1, <2>1 DEF IInv, TypeOK, Doing
      <3>2. attempts' \in [Calls -> 0..MaxAttempts]
        BY <1>1, <2>1, AttemptsAreMade DEF IInv, TypeOK
      <3>3. state' \in [Calls -> {"unasked", "cancelled"} \cup Open \cup Stuck \cup Done]
        BY <1>1, <2>1 DEF IInv, TypeOK, Open
      <3> QED
        BY <1>1, <2>1, <3>1, <3>2, <3>3 DEF IInv, TypeOK
    <2>3. worker[w].at = "looked"
      BY DEF Take
    <2>4. /\ Owning' = Owning \cup {w} /\ w \notin Owning
          /\ \A v \in Owning : worker'[v] = worker[v]
          /\ worker'[w].lease = l /\ worker'[w].call = c
      BY <2>1, <2>3 DEF IInv, TypeOK, Owning
    <2>5. LeasesDiffer'
      BY <2>1, <2>4 DEF IInv, LeasesDiffer
    <2>6. \A v \in Owning : worker[v].call \in Calls /\ worker[v].lease \in Leases
      BY Working DEF IInv, Owning
    <2>7. \A v \in Owning : worker[v].lease \in running => worker[v].call # c
      BY <1>3, <2>6, NoneIsNoLease DEF IInv, RunningIsHeld, Ours, Free
    <2>8. Ours(w)' /\ state'[c] \in Open
      BY <1>1, <2>1, <2>4 DEF IInv, TypeOK, Ours, Open
    <2>9. \A v \in Owning : /\ worker[v].call # c => (Ours(v)' <=> Ours(v)) /\ state'[worker[v].call] = state[worker[v].call]
                            /\ worker[v].call = c => ~Ours(v)'
      BY <1>1, <2>1, <2>4, <2>6 DEF IInv, TypeOK, Ours
    <2>10. RunningIsHeld'
      BY <2>1, <2>4, <2>7, <2>8, <2>9 DEF IInv, RunningIsHeld
    <2>11. HeldIsUnderWay'
      BY <2>4, <2>8, <2>9 DEF IInv, HeldIsUnderWay
    <2> QED
      BY <2>2, <2>5, <2>10, <2>11 DEF IInv
  <1> QED
    BY <1>2, <1>3

LEMMA CheckKeeps ==
  ASSUME IInv, NEW w \in Workers, Check(w)
  PROVE  IInv'
  <1> DEFINE c == worker[w].call
  <1> DEFINE live == claimed[c] = worker[w].lease /\ claimed[c] \in running
  <1>1. /\ w \in Owning /\ c \in Calls
        /\ worker[w] \in [at : {"claimed", "sending"}, call : Calls, lease : Leases, attempt : 1..(MaxAttempts + 1)]
    BY Working DEF IInv, Check, Owning
  <1>2. UNCHANGED <<state, attempts, running, crashes>>
    BY DEF Check
  <1>3. CASE live /\ state[c] = "attempted"
    <2>1. worker' = [worker EXCEPT ![w] = [@ EXCEPT !.at = "sending"]] /\ claimed' = claimed
      BY <1>3 DEF Check
    <2>2. worker'[w] \in Doing /\ worker' \in [Workers -> Doing]
      BY <1>1, <2>1 DEF IInv, TypeOK, Doing
    <2>3. /\ Owning' = Owning
          /\ \A v \in Owning : worker'[v].call = worker[v].call /\ worker'[v].lease = worker[v].lease
      BY <1>1, <2>1 DEF IInv, TypeOK, Owning
    <2> QED
      BY <1>2, <2>1, <2>2, <2>3 DEF IInv, TypeOK, LeasesDiffer, RunningIsHeld, HeldIsUnderWay, Ours
  <1>4. CASE ~(live /\ state[c] = "attempted")
    <2>1. /\ worker' = [worker EXCEPT ![w] = Idle]
          /\ claimed' = IF live THEN [claimed EXCEPT ![c] = None] ELSE claimed
      BY <1>4 DEF Check
    <2>2. TypeOK'
      BY <1>1, <1>2, <2>1 DEF IInv, TypeOK, Doing
    <2>3. live => Ours(w)
      BY DEF Ours
    <2> QED
      BY <1>1, <1>2, <2>1, <2>2, <2>3, LettingGo
  <1> QED
    BY <1>3, <1>4

\* What an answer comes to is a state a call can be in, and never one it is
\* still to be queued from.
LEMMA OutcomeIsAState ==
  ASSUME TypeOK, NEW c \in Calls, NEW answer \in Answers, NEW attempt
  PROVE  Outcome(c, answer, attempt) \in {"unasked", "cancelled"} \cup Open \cup Stuck \cup Done
  BY DEF TypeOK, Outcome, ComesTo, Answers, Open, Stuck, Done

LEMMA FinishKeeps ==
  ASSUME IInv, NEW w \in Workers, Finish(w)
  PROVE  IInv'
  <1>1. w \in Owning /\ worker[w].call \in Calls
    BY Working DEF IInv, Finish, Owning
  <1>2. worker' = [worker EXCEPT ![w] = Idle] /\ running' = running /\ crashes' = crashes
    BY DEF Finish
  <1>3. worker' \in [Workers -> Doing]
    BY <1>2 DEF IInv, TypeOK, Doing
  <1>4. CASE ~Ours(w)
    <2>1. UNCHANGED row
      BY <1>4 DEF Finish
    <2>2. TypeOK'
      BY <1>2, <1>3, <2>1 DEF IInv, TypeOK, row
    <2> QED
      BY <1>2, <2>1, <2>2, LettingGo DEF row
  <1>5. CASE Ours(w)
    <2> DEFINE c == worker[w].call
    <2>1. PICK answer \in Answers :
            /\ claimed' = [claimed EXCEPT ![c] = None]
            /\ state' = [state EXCEPT ![c] = Outcome(c, answer, worker[w].attempt)]
            /\ attempts' = attempts
      BY <1>5 DEF Finish
    <2>2. Outcome(c, answer, worker[w].attempt) \in {"unasked", "cancelled"} \cup Open \cup Stuck \cup Done
      BY <1>1, OutcomeIsAState DEF IInv
    <2>3. TypeOK'
      BY <1>1, <1>2, <1>3, <2>1, <2>2 DEF IInv, TypeOK
    <2>4. \A d \in Calls : d # c => state'[d] = state[d]
      BY <2>1 DEF IInv, TypeOK
    <2> QED
      BY <1>1, <1>2, <1>5, <2>1, <2>3, <2>4, LettingGo
  <1> QED
    BY <1>4, <1>5

LEMMA CrashKeeps ==
  ASSUME IInv, NEW w \in Workers, Crash(w)
  PROVE  IInv'
  <1>1. worker' = [worker EXCEPT ![w] = Idle] /\ UNCHANGED <<row, running>>
    BY DEF Crash
  <1>2. crashes' \in 0..MaxCrashes
    BY CrashesAreFew DEF IInv, TypeOK, Crash
  <1>3. TypeOK'
    BY <1>1, <1>2 DEF IInv, TypeOK, row, Doing
  <1> QED
    BY <1>1, <1>3, LettingGo DEF row

-----------------------------------------------------------------------------
(* The theorems.                                                           *)

LEMMA InitKeeps == Init => IInv
  BY AttemptsAreMade, CrashesAreFew
     DEF Init, IInv, TypeOK, Doing, Idle, Owning, LeasesDiffer, RunningIsHeld, HeldIsUnderWay

LEMMA NextKeeps == IInv /\ [Next]_vars => IInv'
  <1> SUFFICES ASSUME IInv, [Next]_vars PROVE IInv'
    OBVIOUS
  <1>1. ASSUME NEW c \in Calls, Ask(c) \/ Cancel(c) \/ Retry(c) \/ FinishByHand(c) PROVE IInv'
    BY <1>1, PeopleKeepWorkers
  <1>2. ASSUME NEW w \in Workers, NEW c \in Calls, Look(w, c) PROVE IInv'
    BY <1>2, LookKeeps
  <1>3. ASSUME NEW w \in Workers, Take(w) PROVE IInv'
    BY <1>3, TakeKeeps
  <1>4. ASSUME NEW w \in Workers, Check(w) PROVE IInv'
    BY <1>4, CheckKeeps
  <1>5. ASSUME NEW w \in Workers, Finish(w) PROVE IInv'
    BY <1>5, FinishKeeps
  <1>6. ASSUME NEW w \in Workers, Crash(w) PROVE IInv'
    BY <1>6, CrashKeeps
  <1>7. ASSUME NEW l \in Leases, RunsOut(l) PROVE IInv'
    <2>1. running' \subseteq running /\ UNCHANGED <<row, worker, crashes>>
      BY <1>7 DEF RunsOut
    <2>2. Owning' = Owning
      BY <2>1 DEF Owning
    <2> QED
      BY <2>1, <2>2 DEF IInv, TypeOK, LeasesDiffer, RunningIsHeld, HeldIsUnderWay, Ours, row
  <1>8. CASE UNCHANGED vars
    BY <1>8 DEF IInv, TypeOK, LeasesDiffer, RunningIsHeld, HeldIsUnderWay, Ours, Owning, vars, row
  <1> QED
    BY <1>1, <1>2, <1>3, <1>4, <1>5, <1>6, <1>7, <1>8 DEF Next

\* The inductive invariant holds of every behaviour: among its parts the type
\* invariant, and that a lease that still runs is still its worker's.
THEOREM LeasesAreKept == Spec => []IInv
  <1> QED
    BY InitKeeps, NextKeeps, PTL DEF Spec

\* Every state of the outbox is of its type, for any calls, workers and leases
\* (outbox.go, migration 0080).
THEOREM OutboxTypeIsCorrect == Spec => []TypeOK
  <1>1. IInv => TypeOK
    BY DEF IInv
  <1> QED
    BY <1>1, LeasesAreKept, PTL

\* outbox.go:205: two workers never send the same row while a lease runs.
THEOREM OneWorkerSends == Spec => []OneSender
  <1>1. IInv => OneSender
    BY DEF IInv, LeasesDiffer, RunningIsHeld, OneSender, Ours
  <1> QED
    BY <1>1, LeasesAreKept, PTL

\* What is settled, or waits for a person, is changed by nobody who was not
\* asked, but a worker that looked before.
THEOREM SettledIsSettled == Spec => RestsUntilAskedFor
  <1> DEFINE Rests ==
        \A c \in Calls : state[c] \notin Open /\ state'[c] # state[c] =>
          \/ Ask(c) \/ Cancel(c) \/ Retry(c) \/ FinishByHand(c)
          \/ state[c] = "cancelled" /\ state'[c] = "succeeded"
          \/ \E w \in Workers : Take(w) /\ worker[w].call = c
  <1>1. ASSUME IInv, Next PROVE Rests
    <2> SUFFICES ASSUME NEW c \in Calls, state[c] \notin Open, state'[c] # state[c]
                 PROVE  \/ Ask(c) \/ Cancel(c) \/ Retry(c) \/ FinishByHand(c)
                        \/ state[c] = "cancelled" /\ state'[c] = "succeeded"
                        \/ \E w \in Workers : Take(w) /\ worker[w].call = c
      OBVIOUS
    <2>1. ASSUME NEW d \in Calls, Ask(d) \/ Cancel(d) \/ Retry(d) \/ FinishByHand(d) PROVE d = c
      BY <1>1, <2>1 DEF IInv, TypeOK, Ask, Cancel, Retry, FinishByHand, Queue
    <2>2. ASSUME NEW w \in Workers, Take(w) PROVE worker[w].call = c
      <3>1. state' = state \/ state' = [state EXCEPT ![worker[w].call] = "attempted"]
        BY <2>2 DEF Take, row
      <3> QED
        BY <1>1, <3>1 DEF IInv, TypeOK
    <2>3. ASSUME NEW w \in Workers, Finish(w) PROVE state[c] = "cancelled" /\ state'[c] = "succeeded"
      <3>1. Ours(w)
        BY <2>3 DEF Finish, row
      <3>2. PICK answer \in Answers :
              state' = [state EXCEPT ![worker[w].call] = Outcome(worker[w].call, answer, worker[w].attempt)]
        BY <2>3, <3>1 DEF Finish
      <3>3. worker[w].call = c /\ w \in Owning
        BY <1>1, <2>3, <3>2 DEF IInv, TypeOK, Finish, Owning
      <3>4. state[c] = "cancelled"
        BY <1>1, <3>1, <3>3 DEF IInv, HeldIsUnderWay
      <3>5. state'[c] = Outcome(c, answer, worker[w].attempt)
        BY <1>1, <3>2, <3>3 DEF IInv, TypeOK
      <3>6. answer = "ok"
        BY <3>4, <3>5 DEF Outcome
      <3> QED
        BY <3>4, <3>5, <3>6 DEF Outcome, ComesTo
    <2>4. ASSUME NEW w \in Workers, Check(w) \/ Crash(w) PROVE FALSE
      BY <2>4 DEF Check, Crash, row
    <2>5. ASSUME NEW w \in Workers, NEW d \in Calls, Look(w, d) PROVE FALSE
      BY <2>5 DEF Look, row
    <2>6. ASSUME NEW l \in Leases, RunsOut(l) PROVE FALSE
      BY <2>6 DEF RunsOut, row
    <2> QED
      BY <1>1, <2>1, <2>2, <2>3, <2>4, <2>5, <2>6 DEF Next
  <1>2. ASSUME UNCHANGED vars PROVE Rests
    BY <1>2 DEF vars, row
  <1>3. IInv /\ [Next]_vars => [Rests]_vars
    BY <1>1, <1>2
  <1> QED
    BY <1>3, LeasesAreKept, PTL DEF Spec, RestsUntilAskedFor
-----------------------------------------------------------------------------
(* Messages: what everything is.                                           *)

SpecMessages == InitMessages /\ [][NextMessages]_tellvars

Happenings == {"queued", "retry", "sent", "failed", "cancelled", "delivered"}
Subjects   == OfBooking \cup {"ready", "reminder"}
Message    == [about : Subjects, says : Hours, for : Hours, wish : Hours, from : Hours, again : BOOLEAN]
Copy       == [by : Senders, known : BOOLEAN, reported : BOOLEAN]
Turn       == [id : Nat, tries : Nat]
DeskWork   == [at : {"composed", "booking", "asked"}, new : Message]
SendWork   == [at : {"next", "cancel", "send", "taken", "refused", "no provider"}, batch : Seq(Turn) \ {<<>>}]

AtWork == {s \in Senders : sender[s] # NotSending}
Ids(s) == {sender[s].batch[i].id : i \in DOMAIN sender[s].batch}

RowsFit ==
  /\ message \in Seq(Message) /\ log \in Seq(Seq(Happenings)) /\ copies \in Seq(Seq(Copy))
  /\ Len(log) = Len(message) /\ Len(copies) = Len(message)
  /\ \A m \in Queued : log[m] # <<>>
  /\ resting \subseteq Queued

SubjectsFit ==
  /\ hour \in Hours
  /\ booking \in [status : {"booked", "cancelled", "no_show", "arrived"}, starts : Hours]
  /\ invoice \in [owed : BOOLEAN, disputed : BOOLEAN]

\* A desk that has asked about a booking, or composed what to say of it, has a
\* message of a booking's; one that asked about the job has the job's.
DesksFit ==
  /\ desk \in [Desks -> {NoDesk} \cup DeskWork]
  /\ \A d \in Desks : desk[d].at \in {"composed", "booking"} => desk[d].new.about \in OfBooking
  /\ \A d \in Desks : desk[d].at = "asked" => desk[d].new.about = "ready"

\* A batch is of messages there are, each of them once.
SendersFit ==
  /\ sender \in [Senders -> {NotSending} \cup SendWork]
  /\ \A s \in AtWork :
       /\ Ids(s) \subseteq Queued
       /\ \A i, j \in DOMAIN sender[s].batch : sender[s].batch[i].id = sender[s].batch[j].id => i = j

MessagesFit == RowsFit /\ SubjectsFit /\ DesksFit /\ SendersFit /\ faults \in Nat

\* One goroutine sends.
OneSends == \A s, t \in AtWork : s = t

\* A copy the shop wrote down is the last there is: the message waits no more,
\* and nobody has it in a batch.
KnownIsOver ==
  \A m \in Queued : \A c \in DOMAIN copies[m] :
    copies[m][c].known => c = Len(copies[m]) /\ ~Waiting(m) /\ \A s \in AtWork : m \notin Ids(s)

\* What a sender is about to write down is the last copy of its message.
TakenIsLast ==
  \A s \in AtWork : sender[s].at = "taken" =>
    copies[Hand(s)] # <<>> /\ copies[Hand(s)][Len(copies[Hand(s)])].by = s

\* One desk has the booking, and while it has it nobody says what it is to say.
OneAsks ==
  /\ \A d, e \in Desks : desk[d].at = "booking" /\ desk[e].at = "booking" => d = e
  /\ \A d \in Desks : desk[d].at = "booking" =>
       desk[d].new.again \/ ~SaidAlready(desk[d].new.about, desk[d].new.for)

TellInv == /\ MessagesFit /\ OneSends /\ KnownIsOver /\ TakenIsLast /\ OneAsks
           /\ SentWasTaken /\ OncePerTime

-----------------------------------------------------------------------------
(* The batch: what is due, in the order it was queued.                     *)

Less == {x \in Nat \X Nat : x[1] < x[2]}

LEMMA PartOfAnInterval ==
  ASSUME NEW n \in Nat, NEW K \in SUBSET (1 .. n)
  PROVE  IsFiniteSet(K) /\ Cardinality(K) \in Nat
  <1>1. IsFiniteSet(1 .. n)
    BY FS_Interval
  <1>2. IsFiniteSet(K)
    BY <1>1, FS_Subset
  <1> QED  BY <1>2, FS_CardinalityType

\* Any set of messages can be put in order: the last of them goes last.
LEMMA OrderIsFound ==
  ASSUME NEW n \in Nat, NEW M \in SUBSET (1 .. n)
  PROVE  \E q \in [1 .. Cardinality(M) -> M] : \A i, j \in DOMAIN q : i < j => q[i] < q[j]
  <1> DEFINE Ordered(K) == \E q \in [1 .. Cardinality(K) -> K] : \A i, j \in DOMAIN q : i < j => q[i] < q[j]
  <1> DEFINE Bad == {k \in Nat : \E K \in SUBSET (1 .. k) : ~Ordered(K)}
  <1>1. SUFFICES ASSUME Bad # {} PROVE FALSE
    OBVIOUS
  <1>2. IsWellFoundedOn(Less, Nat)
    BY NatLessThanWellFounded DEF OpToRel, Less
  <1>3. PICK k \in Bad : \A h \in Bad : ~ (<<h, k>> \in Less)
    <2>1. Bad \subseteq Nat
      OBVIOUS
    <2> HIDE DEF Bad
    <2> QED  BY <1>1, <1>2, <2>1, WFMin
  <1>4. PICK K \in SUBSET (1 .. k) : ~Ordered(K)
    OBVIOUS
  <1>5. k \in Nat
    OBVIOUS
  <1>6. IsFiniteSet(K) /\ Cardinality(K) \in Nat
    BY <1>5, PartOfAnInterval
  <1>7. CASE K = {}
    <2>1. Cardinality(K) = 0
      BY <1>7, FS_EmptySet
    <2> DEFINE none == [i \in 1 .. 0 |-> 0]
    <2>2. none \in [1 .. Cardinality(K) -> K] /\ DOMAIN none = {}
      BY <2>1
    <2>3. \A i, j \in DOMAIN none : i < j => none[i] < none[j]
      BY <2>2
    <2> HIDE DEF none
    <2> QED  BY <1>4, <2>2, <2>3
  <1>8. CASE K # {}
    <2>1. k \in Nat \ {0} /\ k - 1 \in Nat
      <3>1. PICK x \in K : x \in 1 .. k
        BY <1>8
      <3> QED  BY <1>5, <3>1
    <2>2. k - 1 \notin Bad
      <3>1. <<k - 1, k>> \in Less
        BY <2>1 DEF Less
      <3> HIDE DEF Bad
      <3> QED  BY <1>3, <3>1
    <2>3. \A L \in SUBSET (1 .. (k - 1)) : Ordered(L)
      BY <2>1, <2>2
    <2>4. CASE k \notin K
      <3>1. K \in SUBSET (1 .. (k - 1))
        BY <2>1, <2>4
      <3> QED  BY <1>4, <2>3, <3>1
    <2>5. CASE k \in K
      <3> DEFINE L == K \ {k}
      <3>1. L \in SUBSET (1 .. (k - 1))
        BY <2>1
      <3>2. Cardinality(L) = Cardinality(K) - 1
        BY <1>6, <2>5, FS_RemoveElement
      <3>3. Ordered(L)
        BY <2>3, <3>1
      <3> DEFINE c == Cardinality(K)
      <3>4. PICK q \in [1 .. (c - 1) -> L] : \A i, j \in 1 .. (c - 1) : i < j => q[i] < q[j]
        BY <3>2, <3>3
      <3> DEFINE r == [i \in 1 .. c |-> IF i = c THEN k ELSE q[i]]
      <3> HIDE DEF L
      <3>5. L \subseteq K /\ \A x \in L : x < k
        BY <2>1, <3>1 DEF L
      <3>6. c \in Nat
        BY <1>6
      <3> HIDE DEF c
      <3>7. r \in [1 .. c -> K]
        <4>1. ASSUME NEW i \in 1 .. c, i # c PROVE i \in 1 .. (c - 1) /\ q[i] \in K
          <5>1. i \in 1 .. (c - 1)
            BY <3>6, <4>1
          <5>2. q[i] \in L
            BY <3>4, <5>1
          <5> QED  BY <3>5, <5>1, <5>2
        <4> QED  BY <2>5, <4>1
      <3>8. \A i, j \in DOMAIN r : i < j => r[i] < r[j]
        <4>1. SUFFICES ASSUME NEW i \in 1 .. c, NEW j \in 1 .. c, i < j PROVE r[i] < r[j]
          OBVIOUS
        <4>2. i \in 1 .. (c - 1) /\ r[i] = q[i] /\ q[i] \in L
          BY <3>4, <3>6, <4>1
        <4>3. CASE j = c
          BY <3>5, <4>2, <4>3
        <4>4. CASE j # c
          <5>1. j \in 1 .. (c - 1) /\ r[j] = q[j]
            BY <3>6, <4>4
          <5> QED  BY <3>4, <4>1, <4>2, <5>1
        <4> QED  BY <4>3, <4>4
      <3> HIDE DEF r
      <3> QED  BY <1>4, <3>7, <3>8 DEF c
    <2> QED  BY <2>4, <2>5
  <1> QED  BY <1>7, <1>8

LEMMA InOrderIsInOrder ==
  ASSUME NEW n \in Nat, NEW M \in SUBSET (1 .. n)
  PROVE  /\ Cardinality(M) \in Nat
         /\ InOrder(M) \in [1 .. Cardinality(M) -> M]
         /\ \A i, j \in 1 .. Cardinality(M) : InOrder(M)[i] = InOrder(M)[j] => i = j
  <1>1. Cardinality(M) \in Nat
    BY PartOfAnInterval
  <1> DEFINE Right(q) == \A i, j \in DOMAIN q : i < j => q[i] < q[j]
  <1>2. \E q \in [1 .. Cardinality(M) -> M] : Right(q)
    BY OrderIsFound
  <1>3. InOrder(M) = CHOOSE q \in [1 .. Cardinality(M) -> M] : Right(q)
    BY DEF InOrder
  <1>4. InOrder(M) \in [1 .. Cardinality(M) -> M] /\ Right(InOrder(M))
    <2> HIDE DEF Right
    <2> QED  BY <1>2, <1>3
  <1>5. ASSUME NEW i \in 1 .. Cardinality(M), NEW j \in 1 .. Cardinality(M), InOrder(M)[i] = InOrder(M)[j]
        PROVE  i = j
    <2> DEFINE q == InOrder(M)
    <2>1. q[i] \in M /\ q[j] \in M /\ DOMAIN q = 1 .. Cardinality(M)
      BY <1>4
    <2>2. q[i] \in Nat /\ i \in Nat /\ j \in Nat
      <3>1. i \in Nat /\ j \in Nat
        BY <1>1
      <3>2. \A x \in M : x \in Nat
        OBVIOUS
      <3> QED  BY <2>1, <3>1, <3>2
    <2>3. i < j => q[i] < q[j]
      BY <1>4, <2>1
    <2>4. j < i => q[j] < q[i]
      BY <1>4, <2>1
    <2> HIDE DEF q
    <2>5. q[i] = q[j]
      BY <1>5 DEF q
    <2> QED  BY <2>2, <2>3, <2>4, <2>5
  <1> QED  BY <1>1, <1>4, <1>5

\* Begin's batch: of messages that are due, each of them once, and of one at least.
LEMMA BatchIsOfTheDue ==
  ASSUME RowsFit, NEW M \in SUBSET Queued, M # {}, NEW batch,
         batch = [i \in DOMAIN InOrder(M) |-> [id |-> InOrder(M)[i], tries |-> Tries(InOrder(M)[i])]]
  PROVE  /\ batch \in Seq(Turn) \ {<<>>}
         /\ \A i \in DOMAIN batch : batch[i].id \in M
         /\ \A i, j \in DOMAIN batch : batch[i].id = batch[j].id => i = j
  <1> DEFINE c == Cardinality(M)
  <1> DEFINE q == InOrder(M)
  <1>1. Len(message) \in Nat /\ Queued = 1 .. Len(message) /\ DOMAIN log = Queued
    BY LenProperties DEF RowsFit, Queued
  <1>2. /\ c \in Nat /\ q \in [1 .. c -> M]
        /\ \A i, j \in 1 .. c : q[i] = q[j] => i = j
    BY <1>1, InOrderIsInOrder
  <1>3. c # 0
    <2>1. IsFiniteSet(M)
      BY <1>1, PartOfAnInterval
    <2> QED  BY <2>1, FS_EmptySet
  <1>4. ASSUME NEW m \in Queued PROVE Tries(m) \in Nat
    <2>1. log[m] \in Seq(Happenings)
      BY <1>1, ElementOfSeq DEF RowsFit
    <2>2. Len(log[m]) \in Nat /\ DOMAIN log[m] = 1 .. Len(log[m])
      BY <2>1, LenProperties
    <2>3. {i \in DOMAIN log[m] : log[m][i] = "retry"} \subseteq 1 .. Len(log[m])
      BY <2>2
    <2> QED  BY <2>2, <2>3, PartOfAnInterval DEF Tries
  <1> HIDE DEF q, c
  <1>5. batch = [i \in 1 .. c |-> [id |-> q[i], tries |-> Tries(q[i])]]
    BY <1>2 DEF q
  <1>6. \A i \in 1 .. c : q[i] \in Nat /\ q[i] \in M /\ Tries(q[i]) \in Nat
    <2> SUFFICES ASSUME NEW i \in 1 .. c PROVE q[i] \in Nat /\ q[i] \in M /\ Tries(q[i]) \in Nat
      OBVIOUS
    <2>1. q[i] \in M /\ q[i] \in Queued
      BY <1>2
    <2> QED  BY <1>1, <1>4, <2>1
  <1>7. batch \in [1 .. c -> Turn]
    BY <1>5, <1>6 DEF Turn
  <1>8. batch \in Seq(Turn) /\ DOMAIN batch = 1 .. c
    BY <1>2, <1>7, SeqDef
  <1>9. batch # <<>>
    BY <1>2, <1>3, <1>8
  <1> QED  BY <1>2, <1>5, <1>6, <1>8, <1>9

-----------------------------------------------------------------------------
(* The rows.                                                               *)

LEMMA Shapes ==
  ASSUME RowsFit
  PROVE  /\ Len(message) \in Nat /\ Queued = 1 .. Len(message)
         /\ DOMAIN log = Queued /\ DOMAIN copies = Queued
         /\ \A m \in Queued : /\ message[m] \in Message
                              /\ log[m] \in Seq(Happenings)
                              /\ Len(log[m]) \in Nat \ {0} /\ DOMAIN log[m] = 1 .. Len(log[m])
                              /\ copies[m] \in Seq(Copy)
                              /\ Len(copies[m]) \in Nat /\ DOMAIN copies[m] = 1 .. Len(copies[m])
  <1>1. /\ Len(message) \in Nat /\ Queued = 1 .. Len(message)
        /\ DOMAIN log = Queued /\ DOMAIN copies = Queued
    BY LenProperties DEF RowsFit, Queued
  <1>2. SUFFICES ASSUME NEW m \in Queued
                 PROVE  /\ message[m] \in Message
                        /\ log[m] \in Seq(Happenings)
                        /\ Len(log[m]) \in Nat \ {0} /\ DOMAIN log[m] = 1 .. Len(log[m])
                        /\ copies[m] \in Seq(Copy)
                        /\ Len(copies[m]) \in Nat /\ DOMAIN copies[m] = 1 .. Len(copies[m])
    BY <1>1
  <1>3. message[m] \in Message /\ log[m] \in Seq(Happenings) /\ copies[m] \in Seq(Copy)
    BY <1>1, ElementOfSeq DEF RowsFit
  <1>4. Len(log[m]) \in Nat \ {0}
    BY <1>3, EmptySeq DEF RowsFit
  <1> QED  BY <1>3, <1>4, LenProperties

\* What was said of a message stays said.
Longer(m) == log'[m] = log[m] \/ \E e \in Happenings : log'[m] = Append(log[m], e)

LEMMA AppendSays ==
  ASSUME NEW l \in Seq(Happenings), NEW e \in Happenings
  PROVE  /\ Append(l, e) \in Seq(Happenings) /\ Append(l, e) # <<>>
         /\ Append(l, e)[Len(Append(l, e))] = e
         /\ \A f : (\E i \in DOMAIN Append(l, e) : Append(l, e)[i] = f)
                   <=> f = e \/ \E i \in DOMAIN l : l[i] = f
  <1> DEFINE k == Append(l, e)
  <1>1. /\ k \in Seq(Happenings) /\ k # <<>> /\ Len(k) = Len(l) + 1
        /\ \A i \in 1 .. Len(l) : k[i] = l[i]
        /\ k[Len(l) + 1] = e
    BY AppendProperties
  <1>2. Len(l) \in Nat /\ DOMAIN l = 1 .. Len(l) /\ DOMAIN k = 1 .. Len(k)
    BY <1>1, LenProperties
  <1> HIDE DEF k
  <1>3. \A f : (\E i \in DOMAIN k : k[i] = f) <=> f = e \/ \E i \in DOMAIN l : l[i] = f
    <2> SUFFICES ASSUME NEW f
                 PROVE  (\E i \in DOMAIN k : k[i] = f) <=> f = e \/ \E i \in DOMAIN l : l[i] = f
      OBVIOUS
    <2>1. ASSUME NEW i \in DOMAIN k, k[i] = f PROVE f = e \/ \E j \in DOMAIN l : l[j] = f
      <3>1. CASE i = Len(l) + 1
        BY <1>1, <2>1, <3>1
      <3>2. CASE i # Len(l) + 1
        <4>1. i \in DOMAIN l /\ k[i] = l[i]
          BY <1>1, <1>2, <3>2
        <4> QED  BY <2>1, <4>1
      <3> QED  BY <3>1, <3>2
    <2>2. ASSUME f = e PROVE \E i \in DOMAIN k : k[i] = f
      <3>1. Len(l) + 1 \in DOMAIN k
        BY <1>1, <1>2
      <3> QED  BY <1>1, <2>2, <3>1
    <2>3. ASSUME NEW j \in DOMAIN l, l[j] = f PROVE \E i \in DOMAIN k : k[i] = f
      <3>1. j \in DOMAIN k /\ k[j] = f
        BY <1>1, <1>2, <2>3
      <3> QED  BY <3>1
    <2> QED  BY <2>1, <2>2, <2>3
  <1> QED  BY <1>1, <1>3 DEF k

LEMMA HadIsKept ==
  ASSUME RowsFit, NEW m \in Queued, Longer(m), NEW f
  PROVE  Had(m, f) => Had(m, f)'
  <1>1. log[m] \in Seq(Happenings)
    BY Shapes
  <1>2. CASE log'[m] = log[m]
    BY <1>2 DEF Had
  <1>3. ASSUME NEW e \in Happenings, log'[m] = Append(log[m], e) PROVE Had(m, f) => Had(m, f)'
    BY <1>1, <1>3, AppendSays DEF Had
  <1> QED  BY <1>2, <1>3 DEF Longer

LEMMA SaidStaysSaid ==
  ASSUME RowsFit, message' = message, \A m \in Queued : Longer(m)
  PROVE  /\ OncePerTime => OncePerTime'
         /\ OneAsks /\ desk' = desk => OneAsks'
  <1>1. \A m \in Queued : /\ Had(m, "failed") => Had(m, "failed")'
                          /\ Had(m, "cancelled") => Had(m, "cancelled")'
    BY HadIsKept
  <1>2. Queued' = Queued
    BY DEF Queued
  <1> QED  BY <1>1, <1>2 DEF OncePerTime, OneAsks, SaidAlready

\* One event of one message.
LEMMA EventIsNoted ==
  ASSUME RowsFit, NEW m \in Queued, NEW e \in Happenings, Event(m, e), message' = message
  PROVE  /\ log' \in Seq(Seq(Happenings)) /\ Len(log') = Len(log)
         /\ \A n \in Queued : log'[n] # <<>> /\ Longer(n)
         /\ \A n \in Queued : n # m => log'[n] = log[n]
         /\ Last(m)' = e
         /\ \A f : Had(m, f)' <=> f = e \/ Had(m, f)
  <1>1. Len(log) \in Nat /\ Queued = 1 .. Len(log) /\ log[m] \in Seq(Happenings)
    BY Shapes DEF RowsFit
  <1>2. /\ Append(log[m], e) \in Seq(Happenings) /\ Append(log[m], e) # <<>>
        /\ Append(log[m], e)[Len(Append(log[m], e))] = e
        /\ \A f : (\E i \in DOMAIN Append(log[m], e) : Append(log[m], e)[i] = f)
                  <=> f = e \/ \E i \in DOMAIN log[m] : log[m][i] = f
    BY <1>1, AppendSays
  <1> DEFINE x == Append(log[m], e)
  <1>3. log' = [log EXCEPT ![m] = x]
    BY DEF Event
  <1> HIDE DEF x
  <1>4. /\ log' \in Seq(Seq(Happenings)) /\ Len(log') = Len(log)
        /\ \A n \in 1 .. Len(log) : log'[n] = IF n = m THEN x ELSE log[n]
    BY <1>1, <1>2, <1>3, ExceptSeq DEF RowsFit, x
  <1>5. log'[m] = x /\ \A n \in Queued : n # m => log'[n] = log[n]
    BY <1>1, <1>4
  <1>6. Last(m)' = e /\ \A f : Had(m, f)' <=> f = e \/ Had(m, f)
    BY <1>2, <1>5 DEF x, Last, Had
  <1>7. \A n \in Queued : log'[n] # <<>> /\ Longer(n)
    BY <1>2, <1>5 DEF x, Longer, RowsFit
  <1> QED  BY <1>4, <1>5, <1>6, <1>7

\* Stop: some that wait are stopped, nobody is told anything.
LEMMA StopIsNoted ==
  ASSUME RowsFit, Stop, UNCHANGED <<message, resting, copies>>
  PROVE  /\ RowsFit'
         /\ \A m \in Queued : /\ Longer(m) /\ (Waiting(m)' => Waiting(m))
                              /\ Had(m, "sent")' => Had(m, "sent")
                              /\ Had(m, "delivered")' => Had(m, "delivered")
  <1>1. Len(message) \in Nat /\ Queued = 1 .. Len(message) /\ Queued' = Queued
    BY Shapes DEF Queued
  <1>2. ASSUME NEW m \in Queued
        PROVE  /\ log'[m] \in Seq(Happenings) /\ log'[m] # <<>>
               /\ Longer(m) /\ (Waiting(m)' => Waiting(m))
               /\ Had(m, "sent")' => Had(m, "sent")
               /\ Had(m, "delivered")' => Had(m, "delivered")
    <2>1. log[m] \in Seq(Happenings) /\ log[m] # <<>>
      BY Shapes DEF RowsFit
    <2>2. CASE m \in ToStop
      <3>1. log'[m] = Append(log[m], "cancelled") /\ "cancelled" \in Happenings
        BY <2>2 DEF Stop, Happenings
      <3>2. Last(m)' = "cancelled"
        BY <2>1, <3>1, AppendSays DEF Last
      <3>3. \A f : Had(m, f)' <=> f = "cancelled" \/ Had(m, f)
        BY <2>1, <3>1, AppendSays DEF Had
      <3>4. log'[m] \in Seq(Happenings) /\ log'[m] # <<>>
        BY <2>1, <3>1, AppendSays
      <3>5. ~Waiting(m)'
        BY <3>2 DEF Waiting
      <3> QED  BY <3>1, <3>3, <3>4, <3>5 DEF Longer
    <2>3. CASE m \notin ToStop
      <3>1. log'[m] = log[m]
        BY <2>3 DEF Stop
      <3> QED  BY <2>1, <3>1 DEF Longer, Waiting, Last, Had
    <2> QED  BY <2>2, <2>3
  <1>3. log' \in [1 .. Len(message) -> Seq(Happenings)]
    BY <1>1, <1>2 DEF Stop
  <1>4. log' \in Seq(Seq(Happenings)) /\ DOMAIN log' = 1 .. Len(message)
    BY <1>1, <1>3, SeqDef
  <1>5. Len(log') = Len(message)
    BY <1>1, <1>4, LenProperties
  <1>6. RowsFit'
    BY <1>1, <1>2, <1>4, <1>5 DEF RowsFit
  <1> QED  BY <1>2, <1>6

-----------------------------------------------------------------------------
(* What a step leaves alone keeps what is said of it.                      *)

LEMMA RowsLeftAlone ==
  ASSUME TellInv, UNCHANGED rows
  PROVE  RowsFit' /\ SentWasTaken' /\ OncePerTime' /\ (UNCHANGED desk => OneAsks')
  <1>1. /\ Queued' = Queued /\ UNCHANGED <<message, log, copies, resting>>
        /\ \A m \in Queued : Longer(m)
    BY DEF Queued, rows, Longer
  <1>2. RowsFit'
    BY <1>1 DEF TellInv, MessagesFit, RowsFit
  <1>3. SentWasTaken'
    BY <1>1 DEF TellInv, SentWasTaken, Had
  <1> QED  BY <1>1, <1>2, <1>3, SaidStaysSaid DEF TellInv, MessagesFit

LEMMA SendersLeftAlone ==
  ASSUME TellInv, UNCHANGED <<message, sender>>
  PROVE  /\ SendersFit' /\ OneSends' /\ AtWork' = AtWork
         /\ UNCHANGED copies => TakenIsLast'
         /\ UNCHANGED rows => KnownIsOver'
  BY DEF TellInv, MessagesFit, SendersFit, OneSends, AtWork, Ids, Queued, TakenIsLast, KnownIsOver,
         Hand, Waiting, Last, rows

LEMMA DesksLeftAlone == ASSUME TellInv, UNCHANGED desk PROVE DesksFit'
  BY DEF TellInv, MessagesFit, DesksFit

LEMMA SubjectsLeftAlone == ASSUME TellInv, UNCHANGED subjects PROVE SubjectsFit'
  BY DEF TellInv, MessagesFit, SubjectsFit, subjects

-----------------------------------------------------------------------------
(* What the messages are about.                                            *)

LEMMA BookingKeeps ==
  ASSUME TellInv, NEW b, BookingChanges(b),
         b \in [status : {"booked", "cancelled", "no_show", "arrived"}, starts : Hours]
  PROVE  TellInv'
  <1>1. /\ booking' = b /\ Stop
        /\ UNCHANGED <<hour, invoice, message, resting, copies, desk, sender, faults>>
    BY DEF BookingChanges
  <1>2. /\ RowsFit'
        /\ \A m \in Queued : /\ Longer(m) /\ (Waiting(m)' => Waiting(m))
                             /\ Had(m, "sent")' => Had(m, "sent")
                             /\ Had(m, "delivered")' => Had(m, "delivered")
    BY <1>1, StopIsNoted DEF TellInv, MessagesFit
  <1>3. SubjectsFit' /\ faults' \in Nat
    BY <1>1 DEF TellInv, MessagesFit, SubjectsFit
  <1>4. DesksFit' /\ SendersFit' /\ OneSends' /\ TakenIsLast' /\ AtWork' = AtWork
    BY <1>1, DesksLeftAlone, SendersLeftAlone
  <1>5. OneAsks' /\ OncePerTime'
    BY <1>1, <1>2, SaidStaysSaid DEF TellInv, MessagesFit
  <1>6. Queued' = Queued
    BY <1>1 DEF Queued
  <1>7. SentWasTaken'
    BY <1>1, <1>2, <1>6 DEF TellInv, SentWasTaken
  <1>8. KnownIsOver'
    BY <1>1, <1>2, <1>4, <1>6 DEF TellInv, KnownIsOver, Ids
  <1> QED  BY <1>2, <1>3, <1>4, <1>5, <1>7, <1>8 DEF TellInv, MessagesFit

LEMMA SubjectsKeep == ASSUME TellInv, SubjectSteps PROVE TellInv'
  <1>1. CASE MoveBooking
    <2>1. PICK t \in Hours : BookingChanges([booking EXCEPT !.starts = t])
      BY <1>1 DEF MoveBooking
    <2>2. [booking EXCEPT !.starts = t] \in [status : {"booked", "cancelled", "no_show", "arrived"}, starts : Hours]
      BY DEF TellInv, MessagesFit, SubjectsFit
    <2> QED  BY <2>1, <2>2, BookingKeeps
  <1>2. CASE CloseBooking
    <2>1. PICK s \in {"cancelled", "no_show"} : BookingChanges([booking EXCEPT !.status = s])
      BY <1>2 DEF CloseBooking
    <2>2. [booking EXCEPT !.status = s] \in [status : {"booked", "cancelled", "no_show", "arrived"}, starts : Hours]
      BY DEF TellInv, MessagesFit, SubjectsFit
    <2> QED  BY <2>1, <2>2, BookingKeeps
  <1>3. CASE TakeInBooking
    <2>1. [booking EXCEPT !.status = "arrived"]
            \in [status : {"booked", "cancelled", "no_show", "arrived"}, starts : Hours]
      BY DEF TellInv, MessagesFit, SubjectsFit
    <2> QED  BY <1>3, <2>1, BookingKeeps DEF TakeInBooking
  <1>4. CASE CorrectBookingContact
    BY <1>4, BookingKeeps DEF CorrectBookingContact, TellInv, MessagesFit, SubjectsFit
  <1>5. CASE Settle \/ Dispute \/ Clock
    <2>1. UNCHANGED <<rows, desk, sender, faults>> /\ UNCHANGED message
      BY <1>5 DEF Settle, Dispute, Clock, rows
    <2>2. SubjectsFit'
      <3>1. CASE Settle
        BY <3>1 DEF TellInv, MessagesFit, SubjectsFit, Settle
      <3>2. CASE Dispute
        BY <3>2 DEF TellInv, MessagesFit, SubjectsFit, Dispute
      <3>3. CASE Clock
        <4>1. hour' \in Hours
          BY <3>3, HoursAreCounted DEF TellInv, MessagesFit, SubjectsFit, Clock, Hours
        <4> QED  BY <3>3, <4>1 DEF TellInv, MessagesFit, SubjectsFit, Clock
      <3> QED  BY <1>5, <3>1, <3>2, <3>3
    <2>3. /\ RowsFit' /\ SentWasTaken' /\ OncePerTime' /\ OneAsks'
          /\ SendersFit' /\ OneSends' /\ TakenIsLast' /\ KnownIsOver' /\ DesksFit'
      <3>1. UNCHANGED copies
        BY <2>1 DEF rows
      <3> QED  BY <2>1, <3>1, RowsLeftAlone, SendersLeftAlone, DesksLeftAlone
    <2> QED  BY <2>1, <2>2, <2>3 DEF TellInv, MessagesFit
  <1> QED  BY <1>1, <1>2, <1>3, <1>4, <1>5 DEF SubjectSteps

-----------------------------------------------------------------------------
(* Desks.                                                                  *)

\* A desk that asks, or composes: nothing but what it is doing changes.
LEMMA DeskTurns ==
  ASSUME TellInv, UNCHANGED <<subjects, rows, sender, faults>>, DesksFit', OneAsks'
  PROVE  TellInv'
  <1>1. UNCHANGED <<message, copies>>
    BY DEF rows
  <1>2. RowsFit' /\ SentWasTaken' /\ OncePerTime' /\ SubjectsFit' /\ faults' \in Nat
    BY RowsLeftAlone, SubjectsLeftAlone DEF TellInv, MessagesFit
  <1>3. SendersFit' /\ OneSends' /\ TakenIsLast' /\ KnownIsOver'
    BY <1>1, SendersLeftAlone
  <1> QED  BY <1>2, <1>3 DEF TellInv, MessagesFit

LEMMA SaysWhatItIs ==
  ASSUME NEW about \in Subjects, NEW wish \in Hours, NEW again \in BOOLEAN
  PROVE  Says(about, wish, again) \in Message
  <1>1. 0 \in Hours
    BY HoursAreCounted DEF Hours
  <1> QED  BY <1>1 DEF Says, Message

LEMMA ComposeKeeps == ASSUME TellInv, NEW d \in Desks, Compose(d) PROVE TellInv'
  <1>1. UNCHANGED <<subjects, rows, sender, faults>> /\ desk[d] = NoDesk
    BY DEF Compose
  <1>2. PICK about \in OfBooking, again \in BOOLEAN, wish \in Hours :
          desk' = [desk EXCEPT ![d] = [at |-> "composed", new |-> [Says(about, wish, again) EXCEPT !.says = booking.starts]]]
    BY DEF Compose, Within
  <1> DEFINE said == Says(about, wish, again)
  <1> DEFINE new  == [said EXCEPT !.says = booking.starts]
  <1>3. said \in Message /\ said.about = about
    BY SaysWhatItIs DEF Subjects, Says
  <1>4. booking.starts \in Hours
    BY DEF TellInv, MessagesFit, SubjectsFit
  <1> HIDE DEF said
  <1>5. new \in Message /\ new.about \in OfBooking
    BY <1>3, <1>4 DEF Message
  <1> HIDE DEF new
  <1>6. desk' = [desk EXCEPT ![d] = [at |-> "composed", new |-> new]]
    BY <1>2 DEF new, said
  <1>7. [at |-> "composed", new |-> new] \in DeskWork
    BY <1>5 DEF DeskWork
  <1>8. DesksFit'
    BY <1>5, <1>6, <1>7 DEF TellInv, MessagesFit, DesksFit
  <1>9. OneAsks'
    <2>1. \A e \in Desks : desk'[e].at = "booking" => desk'[e] = desk[e]
      BY <1>6 DEF TellInv, MessagesFit, DesksFit
    <2> QED  BY <1>1, <2>1 DEF TellInv, OneAsks, SaidAlready, Queued, Had, rows
  <1> QED  BY <1>1, <1>8, <1>9, DeskTurns

LEMMA AskAboutJobKeeps == ASSUME TellInv, NEW d \in Desks, AskAboutJob(d) PROVE TellInv'
  <1>1. UNCHANGED <<subjects, rows, sender, faults>>
    BY DEF AskAboutJob
  <1>2. PICK again \in BOOLEAN, wish \in Hours :
          desk' = [desk EXCEPT ![d] = [at |-> "asked", new |-> Says("ready", wish, again)]]
    BY DEF AskAboutJob, Within
  <1> DEFINE new == Says("ready", wish, again)
  <1>3. new \in Message /\ new.about = "ready"
    BY SaysWhatItIs DEF Subjects, Says
  <1> HIDE DEF new
  <1>4. desk' = [desk EXCEPT ![d] = [at |-> "asked", new |-> new]] /\ [at |-> "asked", new |-> new] \in DeskWork
    BY <1>2, <1>3 DEF new, DeskWork
  <1>5. DesksFit'
    BY <1>3, <1>4 DEF TellInv, MessagesFit, DesksFit
  <1>6. OneAsks'
    <2>1. \A e \in Desks : desk'[e].at = "booking" => desk'[e] = desk[e]
      BY <1>4 DEF TellInv, MessagesFit, DesksFit
    <2> QED  BY <1>1, <2>1 DEF TellInv, OneAsks, SaidAlready, Queued, Had, rows
  <1> QED  BY <1>1, <1>5, <1>6, DeskTurns

\* The booking is locked: nobody else has it, and what is asked holds while it is.
LEMMA AskAboutBookingKeeps == ASSUME TellInv, NEW d \in Desks, AskAboutBooking(d) PROVE TellInv'
  <1>1. UNCHANGED <<subjects, rows, sender, faults>> /\ desk[d].at = "composed" /\ ~Held
    BY DEF AskAboutBooking
  <1>2. desk[d] \in DeskWork /\ desk[d].new \in Message /\ desk[d].new.about \in OfBooking
    BY <1>1 DEF TellInv, MessagesFit, DesksFit, DeskWork, NoDesk
  <1> DEFINE new == [desk[d].new EXCEPT !.for = booking.starts, !.from = Sooner(desk[d].new.wish)]
  <1>3. /\ new \in Message /\ new.about = desk[d].new.about /\ new.again = desk[d].new.again
        /\ new.for = booking.starts
    BY <1>2 DEF TellInv, MessagesFit, SubjectsFit, Message, Sooner
  <1>4. CASE ~MayQueue(desk[d].new)
    <2>1. desk' = [desk EXCEPT ![d] = NoDesk]
      BY <1>4 DEF AskAboutBooking
    <2>2. DesksFit'
      BY <2>1 DEF TellInv, MessagesFit, DesksFit, NoDesk
    <2>3. OneAsks'
      <3>1. \A e \in Desks : desk'[e].at = "booking" => desk'[e] = desk[e]
        BY <2>1 DEF TellInv, MessagesFit, DesksFit, NoDesk
      <3> QED  BY <1>1, <3>1 DEF TellInv, OneAsks, SaidAlready, Queued, Had, rows
    <2> QED  BY <1>1, <2>2, <2>3, DeskTurns
  <1>5. CASE MayQueue(desk[d].new)
    <2>1. desk' = [desk EXCEPT ![d] = [at |-> "booking", new |-> new]]
      BY <1>5 DEF AskAboutBooking
    <2>2. new.again \/ ~SaidAlready(new.about, new.for)
      BY <1>3, <1>5 DEF MayQueue
    <2> HIDE DEF new
    <2>3. [at |-> "booking", new |-> new] \in DeskWork
      BY <1>3 DEF DeskWork
    <2>4. DesksFit'
      BY <1>2, <1>3, <2>1, <2>3 DEF TellInv, MessagesFit, DesksFit
    <2>5. \A e \in Desks : desk'[e].at = "booking" => e = d
      BY <1>1, <2>1 DEF TellInv, MessagesFit, DesksFit, Held
    <2>6. desk'[d].new = new
      BY <2>1 DEF TellInv, MessagesFit, DesksFit
    <2>7. OneAsks'
      <3>1. \A e, f \in Desks : desk'[e].at = "booking" /\ desk'[f].at = "booking" => e = f
        BY <2>5
      <3>2. ASSUME NEW e \in Desks, desk'[e].at = "booking"
            PROVE  desk'[e].new.again \/ ~SaidAlready(desk[e].new.about, desk[e].new.for)'
        BY <1>1, <2>2, <2>5, <2>6, <3>2 DEF SaidAlready, Queued, Had, rows
      <3> QED  BY <3>1, <3>2 DEF OneAsks, SaidAlready
    <2> QED  BY <1>1, <2>4, <2>7, DeskTurns
  <1> QED  BY <1>4, <1>5

\* A message is queued: it waits, no provider has it, and nobody sends it yet.
LEMMA PutIsNoted ==
  ASSUME TellInv, NEW new \in Message, Put(new)
  PROVE  /\ RowsFit'
         /\ Queued' = Queued \cup {Len(message) + 1} /\ Len(message) + 1 \notin Queued
         /\ \A m \in Queued : message'[m] = message[m] /\ log'[m] = log[m] /\ copies'[m] = copies[m]
         /\ message'[Len(message) + 1] = new
         /\ log'[Len(message) + 1] = <<"queued">> /\ copies'[Len(message) + 1] = <<>>
  <1> DEFINE n == Len(message) + 1
  <1>1. /\ RowsFit /\ Len(message) \in Nat /\ Queued = 1 .. Len(message)
        /\ Len(log) = Len(message) /\ Len(copies) = Len(message)
    BY Shapes DEF TellInv, MessagesFit, RowsFit
  <1>2. "queued" \in Happenings /\ <<"queued">> \in Seq(Happenings) /\ <<>> \in Seq(Copy) /\ <<"queued">> # <<>>
    BY DEF Happenings
  <1>3. /\ message' \in Seq(Message) /\ Len(message') = n
        /\ \A m \in 1 .. Len(message) : message'[m] = message[m]
        /\ message'[n] = new
    BY <1>1, AppendProperties DEF Put, RowsFit
  <1>4. /\ log' \in Seq(Seq(Happenings)) /\ Len(log') = n
        /\ \A m \in 1 .. Len(message) : log'[m] = log[m]
        /\ log'[n] = <<"queued">>
    BY <1>1, <1>2, AppendProperties DEF Put, RowsFit
  <1>5. /\ copies' \in Seq(Seq(Copy)) /\ Len(copies') = n
        /\ \A m \in 1 .. Len(message) : copies'[m] = copies[m]
        /\ copies'[n] = <<>>
    BY <1>1, <1>2, AppendProperties DEF Put, RowsFit
  <1>6. Queued' = 1 .. n
    BY <1>3, LenProperties DEF Queued
  <1>7. Queued' = Queued \cup {n} /\ n \notin Queued
    BY <1>1, <1>6
  <1>8. \A m \in Queued' : log'[m] # <<>>
    BY <1>1, <1>2, <1>4, <1>7 DEF RowsFit
  <1>9. RowsFit'
    BY <1>1, <1>3, <1>4, <1>5, <1>7, <1>8 DEF RowsFit, Put
  <1> QED  BY <1>1, <1>3, <1>4, <1>5, <1>7, <1>9

\* ... and if it is about the booking, either somebody said it should go as
\* well, or it has not been said.
LEMMA PutKeeps ==
  ASSUME TellInv, NEW new \in Message, Put(new), UNCHANGED <<subjects, sender, faults>>,
         new.about \in OfBooking => new.again \/ ~SaidAlready(new.about, new.for),
         DesksFit',
         \A d \in Desks : desk'[d].at = "booking" => desk'[d] = desk[d] /\ new.about \notin OfBooking
  PROVE  TellInv'
  <1>0. PICK n \in Nat : n = Len(message) + 1
    BY Shapes DEF TellInv, MessagesFit
  <1>1. /\ RowsFit'
        /\ Queued' = Queued \cup {n} /\ n \notin Queued
        /\ \A m \in Queued : message'[m] = message[m] /\ log'[m] = log[m] /\ copies'[m] = copies[m]
        /\ message'[n] = new
        /\ log'[n] = <<"queued">> /\ copies'[n] = <<>>
    BY <1>0, PutIsNoted
  <1>2. \A m \in Queued : /\ \A e : Had(m, e)' <=> Had(m, e)
                          /\ Waiting(m)' <=> Waiting(m)
    BY <1>1 DEF Had, Waiting, Last
  <1>3. ASSUME NEW e, Had(n, e)' PROVE e = "queued"
    <2>1. PICK i \in DOMAIN <<"queued">> : <<"queued">>[i] = e
      BY <1>1, <1>3 DEF Had
    <2>2. i = 1
      BY <2>1
    <2> QED  BY <2>1, <2>2
  <1>4. SendersFit'
    BY <1>1 DEF TellInv, MessagesFit, SendersFit, AtWork, Ids
  <1>5. OneSends'
    BY DEF TellInv, OneSends, AtWork
  <1>6. KnownIsOver'
    <2> SUFFICES ASSUME NEW m \in Queued', NEW c \in DOMAIN copies'[m], copies'[m][c].known
                 PROVE  c = Len(copies'[m]) /\ ~Waiting(m)' /\ \A s \in AtWork' : m \notin Ids(s)'
      BY DEF KnownIsOver
    <2>1. m \in Queued
      BY <1>1
    <2> QED  BY <1>1, <1>2, <2>1 DEF TellInv, KnownIsOver, AtWork, Ids
  <1>7. TakenIsLast'
    <2> SUFFICES ASSUME NEW s \in AtWork, sender[s].at = "taken"
                 PROVE  copies'[Hand(s)] # <<>> /\ copies'[Hand(s)][Len(copies'[Hand(s)])].by = s
      BY DEF TakenIsLast, AtWork, Hand
    <2>1. Hand(s) \in Queued
      <3>1. sender[s] \in SendWork
        BY DEF TellInv, MessagesFit, SendersFit, AtWork
      <3>2. sender[s].batch \in Seq(Turn) /\ sender[s].batch # <<>>
        BY <3>1 DEF SendWork
      <3>3. 1 \in DOMAIN sender[s].batch /\ Head(sender[s].batch) = sender[s].batch[1]
        BY <3>2
      <3> QED  BY <3>3 DEF TellInv, MessagesFit, SendersFit, Ids, Hand
    <2> QED  BY <1>1, <2>1 DEF TellInv, TakenIsLast
  <1>8. SentWasTaken'
    <2>1. ~Had(n, "sent")' /\ ~Had(n, "delivered")'
      BY <1>3
    <2> QED  BY <1>1, <1>2, <2>1 DEF TellInv, SentWasTaken
  <1>9. OncePerTime'
    <2> SUFFICES ASSUME NEW l \in Queued', NEW m \in Queued', l < m, message'[l].about \in OfBooking,
                        message'[l].about = message'[m].about, message'[l].for = message'[m].for,
                        \A k \in {l, m} : ~Had(k, "failed")' /\ ~Had(k, "cancelled")'
                 PROVE  message'[m].again
      BY DEF OncePerTime
    <2>1. Len(message) \in Nat /\ Queued = 1 .. Len(message)
      BY Shapes DEF TellInv, MessagesFit
    <2>2. l \in Queued
      BY <1>0, <1>1, <2>1
    <2>3. CASE m \in Queued
      BY <1>1, <1>2, <2>2, <2>3 DEF TellInv, OncePerTime
    <2>4. CASE m = n
      <3>1. new.about \in OfBooking /\ message[l].about = new.about /\ message[l].for = new.for
        BY <1>1, <2>2, <2>4
      <3>2. ~Had(l, "failed") /\ ~Had(l, "cancelled")
        BY <1>2, <2>2
      <3>3. SaidAlready(new.about, new.for)
        BY <2>2, <3>1, <3>2 DEF SaidAlready
      <3> QED  BY <1>1, <2>4, <3>1, <3>3
    <2> QED  BY <1>1, <2>3, <2>4
  <1>10. OneAsks'
    <2> SUFFICES ASSUME NEW d \in Desks, desk'[d].at = "booking", NEW m \in Queued',
                        message'[m].about = desk'[d].new.about, message'[m].for = desk'[d].new.for,
                        ~Had(m, "failed")', ~Had(m, "cancelled")'
                 PROVE  desk'[d].new.again
      BY DEF TellInv, OneAsks, SaidAlready
    <2>1. desk'[d] = desk[d] /\ new.about \notin OfBooking
      OBVIOUS
    <2>2. desk[d].new.about \in OfBooking
      BY <2>1 DEF TellInv, MessagesFit, DesksFit
    <2>3. m \in Queued
      BY <1>1, <2>1, <2>2
    <2>4. SaidAlready(desk[d].new.about, desk[d].new.for)
      BY <1>1, <1>2, <2>1, <2>3 DEF SaidAlready
    <2> QED  BY <2>1, <2>4 DEF TellInv, OneAsks
  <1>11. SubjectsFit' /\ faults' \in Nat
    BY SubjectsLeftAlone DEF TellInv, MessagesFit
  <1> QED  BY <1>1, <1>4, <1>5, <1>6, <1>7, <1>8, <1>9, <1>10, <1>11 DEF TellInv, MessagesFit

LEMMA QueueMessageKeeps == ASSUME TellInv, NEW d \in Desks, QueueMessage(d) PROVE TellInv'
  <1>1. /\ desk[d].at \in {"booking", "asked"} /\ Put(desk[d].new)
        /\ desk' = [desk EXCEPT ![d] = NoDesk] /\ UNCHANGED <<subjects, sender, faults>>
    BY DEF QueueMessage
  <1>2. desk[d].new \in Message
    BY <1>1 DEF TellInv, MessagesFit, DesksFit, DeskWork, NoDesk
  <1>3. DesksFit'
    BY <1>1 DEF TellInv, MessagesFit, DesksFit, NoDesk
  <1>4. desk[d].new.about \in OfBooking =>
          desk[d].new.again \/ ~SaidAlready(desk[d].new.about, desk[d].new.for)
    BY <1>1 DEF TellInv, MessagesFit, DesksFit, OneAsks, OfBooking
  <1>5. ASSUME NEW e \in Desks, desk'[e].at = "booking"
        PROVE  desk'[e] = desk[e] /\ desk[d].new.about \notin OfBooking
    <2>1. e # d /\ desk'[e] = desk[e]
      BY <1>1, <1>5 DEF TellInv, MessagesFit, DesksFit, NoDesk
    <2>2. desk[d].at = "asked"
      BY <1>1, <1>5, <2>1 DEF TellInv, OneAsks
    <2> QED  BY <2>1, <2>2 DEF TellInv, MessagesFit, DesksFit, OfBooking
  <1> QED  BY <1>1, <1>2, <1>3, <1>4, <1>5, PutKeeps

LEMMA QueueReminderKeeps == ASSUME TellInv, NEW d \in Desks, QueueReminder(d) PROVE TellInv'
  <1>1. PICK wish \in Hours : Put([Says("reminder", wish, TRUE) EXCEPT !.from = Sooner(wish)])
    BY DEF QueueReminder, Within
  <1> DEFINE said == Says("reminder", wish, TRUE)
  <1> DEFINE new  == [said EXCEPT !.from = Sooner(wish)]
  <1>2. said \in Message /\ said.about = "reminder"
    BY SaysWhatItIs DEF Subjects, Says
  <1>3. hour \in Hours
    BY DEF TellInv, MessagesFit, SubjectsFit
  <1> HIDE DEF said
  <1>4. new \in Message /\ new.about = "reminder"
    BY <1>2, <1>3 DEF Message, Sooner
  <1>5. Put(new)
    BY <1>1 DEF said
  <1> HIDE DEF new
  <1>6. UNCHANGED <<subjects, sender, faults>> /\ UNCHANGED desk
    BY DEF QueueReminder
  <1>7. DesksFit'
    BY <1>6, DesksLeftAlone
  <1>8. new.about \notin OfBooking
    BY <1>4 DEF OfBooking
  <1> QED  BY <1>4, <1>5, <1>6, <1>7, <1>8, PutKeeps

LEMMA DesksKeep == ASSUME TellInv, DeskSteps PROVE TellInv'
  BY ComposeKeeps, AskAboutBookingKeeps, AskAboutJobKeeps, QueueMessageKeeps, QueueReminderKeeps DEF DeskSteps

-----------------------------------------------------------------------------
(* Senders.                                                                *)

Stages == {"next", "cancel", "send", "taken", "refused", "no provider"}

LEMMA WhoIsAtWork == ASSUME NEW s \in Senders, sender[s].at \in Stages PROVE s \in AtWork
  <1>1. NotSending.at = "idle" /\ sender[s].at # "idle"
    BY DEF NotSending, Stages
  <1> QED  BY <1>1 DEF AtWork

LEMMA HandIsQueued ==
  ASSUME TellInv, NEW s \in AtWork
  PROVE  /\ sender[s] \in SendWork
         /\ sender[s].batch \in Seq(Turn) /\ sender[s].batch # <<>>
         /\ Hand(s) = sender[s].batch[1].id /\ 1 \in DOMAIN sender[s].batch
         /\ Hand(s) \in Ids(s) /\ Hand(s) \in Queued
  <1>1. sender[s] \in SendWork
    BY DEF TellInv, MessagesFit, SendersFit, AtWork
  <1>2. sender[s].batch \in Seq(Turn) /\ sender[s].batch # <<>>
    BY <1>1 DEF SendWork
  <1>3. 1 \in DOMAIN sender[s].batch /\ Head(sender[s].batch) = sender[s].batch[1]
    BY <1>2
  <1>4. Hand(s) = sender[s].batch[1].id /\ Hand(s) \in Ids(s)
    BY <1>3 DEF Hand, Ids
  <1> QED  BY <1>1, <1>2, <1>3, <1>4 DEF TellInv, MessagesFit, SendersFit

\* The one that sends goes on with the same message.
LEMMA BecomesMoves ==
  ASSUME TellInv, NEW s \in AtWork, NEW at \in Stages, Becomes(s, at), message' = message
  PROVE  /\ SendersFit' /\ OneSends' /\ AtWork' = AtWork
         /\ \A t \in AtWork : t = s /\ Ids(t)' = Ids(t)
         /\ sender'[s].at = at /\ sender'[s].batch = sender[s].batch
  <1>1. s \in Senders /\ sender[s] \in SendWork
    BY HandIsQueued DEF AtWork
  <1>2. \A t \in AtWork : t = s
    BY DEF TellInv, OneSends
  <1> DEFINE new == [sender[s] EXCEPT !.at = at]
  <1>3. new \in SendWork /\ new.at = at /\ new.batch = sender[s].batch
    BY <1>1 DEF SendWork, Stages
  <1>4. sender' = [sender EXCEPT ![s] = new]
    BY DEF Becomes
  <1> HIDE DEF new
  <1>5. /\ sender' \in [Senders -> {NotSending} \cup SendWork]
        /\ sender'[s] = new /\ \A t \in Senders : t # s => sender'[t] = sender[t]
    BY <1>1, <1>3, <1>4 DEF TellInv, MessagesFit, SendersFit
  <1>6. new # NotSending
    <2>1. NotSending.at = "idle" /\ at # "idle"
      BY DEF NotSending, Stages
    <2> QED  BY <1>3, <2>1
  <1>7. AtWork' = AtWork
    BY <1>5, <1>6 DEF AtWork
  <1>8. \A t \in AtWork : Ids(t)' = Ids(t)
    BY <1>2, <1>3, <1>5 DEF Ids
  <1>9. SendersFit'
    <2>1. Ids(s)' \subseteq Queued'
      BY <1>8 DEF TellInv, MessagesFit, SendersFit, Queued
    <2> QED  BY <1>2, <1>3, <1>5, <1>7, <2>1 DEF TellInv, MessagesFit, SendersFit
  <1> QED  BY <1>2, <1>3, <1>5, <1>7, <1>8, <1>9 DEF TellInv, OneSends

\* ... or with the next of its batch, or it has done.
LEMMA GoOnMoves ==
  ASSUME TellInv, NEW s \in AtWork, GoOn(s), message' = message
  PROVE  /\ SendersFit' /\ OneSends' /\ AtWork' \subseteq {s} /\ AtWork' \subseteq AtWork
         /\ \A t \in AtWork' : sender'[t].at = "next" /\ Ids(t)' \subseteq Ids(t) \ {Hand(t)}
  <1> DEFINE b == sender[s].batch
  <1>1. /\ s \in Senders /\ sender[s] \in SendWork
        /\ b \in Seq(Turn) /\ b # <<>> /\ Hand(s) = b[1].id
    BY HandIsQueued DEF AtWork
  <1>2. \A t \in AtWork : t = s
    BY DEF TellInv, OneSends
  <1>3. Len(b) \in Nat \ {0} /\ DOMAIN b = 1 .. Len(b)
    BY <1>1, EmptySeq, LenProperties
  <1> DEFINE next == [at |-> "next", batch |-> Tail(b)]
  <1> DEFINE new  == IF Len(b) = 1 THEN NotSending ELSE next
  <1>4. /\ Tail(b) \in Seq(Turn) /\ Len(Tail(b)) = Len(b) - 1
        /\ \A i \in 1 .. Len(Tail(b)) : Tail(b)[i] = b[i + 1]
    BY <1>1, HeadTailProperties
  <1>5. DOMAIN Tail(b) = 1 .. (Len(b) - 1)
    BY <1>4, LenProperties
  <1>6. sender' = [sender EXCEPT ![s] = new]
    BY DEF GoOn
  <1>7. Len(b) # 1 => Tail(b) # <<>> /\ next \in SendWork
    <2> SUFFICES ASSUME Len(b) # 1 PROVE Tail(b) # <<>> /\ next \in SendWork
      OBVIOUS
    <2>1. Len(Tail(b)) # 0
      BY <1>3, <1>4
    <2>2. Tail(b) # <<>>
      <3>1. Len(<<>>) = 0
        OBVIOUS
      <3> HIDE DEF b
      <3> QED  BY <2>1, <3>1
    <2> QED  BY <1>4, <2>2 DEF SendWork
  <1>8. new \in {NotSending} \cup SendWork
    BY <1>7
  <1>9. /\ sender' \in [Senders -> {NotSending} \cup SendWork]
        /\ sender'[s] = new /\ \A t \in Senders : t # s => sender'[t] = sender[t]
    <2> HIDE DEF new
    <2> QED  BY <1>1, <1>6, <1>8 DEF TellInv, MessagesFit, SendersFit
  <1>10. AtWork' \subseteq {s}
    BY <1>2, <1>9 DEF AtWork
  <1>11. s \in AtWork' => Len(b) # 1 /\ sender'[s] = next
    BY <1>9 DEF AtWork
  <1>12. ASSUME s \in AtWork'
         PROVE  /\ sender'[s].at = "next" /\ sender'[s].batch = Tail(b)
                /\ Ids(s)' \subseteq Ids(s) \ {Hand(s)}
                /\ \A i, j \in DOMAIN Tail(b) : Tail(b)[i].id = Tail(b)[j].id => i = j
    <2>1. sender'[s].at = "next" /\ sender'[s].batch = Tail(b)
      <3>1. sender'[s] = next
        BY <1>11, <1>12
      <3> HIDE DEF b
      <3> QED  BY <3>1
    <2>2. \A i, j \in DOMAIN b : b[i].id = b[j].id => i = j
      BY DEF TellInv, MessagesFit, SendersFit
    <2> HIDE DEF b
    <2>3. \A i \in DOMAIN Tail(b) : i + 1 \in DOMAIN b /\ i + 1 # 1 /\ Tail(b)[i] = b[i + 1] /\ i \in Nat
      BY <1>3, <1>4, <1>5
    <2>4. 1 \in DOMAIN b
      BY <1>3
    <2>5. \A i, j \in DOMAIN Tail(b) : Tail(b)[i].id = Tail(b)[j].id => i = j
      BY <2>2, <2>3
    <2>6. ASSUME NEW x \in Ids(s)' PROVE x \in Ids(s) /\ x # Hand(s)
      <3>1. PICK i \in DOMAIN Tail(b) : x = Tail(b)[i].id
        BY <2>1, <2>6 DEF Ids
      <3>2. x = b[i + 1].id /\ i + 1 \in DOMAIN b /\ i + 1 # 1
        BY <2>3, <3>1
      <3>3. x # b[1].id
        BY <2>2, <2>4, <3>2
      <3> QED  BY <1>1, <3>2, <3>3 DEF Ids, b
    <2> QED  BY <2>1, <2>5, <2>6
  <1>13. SendersFit'
    <2>1. Ids(s) \subseteq Queued /\ Queued' = Queued
      BY DEF TellInv, MessagesFit, SendersFit, Queued
    <2> HIDE DEF b, next, new
    <2> SUFFICES ASSUME NEW t \in AtWork'
                 PROVE  /\ Ids(t)' \subseteq Queued'
                        /\ \A i, j \in DOMAIN sender'[t].batch : sender'[t].batch[i].id = sender'[t].batch[j].id => i = j
      BY <1>9 DEF SendersFit
    <2>2. t = s
      BY <1>10
    <2> QED  BY <1>12, <2>1, <2>2
  <1> QED  BY <1>10, <1>12, <1>13 DEF OneSends

\* Nothing that was written down is undone if no more copies are, and what
\* waits waited before, or was in a batch.
LEMMA KnownStaysOver ==
  ASSUME TellInv, UNCHANGED <<message, copies>>,
         \A m \in Queued : Waiting(m)' => Waiting(m) \/ \E s \in AtWork : m \in Ids(s),
         \A t \in AtWork' : \A m \in Ids(t)' : Waiting(m) \/ (t \in AtWork /\ m \in Ids(t))
  PROVE  KnownIsOver'
  <1> SUFFICES ASSUME NEW m \in Queued, NEW c \in DOMAIN copies[m], copies[m][c].known
               PROVE  c = Len(copies[m]) /\ ~Waiting(m)' /\ \A t \in AtWork' : m \notin Ids(t)'
    BY DEF KnownIsOver, Queued
  <1>1. c = Len(copies[m]) /\ ~Waiting(m) /\ \A s \in AtWork : m \notin Ids(s)
    BY DEF TellInv, KnownIsOver
  <1> QED  BY <1>1

LEMMA BeginKeeps == ASSUME TellInv, NEW s \in Senders, Begin(s) PROVE TellInv'
  <1> DEFINE M == {m \in Queued : DueMessage(m)}
  <1> DEFINE batch == [i \in DOMAIN InOrder(M) |-> [id |-> InOrder(M)[i], tries |-> Tries(InOrder(M)[i])]]
  <1> DEFINE new == [at |-> "next", batch |-> batch]
  <1>1. /\ AtWork = {} /\ M # {} /\ sender' = [sender EXCEPT ![s] = new]
        /\ UNCHANGED <<subjects, rows, desk, faults>>
    BY DEF Begin, MyTurn, AtWork
  <1>2. UNCHANGED <<message, copies, log>> /\ UNCHANGED desk /\ Queued' = Queued
    BY <1>1 DEF rows, Queued
  <1>3. /\ batch \in Seq(Turn) \ {<<>>}
        /\ \A i \in DOMAIN batch : batch[i].id \in M
        /\ \A i, j \in DOMAIN batch : batch[i].id = batch[j].id => i = j
    BY <1>1, BatchIsOfTheDue DEF TellInv, MessagesFit
  <1>4. M \subseteq Queued /\ \A m \in M : Waiting(m)
    BY DEF DueMessage
  <1> HIDE DEF M, batch
  <1>5. new \in SendWork /\ new # NotSending
    BY <1>3 DEF SendWork, NotSending
  <1>6. /\ sender' \in [Senders -> {NotSending} \cup SendWork]
        /\ sender'[s] = new /\ \A t \in Senders : t # s => sender'[t] = sender[t]
    <2> HIDE DEF new
    <2> QED  BY <1>1, <1>5 DEF TellInv, MessagesFit, SendersFit
  <1>7. AtWork' = {s}
    BY <1>1, <1>5, <1>6 DEF AtWork
  <1>8. Ids(s)' \subseteq M
    BY <1>3, <1>6 DEF Ids
  <1>9. SendersFit' /\ OneSends' /\ TakenIsLast'
    BY <1>2, <1>3, <1>4, <1>6, <1>7, <1>8 DEF SendersFit, OneSends, TakenIsLast
  <1>10. KnownIsOver'
    <2>1. \A m \in Queued : Waiting(m)' => Waiting(m)
      BY <1>2 DEF Waiting, Last
    <2>2. \A t \in AtWork' : \A m \in Ids(t)' : Waiting(m)
      BY <1>4, <1>7, <1>8
    <2>3. /\ \A m \in Queued : Waiting(m)' => Waiting(m) \/ \E t \in AtWork : m \in Ids(t)
          /\ \A t \in AtWork' : \A m \in Ids(t)' : Waiting(m) \/ (t \in AtWork /\ m \in Ids(t))
      BY <2>1, <2>2
    <2> QED  BY <1>2, <2>3, KnownStaysOver
  <1>11. RowsFit' /\ SubjectsFit' /\ DesksFit' /\ faults' \in Nat /\ OneAsks' /\ SentWasTaken' /\ OncePerTime'
    BY <1>1, <1>2, RowsLeftAlone, SubjectsLeftAlone, DesksLeftAlone DEF TellInv, MessagesFit
  <1> QED  BY <1>9, <1>10, <1>11 DEF TellInv, MessagesFit

LEMMA AskAgainKeeps == ASSUME TellInv, NEW s \in Senders, AskAgain(s) PROVE TellInv'
  <1>1. s \in AtWork /\ UNCHANGED <<subjects, rows, desk>> /\ UNCHANGED desk
    BY WhoIsAtWork DEF AskAgain, Stages
  <1>2. UNCHANGED <<message, copies, log>> /\ UNCHANGED message /\ Queued' = Queued
    BY <1>1 DEF rows, Queued
  <1>3. RowsFit' /\ SubjectsFit' /\ DesksFit' /\ OneAsks' /\ SentWasTaken' /\ OncePerTime'
    BY <1>1, RowsLeftAlone, SubjectsLeftAlone, DesksLeftAlone
  <1>4. \A m \in Queued : Waiting(m)' => Waiting(m)
    BY <1>2 DEF Waiting, Last
  <1>5. faults' \in Nat
    BY DEF TellInv, MessagesFit, AskAgain, Fault
  <1>6. ASSUME NEW at \in {"send", "cancel"}, Becomes(s, at) PROVE TellInv'
    <2>1. /\ SendersFit' /\ OneSends' /\ AtWork' = AtWork
          /\ \A t \in AtWork : t = s /\ Ids(t)' = Ids(t)
          /\ sender'[s].at = at
      BY <1>1, <1>2, <1>6, BecomesMoves DEF Stages
    <2>2. TakenIsLast'
      BY <1>6, <2>1 DEF TakenIsLast
    <2>3. KnownIsOver'
      BY <1>2, <1>4, <2>1, KnownStaysOver
    <2> QED  BY <1>3, <1>5, <2>1, <2>2, <2>3 DEF TellInv, MessagesFit
  <1>7. ASSUME GoOn(s) PROVE TellInv'
    <2>1. /\ SendersFit' /\ OneSends' /\ AtWork' \subseteq {s} /\ AtWork' \subseteq AtWork
          /\ \A t \in AtWork' : sender'[t].at = "next" /\ Ids(t)' \subseteq Ids(t) \ {Hand(t)}
      BY <1>1, <1>2, <1>7, GoOnMoves
    <2>2. TakenIsLast'
      BY <2>1 DEF TakenIsLast
    <2>3. KnownIsOver'
      BY <1>2, <1>4, <2>1, KnownStaysOver
    <2> QED  BY <1>3, <1>5, <2>1, <2>2, <2>3 DEF TellInv, MessagesFit
  <1> QED  BY <1>6, <1>7 DEF AskAgain

\* A step of a sender's that ends with its message, and perhaps says of it e.
LEMMA EndingKeeps ==
  ASSUME TellInv, NEW s \in AtWork, GoOn(s), UNCHANGED <<subjects, message, copies, desk>>,
         resting' \subseteq Queued, faults' \in Nat,
         UNCHANGED log \/ \E e \in {"cancelled", "failed", "retry"} : Event(Hand(s), e)
  PROVE  TellInv'
  <1>1. Hand(s) \in Queued /\ Hand(s) \in Ids(s) /\ RowsFit /\ Queued' = Queued
        /\ UNCHANGED message /\ UNCHANGED copies /\ UNCHANGED desk
    BY HandIsQueued DEF TellInv, MessagesFit, Queued
  <1>2. /\ log' \in Seq(Seq(Happenings)) /\ Len(log') = Len(log)
        /\ \A m \in Queued : log'[m] # <<>> /\ Longer(m)
        /\ \A m \in Queued : Waiting(m)' => Waiting(m) \/ m \in Ids(s)
        /\ \A m \in Queued : /\ Had(m, "sent")' => Had(m, "sent")
                             /\ Had(m, "delivered")' => Had(m, "delivered")
    <2>1. CASE UNCHANGED log
      BY <1>1, <2>1 DEF RowsFit, Longer, Waiting, Last, Had
    <2>2. ASSUME NEW e \in {"cancelled", "failed", "retry"}, Event(Hand(s), e)
          PROVE  /\ log' \in Seq(Seq(Happenings)) /\ Len(log') = Len(log)
                 /\ \A m \in Queued : log'[m] # <<>> /\ Longer(m)
                 /\ \A m \in Queued : Waiting(m)' => Waiting(m) \/ m \in Ids(s)
                 /\ \A m \in Queued : /\ Had(m, "sent")' => Had(m, "sent")
                                      /\ Had(m, "delivered")' => Had(m, "delivered")
      <3>1. PICK h \in Queued : h = Hand(s)
        BY <1>1
      <3>2. e \in Happenings /\ Event(h, e)
        BY <2>2, <3>1 DEF Happenings
      <3>3. /\ log' \in Seq(Seq(Happenings)) /\ Len(log') = Len(log)
            /\ \A n \in Queued : log'[n] # <<>> /\ Longer(n)
            /\ \A n \in Queued : n # h => log'[n] = log[n]
            /\ Last(h)' = e
            /\ \A f : Had(h, f)' <=> f = e \/ Had(h, f)
        BY <1>1, <3>2, EventIsNoted
      <3>4. \A m \in Queued : Waiting(m)' => Waiting(m) \/ m \in Ids(s)
        <4>1. \A m \in Queued : m # h => (Waiting(m)' <=> Waiting(m))
          BY <3>3 DEF Waiting, Last
        <4> QED  BY <1>1, <3>1, <4>1
      <3>5. \A m \in Queued : /\ Had(m, "sent")' => Had(m, "sent")
                              /\ Had(m, "delivered")' => Had(m, "delivered")
        <4> SUFFICES ASSUME NEW m \in Queued
                     PROVE  /\ Had(m, "sent")' => Had(m, "sent")
                            /\ Had(m, "delivered")' => Had(m, "delivered")
          OBVIOUS
        <4>1. CASE m = h
          <5>1. e # "sent" /\ e # "delivered"
            BY <2>2
          <5> QED  BY <3>3, <4>1, <5>1
        <4>2. CASE m # h
          BY <3>3, <4>2 DEF Had
        <4> QED  BY <4>1, <4>2
      <3> QED  BY <3>3, <3>4, <3>5
    <2> QED  BY <2>1, <2>2
  <1>3. RowsFit'
    BY <1>1, <1>2 DEF RowsFit
  <1>4. SubjectsFit' /\ DesksFit'
    BY <1>1, SubjectsLeftAlone, DesksLeftAlone
  <1>5. /\ SendersFit' /\ OneSends' /\ AtWork' \subseteq {s} /\ AtWork' \subseteq AtWork
        /\ \A t \in AtWork' : sender'[t].at = "next" /\ Ids(t)' \subseteq Ids(t) \ {Hand(t)}
    BY <1>1, GoOnMoves
  <1>6. TakenIsLast'
    BY <1>5 DEF TakenIsLast
  <1>7. KnownIsOver'
    <2>1. \A m \in Queued : Waiting(m)' => Waiting(m) \/ \E t \in AtWork : m \in Ids(t)
      BY <1>2
    <2>2. \A t \in AtWork' : \A m \in Ids(t)' : Waiting(m) \/ (t \in AtWork /\ m \in Ids(t))
      BY <1>5
    <2> QED  BY <1>1, <2>1, <2>2, KnownStaysOver
  <1>8. OneAsks' /\ OncePerTime'
    BY <1>1, <1>2, SaidStaysSaid DEF TellInv
  <1>9. SentWasTaken'
    BY <1>1, <1>2 DEF TellInv, SentWasTaken
  <1> QED  BY <1>3, <1>4, <1>5, <1>6, <1>7, <1>8, <1>9 DEF TellInv, MessagesFit

LEMMA StopSendingKeeps == ASSUME TellInv, NEW s \in Senders, StopSending(s) PROVE TellInv'
  <1>1. s \in AtWork /\ GoOn(s) /\ UNCHANGED <<subjects, message, copies, desk>> /\ UNCHANGED resting
    BY WhoIsAtWork DEF StopSending, Stages
  <1>2. UNCHANGED log \/ \E e \in {"cancelled", "failed", "retry"} : Event(Hand(s), e)
    BY DEF StopSending
  <1>3. resting' \subseteq Queued /\ faults' \in Nat
    BY <1>1 DEF TellInv, MessagesFit, RowsFit, StopSending, Fault
  <1> QED  BY <1>1, <1>2, <1>3, EndingKeeps

LEMMA MessageNotSentKeeps == ASSUME TellInv, NEW s \in Senders, MessageNotSent(s) PROVE TellInv'
  <1>1. s \in AtWork /\ GoOn(s) /\ UNCHANGED <<subjects, message, copies, desk>>
    BY WhoIsAtWork DEF MessageNotSent, Stages
  <1>2. UNCHANGED log \/ \E e \in {"cancelled", "failed", "retry"} : Event(Hand(s), e)
    BY DEF MessageNotSent
  <1>3. resting' \subseteq Queued
    <2>1. resting' = resting \/ resting' = resting \cup {Hand(s)}
      BY DEF MessageNotSent
    <2> QED  BY <1>1, <2>1, HandIsQueued DEF TellInv, MessagesFit, RowsFit
  <1>4. faults' \in Nat
    <2>1. faults' = faults \/ faults' = faults + 1
      BY DEF MessageNotSent, Fault
    <2> QED  BY <2>1 DEF TellInv, MessagesFit
  <1> QED  BY <1>1, <1>2, <1>3, <1>4, EndingKeeps

\* One more copy, of a message of which none is written down.
LEMMA SendKeeps == ASSUME TellInv, NEW s \in Senders, Send(s) PROVE TellInv'
  <1>1. /\ s \in AtWork /\ UNCHANGED <<subjects, message, log, resting, desk, faults>>
        /\ UNCHANGED message /\ UNCHANGED log /\ UNCHANGED desk /\ UNCHANGED resting
    BY WhoIsAtWork DEF Send, Stages
  <1>2. PICK h \in Queued : h = Hand(s) /\ h \in Ids(s)
    BY <1>1, HandIsQueued
  <1>3. PICK at \in Stages : Becomes(s, at)
    BY DEF Send, Stages
  <1>4. /\ SendersFit' /\ OneSends' /\ AtWork' = AtWork
        /\ \A t \in AtWork : t = s /\ Ids(t)' = Ids(t)
        /\ sender'[s].at = at /\ sender'[s].batch = sender[s].batch
    BY <1>1, <1>3, BecomesMoves
  <1>5. Queued' = Queued /\ Hand(s)' = h /\ RowsFit
    BY <1>1, <1>2, <1>4 DEF Queued, Hand, TellInv, MessagesFit
  <1>6. SubjectsFit' /\ DesksFit' /\ faults' \in Nat
    BY <1>1, SubjectsLeftAlone, DesksLeftAlone DEF TellInv, MessagesFit
  <1>7. OneAsks' /\ OncePerTime'
    BY <1>1, <1>5, SaidStaysSaid DEF TellInv, Longer
  <1>8. ASSUME UNCHANGED copies, NEW answer \in {"refused", "no provider"}, Becomes(s, answer) PROVE TellInv'
    <2>1. RowsFit'
      BY <1>1, <1>5, <1>8 DEF RowsFit
    <2>2. SentWasTaken'
      BY <1>1, <1>5, <1>8 DEF TellInv, SentWasTaken, Had
    <2>3. KnownIsOver'
      <3>1. \A m \in Queued : Waiting(m)' => Waiting(m)
        BY <1>1 DEF Waiting, Last
      <3> QED  BY <1>1, <1>4, <1>8, <3>1, KnownStaysOver
    <2>4. sender'[s].at = answer
      BY <1>1, <1>8, BecomesMoves DEF Stages
    <2>5. TakenIsLast'
      BY <1>4, <2>4 DEF TakenIsLast
    <2> QED  BY <1>4, <1>6, <1>7, <2>1, <2>2, <2>3, <2>5 DEF TellInv, MessagesFit
  <1>9. CASE copies' = [copies EXCEPT ![Hand(s)] = Append(@, [by |-> s, known |-> FALSE, reported |-> FALSE])]
    <2> DEFINE new == [by |-> s, known |-> FALSE, reported |-> FALSE]
    <2> DEFINE all == Append(copies[h], new)
    <2>1. /\ copies[h] \in Seq(Copy) /\ new \in Copy /\ DOMAIN copies = Queued
          /\ Len(copies) \in Nat /\ Queued = 1 .. Len(copies)
      BY <1>2, <1>5, Shapes DEF Copy, RowsFit
    <2>2. /\ all \in Seq(Copy) /\ all # <<>> /\ Len(all) = Len(copies[h]) + 1 /\ Len(copies[h]) \in Nat
          /\ \A c \in 1 .. Len(copies[h]) : all[c] = copies[h][c]
          /\ all[Len(copies[h]) + 1] = new
      BY <2>1, AppendProperties, LenProperties
    <2>3. DOMAIN all = 1 .. Len(all) /\ DOMAIN copies[h] = 1 .. Len(copies[h])
      BY <2>1, <2>2, LenProperties
    <2>4. copies' = [copies EXCEPT ![h] = all]
      BY <1>2, <1>9
    <2> HIDE DEF all
    <2>5. /\ copies' \in Seq(Seq(Copy)) /\ Len(copies') = Len(copies)
          /\ copies'[h] = all /\ \A m \in Queued : m # h => copies'[m] = copies[m]
      <3>1. /\ [copies EXCEPT ![h] = all] \in Seq(Seq(Copy))
            /\ Len([copies EXCEPT ![h] = all]) = Len(copies)
        BY <2>1, <2>2, ExceptSeq, <1>5 DEF RowsFit
      <3> QED  BY <2>1, <2>4, <3>1
    <2>6. RowsFit'
      BY <1>1, <1>5, <2>5 DEF RowsFit
    <2>7. SentWasTaken'
        <3>1. \A m \in Queued : copies[m] # <<>> => copies'[m] # <<>>
        BY <2>2, <2>5
      <3>2. \A m \in Queued, e \in {"sent", "delivered"} : Had(m, e)' <=> Had(m, e)
        BY <1>1 DEF Had
      <3> QED  BY <1>5, <3>1, <3>2 DEF TellInv, SentWasTaken
    <2>8. ~new.known /\ new.by = s
      OBVIOUS
    <2> HIDE DEF new
    <2>9. KnownIsOver'
      <3> SUFFICES ASSUME NEW m \in Queued, NEW c \in DOMAIN copies'[m], copies'[m][c].known
                   PROVE  c = Len(copies'[m]) /\ ~Waiting(m)' /\ \A t \in AtWork' : m \notin Ids(t)'
        BY <1>5 DEF KnownIsOver
      <3>1. m # h
        <4> SUFFICES ASSUME m = h PROVE FALSE
          OBVIOUS
        <4>1. c \in 1 .. (Len(copies[h]) + 1) /\ all[c].known
          BY <2>2, <2>3, <2>5
        <4>2. c # Len(copies[h]) + 1
          BY <2>2, <2>8, <4>1
        <4>3. c \in DOMAIN copies[h] /\ copies[h][c].known
          BY <2>2, <2>3, <4>1, <4>2
        <4> QED  BY <1>1, <1>2, <4>3 DEF TellInv, KnownIsOver
      <3>2. copies'[m] = copies[m]
        BY <2>5, <3>1
      <3>3. Waiting(m)' <=> Waiting(m)
        BY <1>1 DEF Waiting, Last
      <3> QED  BY <1>4, <3>2, <3>3 DEF TellInv, KnownIsOver
    <2>10. TakenIsLast'
      BY <1>4, <1>5, <2>2, <2>5, <2>8 DEF TakenIsLast
    <2> QED  BY <1>4, <1>6, <1>7, <2>6, <2>7, <2>9, <2>10 DEF TellInv, MessagesFit
  <1> QED  BY <1>8, <1>9 DEF Send

\* One copy is marked: no copy comes or goes.
LEMMA CopyIsMarked ==
  ASSUME RowsFit, NEW m \in Queued, NEW c \in DOMAIN copies[m], NEW new \in Copy,
         copies' = [copies EXCEPT ![m][c] = new]
  PROVE  /\ copies' \in Seq(Seq(Copy)) /\ Len(copies') = Len(copies)
         /\ \A n \in Queued : /\ n # m => copies'[n] = copies[n]
                              /\ Len(copies'[n]) = Len(copies[n])
                              /\ DOMAIN copies'[n] = DOMAIN copies[n]
                              /\ copies'[n] # <<>> <=> copies[n] # <<>>
         /\ \A d \in DOMAIN copies[m] : copies'[m][d] = IF d = c THEN new ELSE copies[m][d]
  <1>1. /\ copies[m] \in Seq(Copy) /\ DOMAIN copies = Queued /\ DOMAIN copies[m] = 1 .. Len(copies[m])
        /\ Len(copies) \in Nat /\ Queued = 1 .. Len(copies) /\ copies \in Seq(Seq(Copy))
    BY Shapes DEF RowsFit
  <1> DEFINE all == [copies[m] EXCEPT ![c] = new]
  <1>2. /\ all \in Seq(Copy) /\ Len(all) = Len(copies[m])
        /\ \A d \in 1 .. Len(copies[m]) : all[d] = IF d = c THEN new ELSE copies[m][d]
    BY <1>1, ExceptSeq
  <1>3. DOMAIN all = DOMAIN copies[m] /\ copies[m] # <<>> /\ all # <<>>
    <2>1. DOMAIN all = 1 .. Len(all)
      BY <1>2, LenProperties
    <2>2. DOMAIN all = DOMAIN copies[m]
      BY <1>1, <1>2, <2>1
    <2>3. c \in DOMAIN all /\ c \in DOMAIN copies[m]
      BY <2>2
    <2> HIDE DEF all
    <2>4. DOMAIN <<>> = {}
      OBVIOUS
    <2> QED  BY <2>2, <2>3, <2>4
  <1>4. copies' = [copies EXCEPT ![m] = all]
    OBVIOUS
  <1> HIDE DEF all
  <1>5. [copies EXCEPT ![m] = all] \in Seq(Seq(Copy)) /\ Len([copies EXCEPT ![m] = all]) = Len(copies)
    BY <1>1, <1>2, ExceptSeq
  <1>6. copies'[m] = all /\ \A n \in Queued : n # m => copies'[n] = copies[n]
    BY <1>1, <1>4
  <1> QED  BY <1>1, <1>2, <1>3, <1>4, <1>5, <1>6

\* The copy the provider answered for is written down: it is the last.
LEMMA MessageSentKeeps == ASSUME TellInv, NEW s \in Senders, MessageSent(s) PROVE TellInv'
  <1>1. /\ s \in AtWork /\ GoOn(s) /\ UNCHANGED <<subjects, message, resting, desk>>
        /\ UNCHANGED message /\ UNCHANGED desk /\ UNCHANGED resting /\ sender[s].at = "taken"
    BY WhoIsAtWork DEF MessageSent, Stages
  <1>2. faults' \in Nat
    <2>1. faults' = faults \/ faults' = faults + 1
      BY DEF MessageSent, Fault
    <2> QED  BY <2>1 DEF TellInv, MessagesFit
  <1>3. CASE UNCHANGED <<log, copies>>
    <2>1. resting' \subseteq Queued
      BY <1>1 DEF TellInv, MessagesFit, RowsFit
    <2> QED  BY <1>1, <1>2, <1>3, <2>1, EndingKeeps
  <1>4. CASE Event(Hand(s), "sent") /\ copies' = [copies EXCEPT ![Hand(s)][LastBy(s)].known = TRUE]
    <2>1. PICK h \in Queued : h = Hand(s) /\ h \in Ids(s)
      BY <1>1, HandIsQueued
    <2>2. /\ RowsFit /\ Queued' = Queued
          /\ copies[h] \in Seq(Copy) /\ copies[h] # <<>> /\ DOMAIN copies[h] = 1 .. Len(copies[h])
          /\ Len(copies[h]) \in Nat /\ copies[h][Len(copies[h])].by = s
      BY <1>1, <2>1, Shapes DEF TellInv, MessagesFit, TakenIsLast, Queued
    <2>3. PICK k \in DOMAIN copies[h] : k = Len(copies[h])
      BY <2>2
    <2>4. LastBy(s) = k
      <3> DEFINE Is(c) == /\ copies[h][c].by = s
                          /\ \A d \in DOMAIN copies[h] : copies[h][d].by = s => d <= c
      <3>1. Is(k) /\ \A c \in DOMAIN copies[h] : Is(c) => c = k
        BY <2>2, <2>3
      <3>2. LastBy(s) = CHOOSE c \in DOMAIN copies[h] : Is(c)
        BY <2>1 DEF LastBy
      <3> HIDE DEF Is
      <3> QED  BY <3>1, <3>2
    <2> DEFINE new == [copies[h][k] EXCEPT !.known = TRUE]
    <2>5. copies[h][k] \in Copy
      BY <2>2, ElementOfSeq
    <2>6. new \in Copy
      BY <2>5 DEF Copy
    <2>7. copies' = [copies EXCEPT ![h][k] = new]
      BY <1>4, <2>1, <2>4
    <2> HIDE DEF new
    <2>8. /\ copies' \in Seq(Seq(Copy)) /\ Len(copies') = Len(copies)
          /\ \A n \in Queued : /\ n # h => copies'[n] = copies[n]
                               /\ Len(copies'[n]) = Len(copies[n])
                               /\ DOMAIN copies'[n] = DOMAIN copies[n]
                               /\ copies'[n] # <<>> <=> copies[n] # <<>>
          /\ \A d \in DOMAIN copies[h] : copies'[h][d] = IF d = k THEN new ELSE copies[h][d]
      BY <2>2, <2>6, <2>7, CopyIsMarked
    <2>9. "sent" \in Happenings /\ Event(h, "sent")
      BY <1>4, <2>1 DEF Happenings
    <2>10. /\ log' \in Seq(Seq(Happenings)) /\ Len(log') = Len(log)
           /\ \A n \in Queued : log'[n] # <<>> /\ Longer(n)
           /\ \A n \in Queued : n # h => log'[n] = log[n]
           /\ Last(h)' = "sent"
           /\ \A f : Had(h, f)' <=> f = "sent" \/ Had(h, f)
      BY <1>1, <2>2, <2>9, EventIsNoted
    <2>11. RowsFit'
      BY <1>1, <2>2, <2>8, <2>10 DEF RowsFit
    <2>12. SubjectsFit' /\ DesksFit'
      BY <1>1, SubjectsLeftAlone, DesksLeftAlone
    <2>13. /\ SendersFit' /\ OneSends' /\ AtWork' \subseteq {s} /\ AtWork' \subseteq AtWork
           /\ \A t \in AtWork' : sender'[t].at = "next" /\ Ids(t)' \subseteq Ids(t) \ {Hand(t)}
      BY <1>1, GoOnMoves
    <2>14. TakenIsLast'
      BY <2>13 DEF TakenIsLast
    <2>15. OneAsks' /\ OncePerTime'
      BY <1>1, <2>2, <2>10, SaidStaysSaid DEF TellInv
    <2>16. SentWasTaken'
      <3> SUFFICES ASSUME NEW m \in Queued, Had(m, "sent")' \/ Had(m, "delivered")' PROVE copies'[m] # <<>>
        BY <2>2 DEF SentWasTaken
      <3>1. CASE m = h
        BY <2>2, <2>8, <3>1
      <3>2. CASE m # h
        <4>1. Had(m, "sent") \/ Had(m, "delivered")
          BY <2>10, <3>2 DEF Had
        <4> QED  BY <2>8, <4>1 DEF TellInv, SentWasTaken
      <3> QED  BY <3>1, <3>2
    <2>17. KnownIsOver'
      <3> SUFFICES ASSUME NEW m \in Queued, NEW c \in DOMAIN copies'[m], copies'[m][c].known
                   PROVE  c = Len(copies'[m]) /\ ~Waiting(m)' /\ \A t \in AtWork' : m \notin Ids(t)'
        BY <2>2 DEF KnownIsOver
      <3>1. CASE m # h
        <4>1. copies'[m] = copies[m] /\ (Waiting(m)' <=> Waiting(m))
          BY <2>8, <2>10, <3>1 DEF Waiting, Last
        <4> QED  BY <2>13, <4>1 DEF TellInv, KnownIsOver
      <3>2. CASE m = h
        <4>1. c \in DOMAIN copies[h]
          BY <2>8, <3>2
        <4>2. c = k
          <5> SUFFICES ASSUME c # k PROVE FALSE
            OBVIOUS
          <5>1. copies[h][c].known
            BY <2>8, <3>2, <4>1
          <5> QED  BY <1>1, <2>1, <4>1, <5>1 DEF TellInv, KnownIsOver
        <4>3. ~Waiting(m)'
          BY <2>10, <3>2 DEF Waiting
        <4>4. \A t \in AtWork' : m \notin Ids(t)'
          BY <2>1, <2>13, <3>2
        <4> QED  BY <2>3, <2>8, <3>2, <4>2, <4>3, <4>4
      <3> QED  BY <3>1, <3>2
    <2> QED  BY <1>2, <2>11, <2>12, <2>13, <2>14, <2>15, <2>16, <2>17 DEF TellInv, MessagesFit
  <1> QED  BY <1>3, <1>4 DEF MessageSent

\* The provider says what became of a copy it took.
LEMMA ReportKeeps == ASSUME TellInv, Report PROVE TellInv'
  <1>0. PICK m \in Queued : \E c \in DOMAIN copies[m], e \in {"delivered", "failed"} :
          /\ copies' = [copies EXCEPT ![m][c].reported = TRUE]
          /\ IF copies[m][c].known THEN Event(m, e) ELSE UNCHANGED log
          /\ UNCHANGED <<subjects, message, resting, desk, sender, faults>>
    BY DEF Report
  <1>1. PICK c \in DOMAIN copies[m], e \in {"delivered", "failed"} :
          /\ copies' = [copies EXCEPT ![m][c].reported = TRUE]
          /\ IF copies[m][c].known THEN Event(m, e) ELSE UNCHANGED log
          /\ UNCHANGED <<subjects, message, resting, desk, sender, faults>>
    BY <1>0
  <1>2. /\ RowsFit /\ Queued' = Queued /\ UNCHANGED message /\ UNCHANGED desk
        /\ UNCHANGED sender /\ UNCHANGED resting
    BY <1>1 DEF TellInv, MessagesFit, Queued
  <1> DEFINE new == [copies[m][c] EXCEPT !.reported = TRUE]
  <1>3. copies[m][c] \in Copy
    <2>1. copies[m] \in Seq(Copy) /\ c \in 1 .. Len(copies[m])
      BY <1>2, Shapes
    <2> QED  BY <2>1, ElementOfSeq
  <1>4. new \in Copy /\ new.known = copies[m][c].known /\ new.by = copies[m][c].by
    BY <1>3 DEF Copy
  <1>5. copies' = [copies EXCEPT ![m][c] = new]
    BY <1>1
  <1> HIDE DEF new
  <1>6. /\ copies' \in Seq(Seq(Copy)) /\ Len(copies') = Len(copies)
        /\ \A n \in Queued : /\ n # m => copies'[n] = copies[n]
                             /\ Len(copies'[n]) = Len(copies[n])
                             /\ DOMAIN copies'[n] = DOMAIN copies[n]
                             /\ copies'[n] # <<>> <=> copies[n] # <<>>
        /\ \A d \in DOMAIN copies[m] : copies'[m][d] = IF d = c THEN new ELSE copies[m][d]
    BY <1>2, <1>4, <1>5, CopyIsMarked
  <1>7. \A n \in Queued : \A d \in DOMAIN copies[n] :
          copies'[n][d].known = copies[n][d].known /\ copies'[n][d].by = copies[n][d].by
    BY <1>4, <1>6
  <1>8. /\ log' \in Seq(Seq(Happenings)) /\ Len(log') = Len(log)
        /\ \A n \in Queued : /\ log'[n] # <<>> /\ Longer(n)
                             /\ n # m => log'[n] = log[n]
                             /\ Waiting(n)' => Waiting(n)
    <2>1. CASE copies[m][c].known
      <3>1. Event(m, e) /\ e \in Happenings
        BY <1>1, <2>1 DEF Happenings
      <3>2. /\ log' \in Seq(Seq(Happenings)) /\ Len(log') = Len(log)
            /\ \A n \in Queued : log'[n] # <<>> /\ Longer(n)
            /\ \A n \in Queued : n # m => log'[n] = log[n]
            /\ Last(m)' = e
        BY <1>2, <3>1, EventIsNoted
      <3>3. ~Waiting(m)'
        BY <3>2 DEF Waiting
      <3>4. \A n \in Queued : Waiting(n)' => Waiting(n)
        BY <3>2, <3>3 DEF Waiting, Last
      <3> QED  BY <3>2, <3>4
    <2>2. CASE ~copies[m][c].known
      BY <1>1, <1>2, <2>2 DEF RowsFit, Longer, Waiting, Last
    <2> QED  BY <2>1, <2>2
  <1>9. RowsFit'
    BY <1>2, <1>6, <1>8 DEF RowsFit
  <1>10. SubjectsFit' /\ DesksFit' /\ faults' \in Nat /\ SendersFit' /\ OneSends' /\ AtWork' = AtWork
    BY <1>1, <1>2, SubjectsLeftAlone, DesksLeftAlone, SendersLeftAlone DEF TellInv, MessagesFit
  <1>11. OneAsks' /\ OncePerTime'
    BY <1>2, <1>8, SaidStaysSaid DEF TellInv
  <1>12. SentWasTaken'
    <2> SUFFICES ASSUME NEW n \in Queued, Had(n, "sent")' \/ Had(n, "delivered")' PROVE copies[n] # <<>>
      BY <1>2, <1>6 DEF SentWasTaken
    <2>1. CASE n = m
      <3>1. DOMAIN <<>> = {} /\ c \in DOMAIN copies[n]
        BY <2>1
      <3> QED  BY <3>1
    <2>2. CASE n # m
      <3>1. Had(n, "sent") \/ Had(n, "delivered")
        BY <1>8, <2>2 DEF Had
      <3> QED  BY <3>1 DEF TellInv, SentWasTaken
    <2> QED  BY <2>1, <2>2
  <1>13. KnownIsOver'
    <2> SUFFICES ASSUME NEW n \in Queued, NEW d \in DOMAIN copies[n], copies[n][d].known
                 PROVE  d = Len(copies[n]) /\ ~Waiting(n)' /\ \A t \in AtWork : n \notin Ids(t)
      <3>1. \A t \in AtWork : Ids(t)' = Ids(t)
        BY <1>2 DEF Ids
      <3> QED  BY <1>2, <1>6, <1>7, <1>10, <3>1 DEF KnownIsOver
    <2> QED  BY <1>8 DEF TellInv, KnownIsOver
  <1>14. TakenIsLast'
    <2> SUFFICES ASSUME NEW s \in AtWork, sender[s].at = "taken"
                 PROVE  copies'[Hand(s)] # <<>> /\ copies'[Hand(s)][Len(copies'[Hand(s)])].by = s
      BY <1>2, <1>10 DEF TakenIsLast, Hand
    <2>1. PICK h \in Queued : h = Hand(s)
      BY HandIsQueued
    <2>2. copies[h] # <<>> /\ copies[h][Len(copies[h])].by = s
      BY <2>1 DEF TellInv, TakenIsLast
    <2>3. copies[h] \in Seq(Copy) /\ Len(copies[h]) \in DOMAIN copies[h]
      BY <1>2, <2>2, Shapes
    <2> QED  BY <1>6, <1>7, <2>1, <2>2, <2>3
  <1> QED  BY <1>9, <1>10, <1>11, <1>12, <1>13, <1>14 DEF TellInv, MessagesFit

LEMMA RestedKeeps == ASSUME TellInv, Rested PROVE TellInv'
  <1>1. /\ resting' \subseteq resting /\ UNCHANGED <<subjects, message, log, copies, desk, sender, faults>>
        /\ UNCHANGED message /\ UNCHANGED log /\ UNCHANGED copies /\ UNCHANGED desk /\ UNCHANGED sender
    BY DEF Rested
  <1>2. Queued' = Queued /\ \A m \in Queued : Longer(m)
    BY <1>1 DEF Queued, Longer
  <1>3. RowsFit'
    BY <1>1, <1>2 DEF TellInv, MessagesFit, RowsFit
  <1>4. /\ SubjectsFit' /\ DesksFit' /\ faults' \in Nat /\ SendersFit' /\ OneSends'
        /\ AtWork' = AtWork /\ TakenIsLast'
    BY <1>1, SubjectsLeftAlone, DesksLeftAlone, SendersLeftAlone DEF TellInv, MessagesFit
  <1>5. OneAsks' /\ OncePerTime'
    BY <1>1, <1>2, SaidStaysSaid DEF TellInv, MessagesFit
  <1>6. SentWasTaken'
    BY <1>1, <1>2 DEF TellInv, SentWasTaken, Had
  <1>7. KnownIsOver'
    BY <1>1, <1>2, <1>4 DEF TellInv, KnownIsOver, Waiting, Last, Ids
  <1> QED  BY <1>3, <1>4, <1>5, <1>6, <1>7 DEF TellInv, MessagesFit

LEMMA RestartKeeps == ASSUME TellInv, Restart PROVE TellInv'
  <1>1. /\ sender' = [s \in Senders |-> NotSending] /\ desk' = [d \in Desks |-> NoDesk]
        /\ UNCHANGED <<subjects, rows>> /\ UNCHANGED rows /\ faults' = faults + 1
    BY DEF Restart, Fault
  <1>2. AtWork' = {} /\ UNCHANGED <<message, log, copies>> /\ Queued' = Queued
    BY <1>1 DEF AtWork, rows, Queued
  <1>3. RowsFit' /\ SentWasTaken' /\ OncePerTime' /\ SubjectsFit'
    BY <1>1, RowsLeftAlone, SubjectsLeftAlone
  <1>4. SendersFit' /\ OneSends' /\ TakenIsLast'
    BY <1>1, <1>2 DEF SendersFit, OneSends, TakenIsLast
  <1>5. DesksFit' /\ OneAsks'
    <2>1. \A d \in Desks : desk'[d].at = "idle"
      BY <1>1 DEF NoDesk
    <2> QED  BY <1>1, <2>1 DEF DesksFit, OneAsks
  <1>6. KnownIsOver'
    BY <1>2 DEF TellInv, KnownIsOver, Waiting, Last
  <1>7. faults' \in Nat
    BY <1>1 DEF TellInv, MessagesFit
  <1> QED  BY <1>3, <1>4, <1>5, <1>6, <1>7 DEF TellInv, MessagesFit

-----------------------------------------------------------------------------
(* The theorems.                                                           *)

LEMMA InitTells == InitMessages => TellInv
  <1> SUFFICES ASSUME InitMessages PROVE TellInv
    OBVIOUS
  <1>1. Queued = {} /\ AtWork = {}
    BY DEF InitMessages, Queued, AtWork
  <1>2. RowsFit
    BY <1>1, EmptySeq DEF InitMessages, RowsFit
  <1>3. SubjectsFit
    BY HoursAreCounted DEF InitMessages, SubjectsFit, Hours
  <1>4. DesksFit /\ OneAsks
    <2>1. \A d \in Desks : desk[d].at = "idle"
      BY DEF InitMessages, NoDesk
    <2> QED  BY <2>1 DEF InitMessages, DesksFit, OneAsks
  <1>5. SendersFit /\ OneSends /\ TakenIsLast
    BY <1>1 DEF InitMessages, SendersFit, OneSends, TakenIsLast
  <1>6. KnownIsOver /\ SentWasTaken /\ OncePerTime
    BY <1>1 DEF KnownIsOver, SentWasTaken, OncePerTime
  <1>7. faults \in Nat
    BY DEF InitMessages
  <1> QED  BY <1>2, <1>3, <1>4, <1>5, <1>6, <1>7 DEF TellInv, MessagesFit

LEMMA NextTells == TellInv /\ [NextMessages]_tellvars => TellInv'
  <1> SUFFICES ASSUME TellInv, [NextMessages]_tellvars PROVE TellInv'
    OBVIOUS
  <1>1. ASSUME NEW s \in Senders, SendSteps(s) PROVE TellInv'
    BY <1>1, BeginKeeps, AskAgainKeeps, StopSendingKeeps, SendKeeps, MessageSentKeeps, MessageNotSentKeeps
       DEF SendSteps
  <1>2. CASE OutsideSteps
    BY <1>2, RestedKeeps, ReportKeeps, RestartKeeps DEF OutsideSteps
  <1>3. CASE UNCHANGED tellvars
    <2>1. UNCHANGED <<subjects, rows, sender, faults>> /\ UNCHANGED desk /\ UNCHANGED rows
      BY <1>3 DEF tellvars, subjects, rows
    <2> QED  BY <2>1, DeskTurns, DesksLeftAlone, RowsLeftAlone
  <1> QED  BY <1>1, <1>2, <1>3, SubjectsKeep, DesksKeep DEF NextMessages, Sending

\* The inductive invariant holds of every behaviour of the messages.
THEOREM MessagesAreKept == SpecMessages => []TellInv
  <1> QED
    BY InitTells, NextTells, PTL DEF SpecMessages

\* What the shop wrote down as sent is the last copy a provider got
\* (handlers_messages.go:36-41), what says sent or delivered was taken by one,
\* and a customer is told once of a booking's time unless somebody asked for
\* more (booking_messages.go:47-50): for any desks, senders, messages, hours
\* and restarts.
THEOREM MessagesTellTheTruth == SpecMessages => []MessagesAreTrue
  <1>1. TellInv => MessagesAreTrue
    BY DEF TellInv, KnownIsOver, MessagesAreTrue, HandedOverOnce
  <1> QED
    BY <1>1, MessagesAreKept, PTL

\* Every row, desk, batch and hour of the messages is what it should be
\* (messages.go, migration 0040): a batch has each of its messages once, and
\* one goroutine sends.
THEOREM MessagesAreWellFormed == SpecMessages => [](MessagesFit /\ OneSends)
  <1>1. TellInv => MessagesFit /\ OneSends
    BY DEF TellInv
  <1> QED
    BY <1>1, MessagesAreKept, PTL

=============================================================================
