------------------------------- MODULE Outbox -------------------------------
(***************************************************************************)
(* Calls to the outside world (outbox.go, migration 0080): each is a row,  *)
(* where it stands is the last of its events, and workers claim, send and  *)
(* record one row at a time under a lease.                                 *)
(*                                                                         *)
(* Whatever locks a row reads where it stands afterwards and is one step.  *)
(* A claim is one statement and two steps: what is due is read with the    *)
(* statement's snapshot, and only the lease is looked at again once the    *)
(* row is locked.                                                          *)
(*                                                                         *)
(* A lease runs out when it likes, also while its worker works: a process  *)
(* may be stopped between any two steps.  So may a retry fall due.  What   *)
(* is sent and what the provider says beyond its answer is left out.       *)
(***************************************************************************)
EXTENDS Naturals, FiniteSets

CONSTANTS
  Calls,        \* rows that are asked for, by their kind and key
  Workers,      \* passes of RunOutbox that can be under way at once
  Leases,       \* the times leases run until; no two are the same
  MaxAttempts,  \* max_attempts
  MaxCrashes,   \* bound: how often a worker dies or its database does
  None

ASSUME NoneIsNoLease   == None \notin Leases
ASSUME AttemptsAreMade == MaxAttempts \in Nat \ {0}
ASSUME CrashesAreFew   == MaxCrashes \in Nat

VARIABLES
  state,     \* [Calls -> the last event, or "unasked"]
  attempts,  \* [Calls -> attempts since it was last queued, at most MaxAttempts]
  claimed,   \* [Calls -> claimed_until: a lease or None]
  running,   \* the leases whose time has not come
  worker,    \* [Workers -> what each is doing]
  crashes

row  == <<state, attempts, claimed>>
vars == <<row, running, worker, crashes>>

Open  == {"queued", "retry_scheduled", "attempted"}
Stuck == {"given_up", "manual_task"}
Done  == {"succeeded", "done_by_hand"}

Idle   == [at |-> "idle"]
Busy   == {w \in Workers : worker[w].at # "idle"}
Owning == {w \in Workers : worker[w].at \in {"claimed", "sending"}}

Init ==
  /\ state = [c \in Calls |-> "unasked"]
  /\ attempts = [c \in Calls |-> 0]
  /\ claimed = [c \in Calls |-> None]
  /\ running = {}
  /\ worker = [w \in Workers |-> Idle]
  /\ crashes = 0

-----------------------------------------------------------------------------
(* People, and the changes that cause the calls.                           *)

Queue(c) == state' = [state EXCEPT ![c] = "queued"] /\ attempts' = [attempts EXCEPT ![c] = 0]

\* enqueueTx: the first time, or again after it was cancelled.  A lease is left.
Ask(c) ==
  /\ state[c] \in {"unasked", "cancelled"}
  /\ Queue(c)
  /\ UNCHANGED <<claimed, running, worker, crashes>>

\* CancelOutbox; cancelOutboxTx, for a module switched off or a person erased.
Cancel(c) ==
  /\ state[c] \in Open \cup Stuck
  /\ state' = [state EXCEPT ![c] = "cancelled"]
  /\ UNCHANGED <<attempts, claimed, running, worker, crashes>>

\* RetryOutbox.
Retry(c) ==
  /\ state[c] \in Stuck
  /\ Queue(c)
  /\ claimed' = [claimed EXCEPT ![c] = None]
  /\ UNCHANGED <<running, worker, crashes>>

\* FinishOutboxByHand.
FinishByHand(c) ==
  /\ state[c] \in Stuck
  /\ state' = [state EXCEPT ![c] = "done_by_hand"]
  /\ UNCHANGED <<attempts, claimed, running, worker, crashes>>

-----------------------------------------------------------------------------
(* Workers.                                                                *)

\* A mutant: a call whose worker died is not due again.
DueUnlessAttempted(c) == state[c] \in {"queued", "retry_scheduled"}
\* outbox_state's due_at, whose time comes when it likes.
Due(c) == state[c] \in Open

Free(c) == claimed[c] = None \/ claimed[c] \notin running

\* claimOutboxTx, as its snapshot has it.
Look(w, c) ==
  /\ worker[w].at = "idle"
  /\ Due(c) /\ Free(c)
  /\ worker' = [worker EXCEPT ![w] = [at |-> "looked", call |-> c, attempt |-> attempts[c] + 1]]
  /\ UNCHANGED <<row, running, crashes>>

\* ... and as it finds the row when it gets its lock: skipped, or claimed.
Take(w) ==
  /\ worker[w].at = "looked"
  /\ LET c == worker[w].call
     IN  IF ~Free(c) THEN worker' = [worker EXCEPT ![w] = Idle] /\ UNCHANGED <<row, running>>
         ELSE \E l \in Leases :
                /\ \A d \in Calls : claimed[d] # l
                /\ \A v \in Owning : worker[v].lease # l
                /\ claimed' = [claimed EXCEPT ![c] = l] /\ running' = running \cup {l}
                /\ state' = [state EXCEPT ![c] = "attempted"]
                /\ attempts' = [attempts EXCEPT ![c] = IF @ < MaxAttempts THEN @ + 1 ELSE @]
                /\ worker' = [worker EXCEPT ![w] = [at |-> "claimed", call |-> c, lease |-> l,
                                                    attempt |-> worker[w].attempt]]
  /\ UNCHANGED crashes

\* sendOutbox, before it sends: still its own, still running, not cancelled.
Check(w) ==
  /\ worker[w].at = "claimed"
  /\ LET c    == worker[w].call
         live == claimed[c] = worker[w].lease /\ claimed[c] \in running
     IN  /\ worker' = [worker EXCEPT ![w] = IF live /\ state[c] = "attempted" THEN [@ EXCEPT !.at = "sending"]
                                            ELSE Idle]
         /\ claimed' = IF live /\ state[c] # "attempted" THEN [claimed EXCEPT ![c] = None] ELSE claimed
  /\ UNCHANGED <<state, attempts, running, crashes>>

\* A mutant: that it failed is written, and not what is to happen next.
ComesToNothing(answer, attempt) ==
  CASE answer = "ok"      -> "succeeded"
    [] answer = "by hand" -> "manual_task"
    [] OTHER              -> "failed"
\* What the answer to an attempt comes to.
ComesTo(answer, attempt) ==
  CASE answer = "ok"      -> "succeeded"
    [] answer = "by hand" -> "manual_task"
    [] answer = "refused" -> "given_up"
    [] answer = "failed"  -> IF attempt >= MaxAttempts THEN "given_up" ELSE "retry_scheduled"
Answers == {"ok", "by hand", "refused", "failed"}

\* A mutant: whose lease it is is not asked again.
StillOurs(w) == TRUE
Ours(w) == claimed[worker[w].call] = worker[w].lease

\* A mutant: the outcome is written to the call as it was when it was claimed.
OutcomeAsClaimed(c, answer, attempt) == ComesTo(answer, attempt)
\* Cancelled while it was sent, and perhaps asked for again, only that it went
\* through is written.
Outcome(c, answer, attempt) ==
  IF state[c] = "attempted" \/ answer = "ok" THEN ComesTo(answer, attempt) ELSE state[c]

\* sendOutbox, once the provider has answered.
Finish(w) ==
  /\ worker[w].at = "sending"
  /\ worker' = [worker EXCEPT ![w] = Idle]
  /\ LET c == worker[w].call
     IN  IF ~Ours(w) THEN UNCHANGED row
         ELSE /\ claimed' = [claimed EXCEPT ![c] = None]
              /\ \E answer \in Answers : state' = [state EXCEPT ![c] = Outcome(c, answer, worker[w].attempt)]
              /\ UNCHANGED attempts
  /\ UNCHANGED <<running, crashes>>

\* A process dies, or cannot reach the database: what it was writing is not
\* written, and what it claimed stays claimed.
Crash(w) ==
  /\ w \in Busy /\ crashes < MaxCrashes
  /\ worker' = [worker EXCEPT ![w] = Idle] /\ crashes' = crashes + 1
  /\ UNCHANGED <<row, running>>

\* outboxLease passes.
RunsOut(l) ==
  /\ l \in running
  /\ running' = running \ {l}
  /\ UNCHANGED <<row, worker, crashes>>

Next ==
  \/ \E c \in Calls : Ask(c) \/ Cancel(c) \/ Retry(c) \/ FinishByHand(c)
  \/ \E w \in Workers, c \in Calls : Look(w, c)
  \/ \E w \in Workers : Take(w) \/ Check(w) \/ Finish(w) \/ Crash(w)
  \/ \E l \in Leases : RunsOut(l)

Spec == Init /\ [][Next]_vars

\* sendLoop runs the outbox every sendEvery for as long as the process lives
\* and takes what is due longest first; a provider has half a lease to answer
\* in, so it is not always that a lease runs out first; and time passes.
Fairness ==
  /\ \A c \in Calls : SF_vars(\E w \in Workers : Look(w, c))
  /\ \A w \in Workers : WF_vars(Take(w)) /\ WF_vars(Check(w)) /\ WF_vars(Finish(w))
  /\ \A w \in Workers : /\ SF_vars(Check(w) /\ worker'[w].at = "sending")
                        /\ SF_vars(Finish(w) /\ Ours(w))
  /\ \A l \in Leases : WF_vars(RunsOut(l))

FairSpec == Spec /\ Fairness

-----------------------------------------------------------------------------
(* What is promised.                                                       *)

Doing ==
  {Idle}
  \cup [at : {"looked"}, call : Calls, attempt : 1..(MaxAttempts + 1)]
  \cup [at : {"claimed", "sending"}, call : Calls, lease : Leases, attempt : 1..(MaxAttempts + 1)]

TypeOK ==
  /\ state \in [Calls -> {"unasked", "cancelled"} \cup Open \cup Stuck \cup Done]
  /\ attempts \in [Calls -> 0..MaxAttempts]
  /\ claimed \in [Calls -> Leases \cup {None}]
  /\ running \subseteq Leases
  /\ worker \in [Workers -> Doing]
  /\ crashes \in 0..MaxCrashes

\* outbox.go:200-208: "two workers never send the same row while a lease runs":
\* of two that have claimed a call and not ended with it, however the call was
\* cancelled, asked for again or put right by hand meanwhile, at most one has a
\* lease that still runs.
OneSender ==
  \A v, w \in Owning :
    /\ worker[v].call = worker[w].call
    /\ worker[v].lease \in running /\ worker[w].lease \in running
    => v = w

\* What is over, and what waits for a person, stays so until a person says
\* otherwise -- whoever was still sending it, or overdue with it -- but that a
\* call cancelled while it was made turns out to have gone through.  One worker
\* is excepted: the one that looked while the call was still to be made, and
\* gets the row only now.
RestsUntilAskedFor ==
  [][\A c \in Calls : state[c] \notin Open /\ state'[c] # state[c] =>
       \/ Ask(c) \/ Cancel(c) \/ Retry(c) \/ FinishByHand(c)
       \/ state[c] = "cancelled" /\ state'[c] = "succeeded"
       \/ \E w \in Workers : Take(w) /\ worker[w].call = c]_vars

\* Every call asked for is made, cancelled, or put in front of a person, though
\* workers die with it and providers fail.
NothingIsForgotten == \A c \in Calls : state[c] \in Open ~> state[c] \notin Open
=============================================================================
