------------------------ MODULE OfflineQueueProofs --------------------------
(***************************************************************************)
(* Held work is carried out at most once, for every number of tablets'     *)
(* pages, people, keys and attempts under way, as long as no item waits    *)
(* for longer than its claim is kept.                                      *)
(***************************************************************************)
EXTENDS OfflineQueue, SequenceTheorems, TLAPS

\* What a request is made of, and the claim each key is known by.
RequestsAreReal ==
    /\ \A r \in Reqs : req[r].stage = "idle" => req[r] = NoRequest
    /\ \A r \in Reqs : req[r].stage # "idle" => req[r].key \in Held /\ req[r].page \in Pages
    /\ \A r \in Reqs : Running(r) => req[r].as \in Users
    /\ \A r \in Reqs : req[r].stage = "failed" => req[r].answer \in {"refused", "later"}

\* A request that may still reach the claim.
UnderWay(k) == \E r \in Reqs : req[r].stage # "idle" /\ req[r].key = k
MayBeSent(k) == k \in Waiting \/ UnderWay(k)

\* Only what somebody held has left a trace anywhere.
OnlyHeldWork ==
    /\ Waiting \subseteq Held
    /\ \A k \in Keys : claims[k].row # "none" => k \in Held
    /\ \A k \in Keys : carried[k] > 0 => k \in Held

\* Work that was done is behind a claim for as long as it could be sent again.
DoneStaysClaimed == \A k \in Keys : carried[k] > 0 /\ MayBeSent(k) => claims[k].row # "none"

\* A claim old enough to be swept is one nothing can ask for any more.
OldMeansOver ==
    \A k \in Keys : claims[k].age = 2 => claims[k].row # "none" /\ ~MayBeSent(k)

----------------------------------------------------------------------------
(* The operators.                                                          *)

\* flush takes one item of the key out of the queue, and leaves the others in
\* their order.
LEMMA QueueWithoutOne ==
    ASSUME queue \in Seq(Item), NEW k \in Waiting, queue' = QueueWithout(k)
    PROVE  \E i \in 1..Len(queue) :
             /\ queue[i].key = k
             /\ queue' \in Seq(Item) /\ Len(queue') = Len(queue) - 1
             /\ \A n \in 1..(Len(queue) - 1) : queue'[n] = queue[IF n < i THEN n ELSE n + 1]
<1> DEFINE i == CHOOSE j \in 1..Len(queue) : queue[j].key = k
<1>1. i \in 1..Len(queue) /\ queue[i].key = k
  BY DEF Waiting
<1>2. queue' = SubSeq(queue, 1, i - 1) \o SubSeq(queue, i + 1, Len(queue))
  BY DEF QueueWithout, RemoveAt
<1> HIDE DEF i
<1> DEFINE front == SubSeq(queue, 1, i - 1)
           back == SubSeq(queue, i + 1, Len(queue))
<1>3. /\ front \in Seq(Item)
      /\ Len(front) = i - 1
      /\ \A n \in 1..(i - 1) : front[n] = queue[n]
  BY <1>1, LenProperties, SubSeqProperties
<1>4. /\ back \in Seq(Item)
      /\ Len(back) = Len(queue) - i
      /\ \A n \in 1..(Len(queue) - i) : back[n] = queue[n + i]
  BY <1>1, LenProperties, SubSeqProperties
<1>5. queue' = front \o back
  BY <1>2
<1> HIDE DEF front, back
<1>6. /\ queue' \in Seq(Item)
      /\ Len(queue') = Len(queue) - 1
      /\ \A n \in 1..(Len(queue) - 1) :
           queue'[n] = IF n <= i - 1 THEN front[n] ELSE back[n - (i - 1)]
  <2>1. /\ queue' \in Seq(Item)
        /\ Len(queue') = Len(front) + Len(back)
        /\ \A n \in 1..(Len(front) + Len(back)) :
             queue'[n] = IF n <= Len(front) THEN front[n] ELSE back[n - Len(front)]
    <3>1. /\ front \o back \in Seq(Item)
          /\ Len(front \o back) = Len(front) + Len(back)
          /\ \A n \in 1..(Len(front) + Len(back)) :
               (front \o back)[n] = IF n <= Len(front) THEN front[n] ELSE back[n - Len(front)]
      BY <1>3, <1>4, ConcatProperties, Zenon
    <3> QED
      BY <1>5, <3>1, Zenon
  <2>2. Len(queue) \in Nat /\ Len(front) + Len(back) = Len(queue) - 1
    BY <1>1, <1>3, <1>4, LenProperties
  <2> QED
    BY <1>3, <2>1, <2>2
<1>7. ASSUME NEW n \in 1..(Len(queue) - 1)
      PROVE  queue'[n] = queue[IF n < i THEN n ELSE n + 1]
  <2>1. /\ i \in Nat /\ Len(queue) \in Nat /\ i <= Len(queue)
        /\ n \in Nat /\ 1 <= n /\ n <= Len(queue) - 1
    BY <1>1, LenProperties
  <2>2. queue'[n] = IF n <= i - 1 THEN front[n] ELSE back[n - (i - 1)]
    BY <1>6
  <2>3. CASE n <= i - 1
    <3>1. n \in 1..(i - 1) /\ n < i
      BY <2>1, <2>3
    <3> QED
      BY <1>3, <2>2, <2>3, <3>1
  <2>4. CASE ~(n <= i - 1)
    <3>1. /\ n - (i - 1) \in 1..(Len(queue) - i) /\ ~(n < i)
          /\ n - (i - 1) + i = n + 1
      BY <2>1, <2>4
    <3>2. queue'[n] = queue[n - (i - 1) + i]
      BY <1>4, <2>2, <2>4, <3>1
    <3> QED
      BY <3>1, <3>2
  <2> QED
    BY <2>3, <2>4
<1> QED
  BY <1>1, <1>6, <1>7

\* flush never puts an item into the queue.
LEMMA QueueWithoutShrinks ==
    ASSUME queue \in Seq(Item), NEW k \in Keys, queue' = QueueWithout(k)
    PROVE  queue' \in Seq(Item) /\ Waiting' \subseteq Waiting
<1>1. CASE k \notin Waiting
  BY <1>1 DEF QueueWithout, Waiting
<1>2. CASE k \in Waiting
  <2>1. PICK i \in 1..Len(queue) :
             /\ queue' \in Seq(Item) /\ Len(queue') = Len(queue) - 1
             /\ \A n \in 1..(Len(queue) - 1) : queue'[n] = queue[IF n < i THEN n ELSE n + 1]
    BY <1>2, QueueWithoutOne
  <2>2. Len(queue) \in Nat
    BY LenProperties
  <2>3. ASSUME NEW n \in 1..Len(queue') PROVE \E m \in 1..Len(queue) : queue'[n] = queue[m]
    <3>1. n \in 1..(Len(queue) - 1)
      BY <2>1
    <3>2. (IF n < i THEN n ELSE n + 1) \in 1..Len(queue)
      BY <2>2, <3>1
    <3> QED
      BY <2>1, <3>1, <3>2
  <2> QED
    BY <2>1, <2>3 DEF Waiting
<1> QED
  BY <1>1, <1>2

\* What becomes of the requests in a step that starts none and claims nothing:
\* each stays as it is, ends, is answered, or is no longer listened to.
Calmer ==
    \A r \in Reqs :
        \/ req'[r] = req[r]
        \/ req'[r] = NoRequest
        \/ /\ req[r].stage # "idle"
           /\ req'[r].stage \in {req[r].stage, "answered"}
           /\ req'[r].key = req[r].key
           /\ req'[r].page = req[r].page
           /\ req'[r].as = req[r].as
           /\ req'[r].stage = "failed" => req'[r].answer = req[r].answer

LEMMA AnsweredIsCalmer ==
    ASSUME req \in [Reqs -> Request], NEW r \in Reqs, NEW answer \in Answers,
           req[r].stage # "idle", Answered(r, answer)
    PROVE  req' \in [Reqs -> Request] /\ Calmer
<1> USE DEF Request, NoRequest, Stages
<1>1. NoRequest \in Request
  BY DEF Answers, Someone
<1>2. CASE req[r].heard
  <2>1. req' = [req EXCEPT ![r] = [req[r] EXCEPT !.stage = "answered", !.answer = answer]]
    BY <1>2 DEF Answered
  <2> QED
    BY <2>1 DEF Calmer
<1>3. CASE ~req[r].heard
  <2>1. req' = [req EXCEPT ![r] = NoRequest]
    BY <1>3 DEF Answered
  <2> QED
    BY <2>1, <1>1 DEF Calmer
<1> QED
  BY <1>2, <1>3

LEMMA UnheardIsCalmer ==
    ASSUME req \in [Reqs -> Request], RequestsAreReal,
           NEW p \in Pages, req' = Unheard(p)
    PROVE  req' \in [Reqs -> Request] /\ Calmer
<1>1. NoRequest \in Request
  BY DEF Request, NoRequest, Stages, Answers, Someone
<1>2. ASSUME NEW r \in Reqs, req[r].page = p, req[r].stage \notin {"idle", "answered"}
      PROVE  req'[r] = [req[r] EXCEPT !.heard = FALSE]
  BY <1>2 DEF Unheard, GivenUp
<1>3. ASSUME NEW r \in Reqs, ~(req[r].page = p /\ req[r].stage \notin {"idle", "answered"})
      PROVE  req'[r] \in {req[r], NoRequest}
  BY <1>3 DEF Unheard, GivenUp
<1>4. ASSUME NEW r \in Reqs
      PROVE  /\ req'[r] \in Request
             /\ \/ req'[r] = req[r]
                \/ req'[r] = NoRequest
                \/ /\ req[r].stage # "idle"
                   /\ req'[r].stage = req[r].stage
                   /\ req'[r].key = req[r].key
                   /\ req'[r].page = req[r].page
                   /\ req'[r].as = req[r].as
                   /\ req'[r].answer = req[r].answer
  <2>1. req[r] \in Request
    OBVIOUS
  <2>2. CASE req[r].page = p /\ req[r].stage \notin {"idle", "answered"}
    BY <1>2, <2>1, <2>2 DEF Request
  <2> QED
    BY <1>1, <1>3, <2>1, <2>2
<1>5. req' \in [Reqs -> Request]
  BY <1>4 DEF Unheard
<1> QED
  BY <1>4, <1>5 DEF Calmer

----------------------------------------------------------------------------
(* Types.                                                                  *)

Typed == TypeOK /\ RequestsAreReal
Basics == Typed /\ OnlyHeldWork

LEMMA InitBasics == Init => Basics
  BY DEF Init, Basics, OnlyHeldWork, Held, Waiting, Typed, TypeOK, RequestsAreReal, NoRequest, NoClaim, Request, Claim,
         Stages, Answers, Ages, Someone, Running

LEMMA LoadTyped == ASSUME Typed, NEW p \in Pages, Load(p) PROVE TypeOK' /\ Calmer
  BY UnheardIsCalmer DEF Typed, Load, TypeOK, records, Someone

LEMMA SignInTyped ==
    ASSUME Typed, NEW p \in Pages, NEW u \in Users, SignIn(p, u) PROVE TypeOK' /\ Calmer
  BY UnheardIsCalmer DEF Typed, SignIn, TypeOK, records, Someone

LEMMA CalmTyped ==
    ASSUME Typed, TypeOK', Calmer, author' = author
    PROVE  Typed'
<1>1. Held' = Held
  BY DEF Held
<1>2. ASSUME NEW r \in Reqs
      PROVE  /\ req'[r].stage = "idle" => req'[r] = NoRequest
             /\ req'[r].stage # "idle" => req'[r].key \in Held /\ req'[r].page \in Pages
             /\ Running(r)' => req'[r].as \in Users
             /\ req'[r].stage = "failed" => req'[r].answer \in {"refused", "later"}
  <2>1. CASE req'[r] = req[r]
    BY <2>1 DEF Typed, RequestsAreReal, Running
  <2>2. CASE req'[r] = NoRequest
    BY <2>2 DEF NoRequest, Running
  <2>3. CASE /\ req[r].stage # "idle"
             /\ req'[r].stage \in {req[r].stage, "answered"}
             /\ req'[r].key = req[r].key
             /\ req'[r].page = req[r].page
             /\ req'[r].as = req[r].as
             /\ req'[r].stage = "failed" => req'[r].answer = req[r].answer
    BY <2>3 DEF Typed, RequestsAreReal, Running
  <2> QED
    BY <2>1, <2>2, <2>3 DEF Calmer
<1> QED
  BY <1>1, <1>2 DEF Typed, RequestsAreReal

\* A calm step leaves whatever it did not touch as real as it was.
LEMMA CalmBasics ==
    ASSUME Basics, TypeOK', Calmer, author' = author, Waiting' \subseteq Waiting,
           \A k \in Keys : claims'[k].row # "none" => claims[k].row # "none",
           carried' = carried
    PROVE  Basics'
  BY CalmTyped DEF Basics, OnlyHeldWork, Held

LEMMA HoldQueue ==
    ASSUME Basics, NEW p \in Pages, NEW k \in Keys, Hold(p, k)
    PROVE  /\ pageUser[p] \in Users
           /\ queue' \in Seq(Item)
           /\ Waiting' \subseteq Waiting \cup {k}
<1>1. pageUser[p] \in Users
  BY DEF Hold, Basics, Typed, TypeOK, Someone
<1>2. [key |-> k, user |-> pageUser[p]] \in Item
  BY <1>1 DEF Item
<1>3. /\ queue' \in Seq(Item)
      /\ \/ queue' = queue
         \/ /\ Len(queue') = Len(queue) + 1
            /\ \A i \in 1..Len(queue) : queue'[i] = queue[i]
            /\ queue'[Len(queue) + 1] = [key |-> k, user |-> pageUser[p]]
  BY <1>2, AppendProperties DEF Hold, Basics, Typed, TypeOK
<1>4. Waiting' \subseteq Waiting \cup {k}
  BY <1>3, LenProperties DEF Waiting, Basics, Typed, TypeOK
<1> QED
  BY <1>1, <1>3, <1>4

LEMMA HoldBasics ==
    ASSUME Basics, NEW p \in Pages, NEW k \in Keys, Hold(p, k) PROVE Basics'
<1> USE DEF records, device
<1>1. author' \in [Keys -> Someone] /\ Held' = Held \cup {k}
  BY HoldQueue, OfflineQueueAssumption DEF Hold, Basics, Typed, TypeOK, Someone, Held
<1>2. TypeOK'
  BY <1>1, HoldQueue DEF Hold, Basics, Typed, TypeOK
<1>3. RequestsAreReal'
  BY <1>1 DEF Hold, Basics, Typed, RequestsAreReal, Running
<1>4. OnlyHeldWork'
  BY <1>1, HoldQueue DEF Hold, Basics, OnlyHeldWork
<1> QED
  BY <1>2, <1>3, <1>4 DEF Basics, Typed

LEMMA FlushBasics ==
    ASSUME Basics, NEW p \in Pages, NEW r \in Reqs, Flush(p, r) PROVE Basics'
<1> USE DEF records, device
<1>1. PICK i \in 1..Len(queue) : req' = [req EXCEPT ![r] =
                    [stage |-> "sent", page |-> p, key |-> queue[i].key,
                     as |-> signedIn, answer |-> "none", heard |-> TRUE]]
  BY DEF Flush
<1>2. queue[i] \in Item /\ queue[i].key \in Held
  BY ElementOfSeq DEF Basics, Typed, TypeOK, Waiting, OnlyHeldWork
<1>3. TypeOK'
  BY <1>1, <1>2 DEF Flush, Basics, Typed, TypeOK, Request, Stages, Answers, Someone, Item
<1>4. RequestsAreReal'
  BY <1>1, <1>2 DEF Flush, Basics, Typed, TypeOK, RequestsAreReal, Running, Held
<1>5. OnlyHeldWork'
  BY DEF Flush, Basics, OnlyHeldWork, Held, Waiting
<1> QED
  BY <1>3, <1>4, <1>5 DEF Basics, Typed

LEMMA ReceiveCalm ==
    ASSUME Basics, NEW r \in Reqs, Receive(r)
    PROVE  TypeOK' /\ Calmer /\ Waiting' \subseteq Waiting
<1> USE DEF records, device
<1>1. req[r].key \in Keys /\ req[r].page \in Pages
  BY DEF Receive, Basics, Typed, RequestsAreReal, Held
<1>2. queue' \in Seq(Item) /\ Waiting' \subseteq Waiting
  <2>1. CASE queue' = queue
    BY <2>1 DEF Basics, Typed, TypeOK, Waiting
  <2>2. CASE queue' = QueueWithout(req[r].key)
    BY <1>1, <2>2, QueueWithoutShrinks DEF Basics, Typed, TypeOK
  <2> QED
    BY <2>1, <2>2 DEF Receive
<1>3. refused' \in Seq(Keys)
  <2>1. refused' = refused \/ refused' = Append(refused, req[r].key)
    BY DEF Receive
  <2>2. Append(refused, req[r].key) \in Seq(Keys)
    BY <1>1, AppendProperties DEF Basics, Typed, TypeOK
  <2> QED
    BY <2>1, <2>2 DEF Basics, Typed, TypeOK
<1>4. req' \in [Reqs -> Request] /\ Calmer
  BY DEF Receive, Basics, Typed, TypeOK, Calmer, Request, NoRequest, Stages, Answers, Someone
<1>5. needsSignIn' \in [Pages -> BOOLEAN]
  BY <1>1 DEF Receive, Basics, Typed, TypeOK
<1> QED
  BY <1>2, <1>3, <1>4, <1>5 DEF Receive, Basics, Typed, TypeOK

LEMMA HangUpCalm == ASSUME Typed, NEW r \in Reqs, HangUp(r) PROVE TypeOK' /\ Calmer
<1> USE DEF records, device
<1>1. req[r] \in Request
  BY DEF Typed, TypeOK
<1>2. GivenUp(req[r]) \in {NoRequest, [req[r] EXCEPT !.heard = FALSE]}
  BY DEF GivenUp
<1>3. NoRequest \in Request /\ [req[r] EXCEPT !.heard = FALSE] \in Request
  BY <1>1 DEF Request, NoRequest, Stages, Answers, Someone
<1>4. req' \in [Reqs -> Request]
  BY <1>2, <1>3 DEF HangUp, Typed, TypeOK
<1>5. TypeOK'
  BY <1>4 DEF HangUp, Typed, TypeOK
<1>6. CASE GivenUp(req[r]) = NoRequest
  BY <1>5, <1>6 DEF HangUp, Typed, TypeOK, Calmer, NoRequest
<1>7. CASE GivenUp(req[r]) = [req[r] EXCEPT !.heard = FALSE]
  BY <1>1, <1>5, <1>7 DEF HangUp, Typed, TypeOK, Calmer, Request
<1> QED
  BY <1>2, <1>5, <1>6, <1>7

\* The server's answers that touch nothing but the request.
LEMMA AnswerCalm ==
    ASSUME Typed, NEW r \in Reqs, Unauthenticated(r) \/ ClaimTaken(r) \/ ClaimUnchecked(r)
    PROVE  TypeOK' /\ Calmer
<1> USE DEF records, device
<1>1. req[r].stage # "idle" /\ \E answer \in Answers : Answered(r, answer)
  BY DEF Unauthenticated, ClaimTaken, ClaimUnchecked, Answers
<1>2. req' \in [Reqs -> Request] /\ Calmer
  BY <1>1, AnsweredIsCalmer DEF Typed, TypeOK
<1> QED
  BY <1>2 DEF Unauthenticated, ClaimTaken, ClaimUnchecked, Typed, TypeOK

LEMMA ClaimFreshBasics ==
    ASSUME Basics, NEW r \in Reqs, ClaimFresh(r) PROVE Basics'
<1> USE DEF records, device
<1>1. /\ req[r] \in Request /\ req[r].key \in Held /\ req[r].key \in Keys
      /\ req[r].page \in Pages /\ req[r].as \in Users
  BY DEF ClaimFresh, Basics, Typed, TypeOK, RequestsAreReal, Held, Request, Someone
<1>2. [row |-> "pending", by |-> req[r].as, age |-> 0] \in Claim
  BY <1>1 DEF Claim, Ages, Someone
<1>3. claims' \in [Keys -> Claim]
  BY <1>2 DEF ClaimFresh, Basics, Typed, TypeOK
<1>4. req' \in [Reqs -> Request]
  BY <1>1 DEF ClaimFresh, Basics, Typed, TypeOK, Request, Stages
<1>5. TypeOK'
  BY <1>3, <1>4 DEF ClaimFresh, Basics, Typed, TypeOK
<1>6. RequestsAreReal'
  BY <1>1, <1>4 DEF ClaimFresh, Basics, Typed, TypeOK, RequestsAreReal, Running, Held, Request
<1>7. OnlyHeldWork'
  BY <1>1, <1>3 DEF ClaimFresh, Basics, Typed, TypeOK, OnlyHeldWork, Held, Waiting
<1> QED
  BY <1>5, <1>6, <1>7 DEF Basics, Typed

LEMMA CarryOutBasics ==
    ASSUME Basics, NEW r \in Reqs, CarryOut(r) PROVE Basics'
<1> USE DEF records, device
<1>1. /\ req[r] \in Request /\ req[r].key \in Held /\ req[r].key \in Keys
      /\ req[r].page \in Pages /\ req[r].as \in Users
  BY DEF CarryOut, Basics, Typed, TypeOK, RequestsAreReal, Held, Running
<1>2. req' \in [Reqs -> Request]
  BY <1>1 DEF CarryOut, Basics, Typed, TypeOK, Request, Stages
<1>3. TypeOK'
  BY <1>1, <1>2 DEF CarryOut, Basics, Typed, TypeOK
<1>4. RequestsAreReal'
  BY <1>1, <1>2 DEF CarryOut, Basics, Typed, TypeOK, RequestsAreReal, Running, Held, Request
<1>5. OnlyHeldWork'
  BY <1>1 DEF CarryOut, Basics, Typed, TypeOK, OnlyHeldWork, Held, Waiting
<1> QED
  BY <1>3, <1>4, <1>5 DEF Basics, Typed

LEMMA FailBasics ==
    ASSUME Basics, NEW r \in Reqs, NEW answer \in {"refused", "later"}, Fail(r, answer)
    PROVE  Basics'
<1> USE DEF records, device
<1>1. req[r] \in Request /\ req[r].as \in Users
  BY DEF Fail, Basics, Typed, TypeOK, RequestsAreReal, Running
<1>2. req' \in [Reqs -> Request]
  BY <1>1 DEF Fail, Basics, Typed, TypeOK, Request, Stages, Answers
<1>3. TypeOK'
  BY <1>2 DEF Fail, Basics, Typed, TypeOK
<1>4. RequestsAreReal'
  BY <1>1, <1>2 DEF Fail, Basics, Typed, TypeOK, RequestsAreReal, Running, Held, Request
<1>5. OnlyHeldWork'
  BY DEF Fail, Basics, OnlyHeldWork, Held, Waiting
<1> QED
  BY <1>3, <1>4, <1>5 DEF Basics, Typed

\* What Complete and Release may do to a claim: nothing, finish it, or give it back.
LEMMA EndCalm ==
    ASSUME Basics, NEW r \in Reqs, Complete(r) \/ Release(r)
    PROVE  /\ TypeOK' /\ Calmer
           /\ \A k \in Keys : claims'[k].row # "none" => claims[k].row # "none"
<1> USE DEF records, device
<1>1. req[r].stage # "idle" /\ req[r].key \in Keys
  BY DEF Complete, Release, Basics, Typed, RequestsAreReal, Held
<1>2. \E answer \in Answers : Answered(r, answer)
  BY DEF Complete, Release, Basics, Typed, RequestsAreReal, Answers
<1>3. req' \in [Reqs -> Request] /\ Calmer
  BY <1>1, <1>2, AnsweredIsCalmer DEF Basics, Typed, TypeOK
<1>4. /\ claims' \in [Keys -> Claim]
      /\ \A k \in Keys : claims'[k].row # "none" => claims[k].row # "none"
  <2>1. CASE claims' = claims
    BY <2>1 DEF Basics, Typed, TypeOK
  <2>2. CASE claims' = [claims EXCEPT ![req[r].key].row = IF @ = "pending" THEN "done" ELSE @]
    BY <1>1, <2>2 DEF Basics, Typed, TypeOK, Claim
  <2>3. CASE claims' = [claims EXCEPT ![req[r].key] = IF @.row = "pending" THEN NoClaim ELSE @]
    BY <1>1, <2>3 DEF Basics, Typed, TypeOK, Claim, NoClaim, Ages, Someone
  <2> QED
    BY <2>1, <2>2, <2>3 DEF Complete, Release
<1> QED
  BY <1>3, <1>4 DEF Complete, Release, Basics, Typed, TypeOK

LEMMA TimeCalm ==
    ASSUME Basics, Sweep \/ (\E k \in Keys : Age(k))
    PROVE  /\ TypeOK'
           /\ \A k \in Keys : claims'[k].row # "none" => claims[k].row # "none"
<1> USE DEF records, device
<1>1. CASE Sweep
  BY <1>1 DEF Sweep, Basics, Typed, TypeOK, Claim, NoClaim, Ages, Someone
<1>2. ASSUME NEW k \in Keys, Age(k)
      PROVE  /\ TypeOK'
             /\ \A j \in Keys : claims'[j].row # "none" => claims[j].row # "none"
  <2>1. claims[k] \in Claim
    BY DEF Basics, Typed, TypeOK
  <2>2. [claims[k] EXCEPT !.age = claims[k].age + 1] \in Claim
    BY <1>2, <2>1 DEF Age, Claim, Ages
  <2>3. claims' \in [Keys -> Claim]
    BY <1>2, <2>2 DEF Age, Basics, Typed, TypeOK
  <2> QED
    BY <1>2, <2>1, <2>3 DEF Age, Basics, Typed, TypeOK, Claim
<1> QED
  BY <1>1, <1>2

LEMMA CrashCalm == ASSUME Typed, Crash PROVE TypeOK' /\ Calmer
  BY DEF Crash, Typed, TypeOK, Calmer, Request, NoRequest, Stages, Answers, Someone,
         records, device

LEMMA NextBasics == ASSUME Basics, [Next]_vars PROVE Basics'
<1> USE DEF records, device
<1>1. CASE UNCHANGED vars
  BY <1>1 DEF vars, Basics, OnlyHeldWork, Typed, TypeOK, RequestsAreReal, Running, Held, Waiting
<1>2. ASSUME NEW p \in Pages, Load(p) PROVE Basics'
  BY <1>2, LoadTyped, CalmBasics DEF Load, Basics, Waiting
<1>3. ASSUME NEW p \in Pages, NEW u \in Users, SignIn(p, u) PROVE Basics'
  BY <1>3, SignInTyped, CalmBasics DEF SignIn, Basics, Waiting
<1>4. CASE EndSession
  <2>1. TypeOK' /\ Calmer
    BY <1>4 DEF EndSession, Basics, Typed, TypeOK, Someone, Calmer
  <2> QED
    BY <1>4, <2>1, CalmBasics DEF EndSession, Waiting
<1>5. ASSUME NEW r \in Reqs, Receive(r) PROVE Basics'
  BY <1>5, ReceiveCalm, CalmBasics DEF Receive
<1>6. CASE Dismiss
  <2>1. TypeOK' /\ Calmer
    <3>1. SetAside \subseteq Keys
      BY ElementOfSeq DEF SetAside, Basics, Typed, TypeOK
    <3> QED
      BY <1>6, <3>1, EmptySeq DEF Dismiss, Basics, Typed, TypeOK, Calmer
  <2> QED
    BY <1>6, <2>1, CalmBasics DEF Dismiss, Waiting
<1>7. ASSUME NEW r \in Reqs, LoseRequest(r) PROVE Basics'
  <2>1. TypeOK' /\ Calmer
    BY <1>7 DEF LoseRequest, Basics, Typed, TypeOK, Calmer, Request, NoRequest, Stages,
                Answers, Someone
  <2> QED
    BY <1>7, <2>1, CalmBasics DEF LoseRequest, Waiting
<1>8. ASSUME NEW r \in Reqs, HangUp(r) PROVE Basics'
  BY <1>8, HangUpCalm, CalmBasics DEF HangUp, Basics, Waiting
<1>9. ASSUME NEW r \in Reqs, Unauthenticated(r) \/ ClaimTaken(r) \/ ClaimUnchecked(r)
      PROVE Basics'
  BY <1>9, AnswerCalm, CalmBasics
     DEF Unauthenticated, ClaimTaken, ClaimUnchecked, Basics, Waiting
<1>10. ASSUME NEW r \in Reqs, Complete(r) \/ Release(r) PROVE Basics'
  BY <1>10, EndCalm, CalmBasics DEF Complete, Release, Waiting
<1>11. CASE Crash
  BY <1>11, CrashCalm, CalmBasics DEF Crash, Basics, Waiting
<1>12. CASE Sweep \/ \E k \in Keys : Age(k)
  <2>1. req' = req /\ queue' = queue /\ author' = author /\ carried' = carried
    BY <1>12 DEF Sweep, Age
  <2> QED
    BY <1>12, <2>1, TimeCalm, CalmBasics DEF Calmer, Waiting
<1> QED
  BY <1>1, <1>2, <1>3, <1>4, <1>5, <1>6, <1>7, <1>8, <1>9, <1>10, <1>11, <1>12,
     HoldBasics, FlushBasics, ClaimFreshBasics, CarryOutBasics, FailBasics DEF Next

\* Every state the program reaches has the types of TypeOK, whatever the
\* constants, and whether or not items outlive their claims (keep.js, drafts.go).
THEOREM TypeCorrect == Spec => []TypeOK
<1>1. Init => Basics
  BY InitBasics
<1>2. Basics /\ [Next]_vars => Basics'
  BY NextBasics
<1>3. Basics => TypeOK
  BY DEF Basics, Typed
<1> QED
  BY <1>1, <1>2, <1>3, PTL DEF Spec

----------------------------------------------------------------------------
(* At most once.                                                           *)

Guarded == OneOwner /\ DoneStaysClaimed /\ OldMeansOver /\ CarriedOutAtMostOnce
IInv == Basics /\ Guarded

LEMMA InitGuarded == Init => Guarded
  BY DEF Init, Guarded, OneOwner, DoneStaysClaimed, OldMeansOver, CarriedOutAtMostOnce,
         Running, NoRequest, NoClaim

\* Nothing new is under way or claimed after a calm step.
LEMMA CalmReach ==
    ASSUME Basics, Calmer, Waiting' \subseteq Waiting
    PROVE  /\ \A k \in Keys : MayBeSent(k)' => MayBeSent(k)
           /\ \A r \in Reqs : Running(r)' =>
                /\ Running(r) /\ req'[r].key = req[r].key /\ req'[r].stage = req[r].stage
<1>1. ASSUME NEW r \in Reqs, req'[r].stage # "idle"
      PROVE  req[r].stage # "idle" /\ req'[r].key = req[r].key
  BY <1>1 DEF Calmer, NoRequest
<1>2. ASSUME NEW r \in Reqs, Running(r)'
      PROVE  Running(r) /\ req'[r].stage = req[r].stage
  BY <1>2 DEF Calmer, NoRequest, Running
<1>3. ASSUME NEW r \in Reqs, Running(r)' PROVE req'[r].stage # "idle"
  BY <1>3 DEF Running
<1> QED
  BY <1>1, <1>2, <1>3 DEF MayBeSent, UnderWay

LEMMA CalmGuarded ==
    ASSUME IInv, Calmer, carried' = carried, claims' = claims, Waiting' \subseteq Waiting
    PROVE  Guarded'
<1>1. OneOwner'
  <2>1. \A r, s \in Reqs : Running(r)' /\ Running(s)' /\ req'[r].key = req'[s].key => r = s
    BY CalmReach DEF IInv, Guarded, OneOwner
  <2>2. \A r \in Reqs : Running(r)' => claims'[req'[r].key].row = "pending"
    BY CalmReach DEF IInv, Guarded, OneOwner
  <2>3. ASSUME NEW r \in Reqs, req'[r].stage \in {"owned", "failed"}
        PROVE  carried'[req'[r].key] = 0
    <3>1. Running(r)'
      BY <2>3 DEF Running
    <3> QED
      BY <2>3, <3>1, CalmReach DEF IInv, Guarded, OneOwner
  <2> QED
    BY <2>1, <2>2, <2>3 DEF OneOwner
<1>2. DoneStaysClaimed' /\ OldMeansOver' /\ CarriedOutAtMostOnce'
  BY CalmReach DEF IInv, Guarded, DoneStaysClaimed, OldMeansOver, CarriedOutAtMostOnce
<1> QED
  BY <1>1, <1>2 DEF Guarded

LEMMA HoldGuarded ==
    ASSUME IInv, NEW p \in Pages, NEW k \in Keys, Hold(p, k) PROVE Guarded'
<1> USE DEF records, device
<1>1. Waiting' \subseteq Waiting \cup {k}
  BY HoldQueue DEF IInv
<1>2. \A j \in Keys : MayBeSent(j)' => MayBeSent(j) \/ j = k
  BY <1>1 DEF Hold, MayBeSent, UnderWay
<1>3. carried[k] = 0 /\ claims[k].row = "none"
  BY DEF Hold, IInv, Basics, Typed, TypeOK, OnlyHeldWork, Held
<1>4. OneOwner'
  BY DEF Hold, IInv, Guarded, OneOwner, Running
<1>5. DoneStaysClaimed' /\ OldMeansOver' /\ CarriedOutAtMostOnce'
  BY <1>2, <1>3
     DEF Hold, IInv, Guarded, DoneStaysClaimed, OldMeansOver, CarriedOutAtMostOnce
<1> QED
  BY <1>4, <1>5 DEF Guarded

LEMMA FlushGuarded ==
    ASSUME IInv, NEW p \in Pages, NEW r \in Reqs, Flush(p, r) PROVE Guarded'
<1> USE DEF records, device
<1>1. PICK i \in 1..Len(queue) : req' = [req EXCEPT ![r] =
                    [stage |-> "sent", page |-> p, key |-> queue[i].key,
                     as |-> signedIn, answer |-> "none", heard |-> TRUE]]
  BY DEF Flush
<1>2. queue[i].key \in Waiting
  BY DEF Waiting
<1>3. \A s \in Reqs : req'[s].stage \in {"owned", "committed", "failed"} => req'[s] = req[s]
  BY <1>1 DEF IInv, Basics, Typed, TypeOK
<1>4. \A j \in Keys : MayBeSent(j)' => MayBeSent(j)
  <2>1. ASSUME NEW s \in Reqs, req'[s].stage # "idle"
        PROVE  (req[s].stage # "idle" /\ req'[s].key = req[s].key) \/ req'[s].key \in Waiting
    BY <1>1, <1>2, <2>1 DEF IInv, Basics, Typed, TypeOK
  <2> QED
    BY <2>1 DEF MayBeSent, UnderWay, Flush, Waiting
<1>5. OneOwner'
  BY <1>3 DEF Flush, IInv, Guarded, OneOwner, Running
<1>6. DoneStaysClaimed' /\ OldMeansOver' /\ CarriedOutAtMostOnce'
  BY <1>4 DEF Flush, IInv, Guarded, DoneStaysClaimed, OldMeansOver, CarriedOutAtMostOnce
<1> QED
  BY <1>5, <1>6 DEF Guarded

\* A claim is won only for work nobody has done and nobody is doing.
LEMMA ClaimFreshGuarded ==
    ASSUME IInv, NEW r \in Reqs, ClaimFresh(r) PROVE Guarded'
<1> USE DEF records, device
<1> DEFINE k == req[r].key
<1>1. k \in Keys /\ UnderWay(k) /\ MayBeSent(k)
  BY DEF ClaimFresh, IInv, Basics, Typed, RequestsAreReal, Held, UnderWay, MayBeSent
<1>2. carried[k] = 0
  BY <1>1 DEF ClaimFresh, IInv, Basics, Typed, TypeOK, Guarded, DoneStaysClaimed
<1>3. \A s \in Reqs : Running(s) => req[s].key # k
  BY DEF ClaimFresh, IInv, Guarded, OneOwner
<1>4. /\ \A s \in Reqs \ {r} : req'[s] = req[s]
      /\ req'[r].stage = "owned" /\ req'[r].key = k
  BY DEF ClaimFresh, IInv, Basics, Typed, TypeOK, Request
<1>5. /\ \A j \in Keys \ {k} : claims'[j] = claims[j]
      /\ claims'[k].row = "pending" /\ claims'[k].age = 0
  BY <1>1 DEF ClaimFresh, IInv, Basics, Typed, TypeOK
<1>6. \A j \in Keys : MayBeSent(j)' => MayBeSent(j)
  BY <1>4, <1>1 DEF MayBeSent, UnderWay, ClaimFresh, Waiting
<1>7. carried' = carried
  BY DEF ClaimFresh
<1>8. OneOwner'
  <2>1. \A s, t \in Reqs : Running(s)' /\ Running(t)' /\ req'[s].key = req'[t].key => s = t
    BY <1>3, <1>4 DEF Running, IInv, Guarded, OneOwner
  <2>2. \A s \in Reqs : Running(s)' => claims'[req'[s].key].row = "pending"
    <3>1. ASSUME NEW s \in Reqs \ {r}, Running(s)'
          PROVE  claims'[req'[s].key].row = "pending"
      <4>1. Running(s) /\ req[s].key \in Keys /\ req[s].key # k
        BY <1>3, <1>4, <3>1 DEF Running, IInv, Basics, Typed, RequestsAreReal, Held
      <4> QED
        BY <1>4, <1>5, <4>1 DEF IInv, Guarded, OneOwner
    <3> QED
      BY <1>4, <1>5, <3>1
  <2>3. \A s \in Reqs : req'[s].stage \in {"owned", "failed"} => carried'[req'[s].key] = 0
    BY <1>2, <1>4, <1>7 DEF IInv, Guarded, OneOwner
  <2> QED
    BY <2>1, <2>2, <2>3 DEF OneOwner
<1>9. DoneStaysClaimed' /\ OldMeansOver' /\ CarriedOutAtMostOnce'
  BY <1>1, <1>5, <1>6, <1>7
     DEF IInv, Guarded, DoneStaysClaimed, OldMeansOver, CarriedOutAtMostOnce
<1> QED
  BY <1>8, <1>9 DEF Guarded

LEMMA CarryOutGuarded ==
    ASSUME IInv, NEW r \in Reqs, CarryOut(r) PROVE Guarded'
<1> USE DEF records, device
<1> DEFINE k == req[r].key
<1>1. /\ k \in Keys /\ MayBeSent(k) /\ Running(r)
      /\ carried[k] = 0 /\ claims[k].row = "pending"
  BY DEF CarryOut, Running, MayBeSent, UnderWay, IInv, Basics, Typed, RequestsAreReal, Held,
         Guarded, OneOwner
<1>2. /\ \A s \in Reqs \ {r} : req'[s] = req[s]
      /\ req'[r].stage = "committed" /\ req'[r].key = k
  BY DEF CarryOut, IInv, Basics, Typed, TypeOK, Request
<1>3. /\ \A j \in Keys \ {k} : carried'[j] = carried[j]
      /\ carried'[k] = 1
  BY <1>1 DEF CarryOut, IInv, Basics, Typed, TypeOK
<1>4. claims' = claims
  BY DEF CarryOut
<1>5. \A j \in Keys : MayBeSent(j)' => MayBeSent(j)
  BY <1>1, <1>2 DEF MayBeSent, UnderWay, CarryOut, Waiting
<1>6. \A s \in Reqs : Running(s)' => Running(s) /\ req'[s].key = req[s].key
  BY <1>1, <1>2 DEF Running
<1>7. OneOwner'
  <2>1. \A s, t \in Reqs : Running(s)' /\ Running(t)' /\ req'[s].key = req'[t].key => s = t
    BY <1>6 DEF IInv, Guarded, OneOwner
  <2>2. \A s \in Reqs : Running(s)' => claims'[req'[s].key].row = "pending"
    BY <1>4, <1>6 DEF IInv, Guarded, OneOwner
  <2>3. ASSUME NEW s \in Reqs, req'[s].stage \in {"owned", "failed"}
        PROVE  carried'[req'[s].key] = 0
    <3>1. s # r /\ req'[s] = req[s] /\ Running(s)
      BY <1>2, <2>3 DEF Running
    <3>2. req[s].key \in Keys /\ req[s].key # k
      BY <1>1, <3>1 DEF IInv, Basics, Typed, RequestsAreReal, Held, Running, Guarded, OneOwner
    <3> QED
      BY <1>3, <2>3, <3>1, <3>2 DEF IInv, Guarded, OneOwner
  <2> QED
    BY <2>1, <2>2, <2>3 DEF OneOwner
<1>8. CarriedOutAtMostOnce' /\ DoneStaysClaimed' /\ OldMeansOver'
  <2>1. \A j \in Keys : carried'[j] <= 1
    BY <1>3 DEF IInv, Guarded, CarriedOutAtMostOnce
  <2>2. \A j \in Keys : carried'[j] > 0 /\ MayBeSent(j)' => claims'[j].row # "none"
    BY <1>1, <1>3, <1>4, <1>5 DEF IInv, Guarded, DoneStaysClaimed
  <2>3. OldMeansOver'
    BY <1>4, <1>5 DEF IInv, Guarded, OldMeansOver
  <2> QED
    BY <2>1, <2>2, <2>3 DEF CarriedOutAtMostOnce, DoneStaysClaimed
<1> QED
  BY <1>7, <1>8 DEF Guarded

LEMMA FailGuarded ==
    ASSUME IInv, NEW r \in Reqs, NEW answer \in {"refused", "later"}, Fail(r, answer)
    PROVE  Guarded'
<1> USE DEF records, device
<1>1. req[r].stage = "owned" /\ Running(r)
  BY DEF Fail, Running
<1>2. /\ \A s \in Reqs \ {r} : req'[s] = req[s]
      /\ req'[r].stage = "failed" /\ req'[r].key = req[r].key
  BY DEF Fail, IInv, Basics, Typed, TypeOK, Request
<1>3. \A j \in Keys : MayBeSent(j)' => MayBeSent(j)
  BY <1>1, <1>2 DEF MayBeSent, UnderWay, Fail, Waiting
<1>4. \A s \in Reqs : Running(s)' => Running(s) /\ req'[s].key = req[s].key
  BY <1>1, <1>2 DEF Running
<1>5. OneOwner'
  <2>1. ASSUME NEW s \in Reqs, req'[s].stage \in {"owned", "failed"}
        PROVE  carried'[req'[s].key] = 0
    BY <1>1, <1>2, <2>1 DEF Fail, IInv, Guarded, OneOwner
  <2>2. claims' = claims
    BY DEF Fail
  <2> QED
    BY <1>4, <2>1, <2>2 DEF IInv, Guarded, OneOwner
<1>6. DoneStaysClaimed' /\ OldMeansOver' /\ CarriedOutAtMostOnce'
  BY <1>3 DEF Fail, IInv, Guarded, DoneStaysClaimed, OldMeansOver, CarriedOutAtMostOnce
<1> QED
  BY <1>5, <1>6 DEF Guarded

\* Finishing leaves the claim standing; only a failure gives it back.
LEMMA EndGuarded ==
    ASSUME IInv, NEW r \in Reqs, Complete(r) \/ Release(r) PROVE Guarded'
<1> USE DEF records, device
<1> DEFINE k == req[r].key
<1>1. /\ k \in Keys /\ Running(r) /\ carried' = carried /\ queue' = queue
      /\ req[r].stage = "failed" => carried[k] = 0
  BY DEF Complete, Release, Running, IInv, Basics, Typed, RequestsAreReal, Held, Guarded, OneOwner
<1>2. Calmer /\ Waiting' \subseteq Waiting
  BY <1>1, EndCalm DEF IInv, Waiting
<1>3. req'[r].stage \in {"idle", "answered"}
  <2>1. PICK answer \in Answers : Answered(r, answer)
    BY DEF Complete, Release, IInv, Basics, Typed, RequestsAreReal, Answers
  <2>2. CASE req[r].heard
    BY <2>1, <2>2 DEF Answered, IInv, Basics, Typed, TypeOK, Request
  <2>3. CASE ~req[r].heard
    BY <2>1, <2>3 DEF Answered, NoRequest, IInv, Basics, Typed, TypeOK
  <2> QED
    BY <2>2, <2>3
<1>4. /\ \A j \in Keys \ {k} : claims'[j] = claims[j]
      /\ \/ claims'[k] = claims[k]
         \/ claims[k].row # "none" /\ claims'[k] = [claims[k] EXCEPT !.row = "done"]
         \/ carried[k] = 0 /\ claims'[k] = NoClaim
  <2>1. claims[k] \in Claim /\ claims[k].row = "pending"
    BY <1>1 DEF IInv, Basics, Typed, TypeOK, Guarded, OneOwner
  <2>2. CASE claims' = claims
    BY <2>2
  <2>3. CASE claims' = [claims EXCEPT ![k].row = IF @ = "pending" THEN "done" ELSE @]
    BY <1>1, <2>1, <2>3 DEF IInv, Basics, Typed, TypeOK, Claim
  <2>4. CASE /\ req[r].stage = "failed"
             /\ claims' = [claims EXCEPT ![k] = IF @.row = "pending" THEN NoClaim ELSE @]
    BY <1>1, <2>1, <2>4 DEF IInv, Basics, Typed, TypeOK
  <2> QED
    BY <2>2, <2>3, <2>4 DEF Complete, Release
<1>5. /\ claims'[k].age = 2 => claims[k].age = 2
      /\ claims[k].row # "none" /\ claims'[k].row = "none" => carried[k] = 0 /\ claims'[k].age # 2
  <2>1. claims[k] \in Claim
    BY <1>1 DEF IInv, Basics, Typed, TypeOK
  <2> QED
    BY <1>4, <2>1 DEF Claim, NoClaim
<1>6. \A s \in Reqs : Running(s)' =>
         /\ Running(s) /\ req'[s].key = req[s].key /\ req'[s].stage = req[s].stage
         /\ req[s].key \in Keys \ {k}
  <2>1. ASSUME NEW s \in Reqs, Running(s)'
        PROVE  s # r /\ Running(s) /\ req'[s].key = req[s].key /\ req'[s].stage = req[s].stage
    BY <1>2, <1>3, <2>1, CalmReach DEF IInv, Running
  <2> QED
    BY <1>1, <2>1 DEF IInv, Basics, Typed, RequestsAreReal, Held, Running, Guarded, OneOwner
<1>7. OneOwner'
  <2>1. \A s, t \in Reqs : Running(s)' /\ Running(t)' /\ req'[s].key = req'[t].key => s = t
    BY <1>6 DEF IInv, Guarded, OneOwner
  <2>2. \A s \in Reqs : Running(s)' => claims'[req'[s].key].row = "pending"
    BY <1>4, <1>6 DEF IInv, Guarded, OneOwner
  <2>3. ASSUME NEW s \in Reqs, req'[s].stage \in {"owned", "failed"}
        PROVE  carried'[req'[s].key] = 0
    <3>1. Running(s)'
      BY <2>3 DEF Running
    <3> QED
      BY <1>1, <1>6, <2>3, <3>1 DEF IInv, Guarded, OneOwner
  <2> QED
    BY <2>1, <2>2, <2>3 DEF OneOwner
<1>8. \A j \in Keys : MayBeSent(j)' => MayBeSent(j)
  BY <1>2, CalmReach DEF IInv
<1>9. ASSUME NEW j \in Keys, carried'[j] > 0, MayBeSent(j)'
      PROVE  claims'[j].row # "none"
  <2>1. carried[j] > 0 /\ claims[j].row # "none"
    BY <1>1, <1>8, <1>9 DEF IInv, Guarded, DoneStaysClaimed
  <2>2. CASE j = k
    BY <1>5, <2>1, <2>2
  <2>3. CASE j # k
    BY <1>4, <2>1, <2>3
  <2> QED
    BY <2>2, <2>3
<1>10. OldMeansOver' /\ CarriedOutAtMostOnce'
  BY <1>1, <1>4, <1>5, <1>8 DEF IInv, Guarded, OldMeansOver, CarriedOutAtMostOnce
<1> QED
  BY <1>7, <1>9, <1>10 DEF Guarded, DoneStaysClaimed

LEMMA AgeGuarded ==
    ASSUME HeldPastRetention = FALSE, IInv, NEW k \in Keys, Age(k) PROVE Guarded'
<1> USE DEF records, device
<1>1. claims[k] \in Claim
  BY DEF IInv, Basics, Typed, TypeOK
<1>2. /\ \A j \in Keys \ {k} : claims'[j] = claims[j]
      /\ claims'[k].row = claims[k].row
      /\ claims'[k].age = claims[k].age + 1
      /\ claims[k].row # "none"
  BY <1>1 DEF Age, IInv, Basics, Typed, TypeOK, Claim
<1>3. claims'[k].age = 2 => ~MayBeSent(k)
  BY <1>1, <1>2 DEF Age, MayBeSent, UnderWay, Claim
<1>4. /\ \A j \in Keys : claims'[j].row = claims[j].row
      /\ \A r \in Reqs : Running(r)' => Running(r) /\ req[r].key \in Keys
      /\ \A j \in Keys : MayBeSent(j)' => MayBeSent(j)
  BY <1>2 DEF Age, Running, MayBeSent, UnderWay, Waiting, IInv, Basics, Typed, RequestsAreReal, Held
<1>5. OneOwner'
  BY <1>4 DEF Age, IInv, Guarded, OneOwner
<1>6. DoneStaysClaimed' /\ CarriedOutAtMostOnce'
  BY <1>4 DEF Age, IInv, Guarded, DoneStaysClaimed, CarriedOutAtMostOnce
<1>7. OldMeansOver'
  BY <1>2, <1>3, <1>4 DEF IInv, Guarded, OldMeansOver
<1> QED
  BY <1>5, <1>6, <1>7 DEF Guarded

\* What is swept is over: it was done, or it will never be asked for again.
LEMMA SweepGuarded == ASSUME IInv, Sweep PROVE Guarded'
<1> USE DEF records, device
<1>1. ASSUME NEW j \in Keys
      PROVE  \/ claims'[j] = claims[j] /\ claims[j].age # 2
             \/ claims'[j] = NoClaim /\ ~MayBeSent(j)
  <2>1. claims'[j] = IF claims[j].age = 2 THEN NoClaim ELSE claims[j]
    BY DEF Sweep
  <2>2. claims[j].age = 2 => ~MayBeSent(j)
    BY DEF IInv, Guarded, OldMeansOver
  <2> QED
    BY <2>1, <2>2
<1>2. /\ \A j \in Keys : MayBeSent(j)' => MayBeSent(j)
      /\ \A r \in Reqs : Running(r)' => Running(r) /\ req[r].key \in Keys /\ MayBeSent(req[r].key)
  BY DEF Sweep, Running, MayBeSent, UnderWay, Waiting, IInv, Basics, Typed, RequestsAreReal, Held
<1>3. OneOwner'
  <2>1. req' = req /\ carried' = carried
    BY DEF Sweep
  <2>2. \A r \in Reqs : Running(r) => claims'[req[r].key] = claims[req[r].key]
    BY <1>1, <1>2, <2>1 DEF Running
  <2> QED
    BY <2>1, <2>2 DEF IInv, Guarded, OneOwner, Running
<1>4. DoneStaysClaimed' /\ CarriedOutAtMostOnce'
  BY <1>1, <1>2 DEF Sweep, IInv, Guarded, DoneStaysClaimed, CarriedOutAtMostOnce
<1>5. OldMeansOver'
  BY <1>1, <1>2 DEF NoClaim, IInv, Guarded, OldMeansOver
<1> QED
  BY <1>3, <1>4, <1>5 DEF Guarded

LEMMA NextGuarded ==
    ASSUME HeldPastRetention = FALSE, IInv, [Next]_vars PROVE Guarded'
<1> USE DEF records, device
<1>1. CASE UNCHANGED vars
  BY <1>1 DEF vars, IInv, Guarded, OneOwner, DoneStaysClaimed, OldMeansOver,
              CarriedOutAtMostOnce, Running, MayBeSent, UnderWay, Waiting
<1>2. ASSUME NEW p \in Pages, Load(p) PROVE Guarded'
  BY <1>2, LoadTyped, CalmGuarded DEF Load, IInv, Basics, Waiting
<1>3. ASSUME NEW p \in Pages, NEW u \in Users, SignIn(p, u) PROVE Guarded'
  BY <1>3, SignInTyped, CalmGuarded DEF SignIn, IInv, Basics, Waiting
<1>4. CASE EndSession \/ Dismiss
  BY <1>4, CalmGuarded DEF EndSession, Dismiss, Calmer, Waiting
<1>5. ASSUME NEW r \in Reqs, Receive(r) PROVE Guarded'
  BY <1>5, ReceiveCalm, CalmGuarded DEF Receive, IInv
<1>6. ASSUME NEW r \in Reqs, LoseRequest(r) PROVE Guarded'
  <2>1. Calmer
    BY <1>6 DEF LoseRequest, IInv, Basics, Typed, TypeOK, Calmer
  <2> QED
    BY <1>6, <2>1, CalmGuarded DEF LoseRequest, Waiting
<1>7. ASSUME NEW r \in Reqs, HangUp(r) PROVE Guarded'
  BY <1>7, HangUpCalm, CalmGuarded DEF HangUp, IInv, Basics, Waiting
<1>8. ASSUME NEW r \in Reqs, Unauthenticated(r) \/ ClaimTaken(r) \/ ClaimUnchecked(r)
      PROVE Guarded'
  BY <1>8, AnswerCalm, CalmGuarded
     DEF Unauthenticated, ClaimTaken, ClaimUnchecked, IInv, Basics, Waiting
<1>9. CASE Crash
  BY <1>9, CrashCalm, CalmGuarded DEF Crash, IInv, Basics, Waiting
<1> QED
  BY <1>1, <1>2, <1>3, <1>4, <1>5, <1>6, <1>7, <1>8, <1>9, HoldGuarded, FlushGuarded,
     ClaimFreshGuarded, CarryOutGuarded, FailGuarded, EndGuarded, AgeGuarded, SweepGuarded
     DEF Next

\* "An offline queue that cannot send twice": as long as nothing waits for longer
\* than its claim is kept, the work behind every key is committed at most once,
\* whatever is lost, repeated, overtaken, or cut short by a restart
\* (ClaimIdempotency, CompleteIdempotency, ReleaseIdempotency).
THEOREM SendsAtMostOnce ==
    ASSUME HeldPastRetention = FALSE
    PROVE  Spec => []CarriedOutAtMostOnce
<1>1. Init => IInv
  BY InitBasics, InitGuarded DEF IInv
<1>2. IInv /\ [Next]_vars => IInv'
  BY NextBasics, NextGuarded DEF IInv
<1>3. IInv => CarriedOutAtMostOnce
  BY DEF IInv, Guarded
<1> QED
  BY <1>1, <1>2, <1>3, PTL DEF Spec

\* Under the same condition, one request at most is carrying out a key's work, and
\* the claim that keeps every other copy out stands until it has ended.
THEOREM OneRequestOwnsTheWork ==
    ASSUME HeldPastRetention = FALSE
    PROVE  Spec => []OneOwner
<1>1. Init => IInv
  BY InitBasics, InitGuarded DEF IInv
<1>2. IInv /\ [Next]_vars => IInv'
  BY NextBasics, NextGuarded DEF IInv
<1>3. IInv => OneOwner
  BY DEF IInv, Guarded
<1> QED
  BY <1>1, <1>2, <1>3, PTL DEF Spec
----------------------------------------------------------------------------
(* Nothing is lost.  That rests on what an answer says being so: an "ok"   *)
(* reaches the page only of work that was committed.  And on the browser's *)
(* storage taking what is written to it, which the code does not look at.  *)

\* Somebody holds something, or a refusal is written down.
Writing ==
    \/ \E p \in Pages, k \in Keys : Hold(p, k)
    \/ \E r \in Reqs : Receive(r) /\ req[r].answer = "refused"

\* The storage is never full when something is written to it.
WritesAreTaken == [][Writing => Fits(Len(queue) + Len(refused) + 1)]_vars

\* Work said to be done was done.
DoneIsDone ==
    /\ \A k \in Keys : claims[k].row = "done" => carried[k] > 0
    /\ \A r \in Reqs : req[r].stage = "committed" => carried[req[r].key] > 0
    /\ \A r \in Reqs : req[r].stage = "answered" /\ req[r].answer = "ok" => carried[req[r].key] > 0

\* A key is held once, and only what was held is set aside.
EachHeldOnce == \A i, j \in 1..Len(queue) : queue[i].key = queue[j].key => i = j
AsideWasHeld == SetAside \subseteq Held

Kept == DoneIsDone /\ EachHeldOnce /\ AsideWasHeld /\ NothingHeldIsLost

LEMMA InitKept == Init => Kept
  BY DEF Init, Kept, DoneIsDone, EachHeldOnce, AsideWasHeld, NothingHeldIsLost, SetAside, Held,
         NoRequest, NoClaim

\* A request that says no more than it said: ended, or only less listened to.
Quieter ==
    \A r \in Reqs :
        \/ req'[r] = NoRequest
        \/ /\ req'[r].stage = req[r].stage /\ req'[r].answer = req[r].answer
           /\ req'[r].key = req[r].key /\ req'[r].as = req[r].as

LEMMA QuietDone ==
    ASSUME DoneIsDone, Quieter, carried' = carried,
           \A k \in Keys : claims'[k].row = "done" => claims[k].row = "done"
    PROVE  DoneIsDone'
  BY DEF DoneIsDone, Quieter, NoRequest

\* A page is left, a connection drops, a process stops.
LEMMA UnheardIsQuiet ==
    ASSUME Typed, NEW p \in Pages, req' = Unheard(p)
    PROVE  Quieter
<1> SUFFICES ASSUME NEW r \in Reqs
             PROVE  \/ req'[r] = NoRequest
                    \/ /\ req'[r].stage = req[r].stage /\ req'[r].answer = req[r].answer
                       /\ req'[r].key = req[r].key /\ req'[r].as = req[r].as
  BY DEF Quieter
<1>1. req[r] \in Request
  BY DEF Typed, TypeOK
<1>2. req'[r] \in {NoRequest, req[r], [req[r] EXCEPT !.heard = FALSE]}
  BY DEF Unheard, GivenUp
<1> QED
  BY <1>1, <1>2 DEF Request

LEMMA HangUpIsQuiet == ASSUME Typed, NEW r \in Reqs, HangUp(r) PROVE Quieter
<1>1. req[r] \in Request
  BY DEF Typed, TypeOK
<1>2. GivenUp(req[r]) \in {NoRequest, [req[r] EXCEPT !.heard = FALSE]}
  BY DEF GivenUp
<1>3. req' = [req EXCEPT ![r] = GivenUp(req[r])]
  BY DEF HangUp
<1>4. \A s \in Reqs : req'[s] = IF s = r THEN GivenUp(req[r]) ELSE req[s]
  BY <1>3 DEF Typed, TypeOK
<1>5. \/ GivenUp(req[r]) = NoRequest
      \/ /\ GivenUp(req[r]).stage = req[r].stage /\ GivenUp(req[r]).answer = req[r].answer
         /\ GivenUp(req[r]).key = req[r].key /\ GivenUp(req[r]).as = req[r].as
  BY <1>1, <1>2 DEF Request
<1> QED
  BY <1>4, <1>5 DEF Quieter

\* An answer is given; "ok" is one only of work that was done.
LEMMA AnsweredIsDone ==
    ASSUME Typed, DoneIsDone, NEW r \in Reqs, NEW answer \in Answers, Answered(r, answer),
           carried' = carried, req[r].stage # "idle",
           answer = "ok" => carried[req[r].key] > 0,
           \A k \in Keys : claims'[k].row = "done" => claims[k].row = "done" \/ carried[k] > 0
    PROVE  DoneIsDone'
<1>1. req[r] \in Request
  BY DEF Typed, TypeOK
<1>2. \A s \in Reqs : s # r => req'[s] = req[s]
  BY DEF Answered, Typed, TypeOK
<1>3. \/ req'[r] = NoRequest
      \/ req'[r].stage = "answered" /\ req'[r].answer = answer /\ req'[r].key = req[r].key
  <2>1. CASE req[r].heard
    <3>1. req'[r] = [[req[r] EXCEPT !.stage = "answered"] EXCEPT !.answer = answer]
      BY <2>1 DEF Answered, Typed, TypeOK
    <3> QED
      BY <1>1, <3>1 DEF Request
  <2>2. CASE ~req[r].heard
    BY <2>2 DEF Answered, Typed, TypeOK
  <2> QED
    BY <2>1, <2>2
<1> QED
  BY <1>2, <1>3 DEF DoneIsDone, NoRequest
\* Claims that were not done are done only once work was committed.
LEMMA EndIsDone == ASSUME Basics, DoneIsDone, NEW r \in Reqs, Complete(r) \/ Release(r) PROVE DoneIsDone'
<1>1. req[r].key \in Keys /\ req[r].stage # "idle" /\ carried' = carried
  BY DEF Complete, Release, Basics, Typed, RequestsAreReal, Held, records
<1>2. \A k \in Keys : claims[k] \in Claim
  BY DEF Basics, Typed, TypeOK
<1>3. CASE Complete(r)
  <2>1. carried[req[r].key] > 0
    BY <1>3 DEF Complete, DoneIsDone
  <2>2. \A k \in Keys : claims'[k].row = "done" => claims[k].row = "done" \/ carried[k] > 0
    <3>1. CASE claims' = claims
      BY <3>1
    <3>2. CASE claims' = [claims EXCEPT ![req[r].key].row = IF @ = "pending" THEN "done" ELSE @]
      BY <1>1, <2>1, <3>2 DEF Basics, Typed, TypeOK
    <3> QED
      BY <1>3, <3>1, <3>2 DEF Complete
  <2>3. \E landed \in Answers : Answered(r, landed)
    BY <1>3 DEF Complete
  <2> QED
    BY <1>1, <2>1, <2>2, <2>3, AnsweredIsDone DEF Basics
<1>4. CASE Release(r)
  <2>1. req[r].answer \in Answers /\ req[r].answer # "ok"
    BY <1>4 DEF Release, Basics, Typed, RequestsAreReal, Answers
  <2>2. \A k \in Keys : claims'[k].row = "done" => claims[k].row = "done" \/ carried[k] > 0
    <3>1. CASE claims' = claims
      BY <3>1
    <3>2. CASE claims' = [claims EXCEPT ![req[r].key] = IF @.row = "pending" THEN NoClaim ELSE @]
      BY <1>1, <3>2 DEF Basics, Typed, TypeOK, NoClaim
    <3> QED
      BY <1>4, <3>1, <3>2 DEF Release
  <2>3. Answered(r, req[r].answer)
    BY <1>4 DEF Release
  <2> QED
    BY <1>1, <2>1, <2>2, <2>3, AnsweredIsDone DEF Basics
<1> QED
  BY <1>3, <1>4

LEMMA TakenIsDone ==
    ASSUME Basics, DoneIsDone, NEW r \in Reqs, Unauthenticated(r) \/ ClaimTaken(r) \/ ClaimUnchecked(r)
    PROVE  DoneIsDone'
<1>1. /\ req[r].key \in Keys /\ req[r].stage # "idle" /\ carried' = carried /\ claims' = claims
  BY DEF Unauthenticated, ClaimTaken, ClaimUnchecked, Basics, Typed, RequestsAreReal, Held, records
<1>2. \E answer \in Answers : Answered(r, answer) /\ (answer = "ok" => carried[req[r].key] > 0)
  <2>1. CASE Unauthenticated(r)
    BY <2>1 DEF Unauthenticated, Answers
  <2>2. CASE ClaimUnchecked(r)
    BY <2>2 DEF ClaimUnchecked, Answers
  <2>3. CASE ClaimTaken(r)
    <3>1. CASE claims[req[r].key].row = "done"
      <4>1. carried[req[r].key] > 0
        BY <1>1, <3>1 DEF DoneIsDone
      <4> QED
        BY <2>3, <4>1 DEF ClaimTaken, Answers
    <3>2. CASE claims[req[r].key].row # "done"
      BY <2>3, <3>2 DEF ClaimTaken, Answers
    <3> QED
      BY <3>1, <3>2
  <2> QED
    BY <2>1, <2>2, <2>3
<1> QED
  BY <1>1, <1>2, AnsweredIsDone DEF Basics

LEMMA NextDone == ASSUME Basics, DoneIsDone, [Next]_vars PROVE DoneIsDone'
<1> USE DEF records, device
<1>1. CASE UNCHANGED vars
  BY <1>1 DEF vars, DoneIsDone
<1>2. ASSUME NEW p \in Pages, Load(p) \/ \E u \in Users : SignIn(p, u) PROVE DoneIsDone'
  <2>1. req' = Unheard(p) /\ claims' = claims /\ carried' = carried
    BY <1>2 DEF Load, SignIn
  <2> QED
    BY <2>1, UnheardIsQuiet, QuietDone DEF Basics
<1>3. CASE EndSession \/ Dismiss \/ \E p \in Pages, k \in Keys : Hold(p, k)
  BY <1>3 DEF EndSession, Dismiss, Hold, DoneIsDone
<1>4. ASSUME NEW p \in Pages, NEW r \in Reqs, Flush(p, r) PROVE DoneIsDone'
  BY <1>4 DEF Flush, DoneIsDone, Basics, Typed, TypeOK
<1>5. ASSUME NEW r \in Reqs, Receive(r) \/ LoseRequest(r) PROVE DoneIsDone'
  <2>1. req' = [req EXCEPT ![r] = NoRequest] /\ claims' = claims /\ carried' = carried
    BY <1>5 DEF Receive, LoseRequest
  <2>2. Quieter
    BY <2>1 DEF Quieter, Basics, Typed, TypeOK
  <2> QED
    BY <2>1, <2>2, QuietDone
<1>6. ASSUME NEW r \in Reqs, HangUp(r) PROVE DoneIsDone'
  BY <1>6, HangUpIsQuiet, QuietDone DEF HangUp, Basics
<1>7. ASSUME NEW r \in Reqs, ClaimFresh(r) PROVE DoneIsDone'
  <2>1. req[r].key \in Keys /\ carried' = carried
    BY <1>7 DEF ClaimFresh, Basics, Typed, RequestsAreReal, Held
  <2>2. \A k \in Keys : claims'[k].row = "done" => claims[k].row = "done"
    BY <1>7, <2>1 DEF ClaimFresh, Basics, Typed, TypeOK
  <2>3. \A s \in Reqs : (s = r /\ req'[s].stage = "owned") \/ req'[s] = req[s]
    BY <1>7 DEF ClaimFresh, Basics, Typed, TypeOK, Request
  <2> QED
    BY <2>1, <2>2, <2>3 DEF DoneIsDone
<1>8. ASSUME NEW r \in Reqs, CarryOut(r) PROVE DoneIsDone'
  <2>1. req[r].key \in Keys /\ claims' = claims
    BY <1>8 DEF CarryOut, Basics, Typed, RequestsAreReal, Held
  <2>2. \A k \in Keys : /\ carried[k] \in Nat
                        /\ carried'[k] = IF k = req[r].key THEN carried[k] + 1 ELSE carried[k]
    BY <1>8 DEF CarryOut, Basics, Typed, TypeOK
  <2>3. \A s \in Reqs : \/ req'[s] = req[s]
                        \/ s = r /\ req'[s].stage = "committed" /\ req'[s].key = req[r].key
    BY <1>8 DEF CarryOut, Basics, Typed, TypeOK, Request
  <2>4. \A s \in Reqs : req[s].stage # "idle" => req[s].key \in Keys
    BY DEF Basics, Typed, RequestsAreReal, Held
  <2> QED
    BY <2>1, <2>2, <2>3, <2>4 DEF DoneIsDone
<1>9. ASSUME NEW r \in Reqs, NEW answer \in {"refused", "later"}, Fail(r, answer) PROVE DoneIsDone'
  <2>1. \A s \in Reqs : (s = r /\ req'[s].stage = "failed") \/ req'[s] = req[s]
    BY <1>9 DEF Fail, Basics, Typed, TypeOK, Request
  <2> QED
    BY <1>9, <2>1 DEF Fail, DoneIsDone
<1>10. CASE Crash
  <2>1. Quieter
    BY <1>10 DEF Crash, Quieter
  <2> QED
    BY <1>10, <2>1, QuietDone DEF Crash
<1>11. ASSUME NEW k \in Keys, Age(k) PROVE DoneIsDone'
  <2>1. \A j \in Keys : claims'[j].row = claims[j].row
    BY <1>11 DEF Age, Basics, Typed, TypeOK, Claim
  <2> QED
    BY <1>11, <2>1 DEF Age, DoneIsDone
<1>12. CASE Sweep
  BY <1>12 DEF Sweep, DoneIsDone, NoClaim
<1> QED
  BY <1>1, <1>2, <1>3, <1>4, <1>5, <1>6, <1>7, <1>8, <1>9, <1>10, <1>11, <1>12,
     EndIsDone, TakenIsDone DEF Next

\* What a step that leaves the device alone, or only does more work, keeps.
LEMMA StoredStays ==
    ASSUME Basics, Kept, UNCHANGED <<queue, refused, dismissed, author>>,
           \A k \in Keys : carried[k] > 0 => carried'[k] > 0
    PROVE  EachHeldOnce' /\ AsideWasHeld' /\ NothingHeldIsLost'
<1>1. Waiting' = Waiting /\ SetAside' = SetAside /\ Held' = Held
  BY DEF Waiting, SetAside, Held
<1>2. EachHeldOnce'
  BY DEF Kept, EachHeldOnce
<1> QED
  BY <1>1, <1>2 DEF Kept, AsideWasHeld, NothingHeldIsLost, Held

\* A refusal is written behind the others.
LEMMA WrittenAside ==
    ASSUME refused \in Seq(Keys), NEW k \in Keys, refused' = Append(refused, k), dismissed' = dismissed
    PROVE  SetAside' = SetAside \cup {k}
<1>1. /\ Len(refused') = Len(refused) + 1 /\ Len(refused) \in Nat
      /\ \A i \in 1..Len(refused) : refused'[i] = refused[i]
      /\ refused'[Len(refused) + 1] = k
  BY AppendProperties, LenProperties
<1>2. ASSUME NEW i \in 1..Len(refused') PROVE refused'[i] \in {refused[j] : j \in 1..Len(refused)} \cup {k}
  <2>1. i \in 1..Len(refused) \/ i = Len(refused) + 1
    BY <1>1
  <2> QED
    BY <1>1, <2>1
<1>3. 1..Len(refused) \subseteq 1..Len(refused') /\ Len(refused) + 1 \in 1..Len(refused')
  BY <1>1
<1>4. {refused'[i] : i \in 1..Len(refused')} = {refused[i] : i \in 1..Len(refused)} \cup {k}
  BY <1>1, <1>2, <1>3
<1> QED
  BY <1>4 DEF SetAside

\* An item is held behind the others.
LEMMA WrittenToQueue ==
    ASSUME Basics, EachHeldOnce, NEW p \in Pages, NEW k \in Keys, Hold(p, k),
           Fits(Len(queue) + Len(refused) + 1)
    PROVE  Waiting' = Waiting \cup {k} /\ EachHeldOnce'
<1> DEFINE item == [key |-> k, user |-> pageUser[p]]
<1>1. queue' = Append(queue, item) /\ item \in Item /\ queue \in Seq(Item)
  BY HoldQueue DEF Hold, Item, Basics, Typed, TypeOK
<1>2. item.key = k
  OBVIOUS
<1> HIDE DEF item
<1>3. /\ Len(queue') = Len(queue) + 1 /\ Len(queue) \in Nat
      /\ \A i \in 1..Len(queue) : queue'[i] = queue[i]
      /\ queue'[Len(queue) + 1] = item
  BY <1>1, AppendProperties, LenProperties
<1>4. k \notin Waiting
  BY OfflineQueueAssumption DEF Hold, Basics, OnlyHeldWork, Held
<1>5. \A i \in 1..Len(queue') : i \in 1..Len(queue) \/ i = Len(queue) + 1
  BY <1>3
<1>6. 1..Len(queue) \subseteq 1..Len(queue') /\ Len(queue) + 1 \in 1..Len(queue')
  BY <1>3
<1>7. Waiting' = Waiting \cup {k}
  BY <1>2, <1>3, <1>5, <1>6 DEF Waiting
<1>8. \A i \in 1..Len(queue) : queue[i].key # k
  BY <1>4 DEF Waiting
<1>9. EachHeldOnce'
  <2> SUFFICES ASSUME NEW i \in 1..Len(queue'), NEW j \in 1..Len(queue'), queue'[i].key = queue'[j].key
               PROVE  i = j
    BY DEF EachHeldOnce
  <2> QED
    BY <1>2, <1>3, <1>5, <1>8 DEF EachHeldOnce
<1> QED
  BY <1>7, <1>9

\* The item of an answer that settles it goes, and no other.
LEMMA TakenFromQueue ==
    ASSUME queue \in Seq(Item), EachHeldOnce, NEW k \in Keys, queue' = QueueWithout(k)
    PROVE  Waiting' = Waiting \ {k} /\ EachHeldOnce'
<1>1. CASE k \notin Waiting
  BY <1>1 DEF QueueWithout, Waiting, EachHeldOnce
<1>2. CASE k \in Waiting
  <2>1. PICK i \in 1..Len(queue) :
             /\ queue[i].key = k
             /\ queue' \in Seq(Item) /\ Len(queue') = Len(queue) - 1
             /\ \A n \in 1..(Len(queue) - 1) : queue'[n] = queue[IF n < i THEN n ELSE n + 1]
    BY <1>2, QueueWithoutOne
  <2>2. Len(queue) \in Nat /\ 1..Len(queue') = 1..(Len(queue) - 1)
    BY <2>1, LenProperties
  <2> DEFINE from(n) == IF n < i THEN n ELSE n + 1
             back(m) == IF m < i THEN m ELSE m - 1
  <2>3. \A n \in 1..(Len(queue) - 1) : from(n) \in 1..Len(queue) /\ from(n) # i
    BY <2>2
  <2>4. \A m \in 1..Len(queue) : m # i => back(m) \in 1..(Len(queue) - 1) /\ from(back(m)) = m
    BY <2>2
  <2>5. \A n, m \in 1..(Len(queue) - 1) : from(n) = from(m) => n = m
    BY <2>2
  <2>6. \A n \in 1..(Len(queue) - 1) : queue'[n] = queue[from(n)]
    BY <2>1
  <2> HIDE DEF from, back
  <2>7. ASSUME NEW n \in 1..(Len(queue) - 1) PROVE queue'[n].key \in Waiting \ {k}
    BY <2>1, <2>3, <2>6 DEF Waiting, EachHeldOnce
  <2>8. ASSUME NEW m \in 1..Len(queue), queue[m].key # k
        PROVE  \E n \in 1..(Len(queue) - 1) : queue'[n].key = queue[m].key
    BY <2>1, <2>4, <2>6, <2>8
  <2>9. Waiting' = Waiting \ {k}
    <3>1. Waiting' = {queue'[n].key : n \in 1..(Len(queue) - 1)}
      BY <2>2 DEF Waiting
    <3>2. \A key \in Waiting' : key \in Waiting \ {k}
      BY <2>7, <3>1
    <3>3. ASSUME NEW key \in Waiting, key # k PROVE key \in Waiting'
      <4>1. PICK m \in 1..Len(queue) : queue[m].key = key
        BY DEF Waiting
      <4> QED
        BY <2>8, <3>1, <3>3, <4>1
    <3> QED
      BY <3>2, <3>3
  <2>10. EachHeldOnce'
    <3>1. SUFFICES ASSUME NEW n \in 1..(Len(queue) - 1), NEW m \in 1..(Len(queue) - 1),
                          queue'[n].key = queue'[m].key
                   PROVE  n = m
      BY <2>2 DEF EachHeldOnce
    <3>2. queue[from(n)].key = queue[from(m)].key
      BY <2>6, <3>1
    <3>3. from(n) = from(m)
      BY <2>3, <3>2 DEF EachHeldOnce
    <3> QED
      BY <2>5, <3>3
  <2> QED
    BY <2>9, <2>10
<1> QED
  BY <1>1, <1>2

\* What the page does with an answer, as far as the promise goes.
LEMMA ReceivedIs ==
    ASSUME Basics, Kept, NEW r \in Reqs, Receive(r),
           req[r].answer = "refused" => Fits(Len(queue) + Len(refused) + 1)
    PROVE  /\ EachHeldOnce' /\ UNCHANGED <<carried, author>>
           /\ req[r].key \in Keys /\ req[r].key \in Held
           /\ \/ Waiting' = Waiting /\ SetAside' = SetAside
              \/ /\ carried[req[r].key] > 0
                 /\ Waiting' = Waiting \ {req[r].key} /\ SetAside' = SetAside
              \/ /\ Waiting' = Waiting \ {req[r].key}
                 /\ SetAside' = SetAside \cup {req[r].key}
<1> DEFINE k == req[r].key
<1>1. k \in Keys /\ k \in Held /\ UNCHANGED <<carried, author, dismissed>>
  BY DEF Receive, Basics, Typed, RequestsAreReal, Held, records
<1>2. queue \in Seq(Item) /\ refused \in Seq(Keys) /\ EachHeldOnce
  BY DEF Basics, Typed, TypeOK, Kept
<1>3. CASE req[r].answer \in {"signin", "later"}
  <2>1. queue' = queue /\ refused' = refused
    BY <1>3 DEF Receive
  <2>2. Waiting' = Waiting /\ SetAside' = SetAside /\ EachHeldOnce'
    BY <1>1, <1>2, <2>1 DEF Waiting, SetAside, EachHeldOnce
  <2> QED
    BY <1>1, <2>2
<1>4. CASE req[r].answer \notin {"signin", "later"}
  <2>1. /\ req[r].answer \in {"ok", "refused"} /\ queue' = QueueWithout(k)
        /\ refused' = IF req[r].answer = "refused" /\ Fits(Len(queue) + Len(refused) + 1)
                          THEN Append(refused, k) ELSE refused
    BY <1>4 DEF Receive
  <2>2. Waiting' = Waiting \ {k} /\ EachHeldOnce'
    BY <1>1, <1>2, <2>1, TakenFromQueue
  <2>3. CASE req[r].answer = "ok"
    <3>1. refused' = refused
      BY <2>1, <2>3
    <3>2. SetAside' = SetAside
      BY <1>1, <3>1 DEF SetAside
    <3>3. carried[k] > 0
      BY <2>3 DEF Receive, Kept, DoneIsDone
    <3> QED
      BY <1>1, <2>2, <3>2, <3>3
  <2>4. CASE req[r].answer = "refused"
    <3>1. refused' = Append(refused, k)
      BY <2>1, <2>4
    <3>2. SetAside' = SetAside \cup {k}
      BY <1>1, <1>2, <3>1, WrittenAside
    <3> QED
      BY <1>1, <2>2, <3>2
  <2> QED
    BY <2>1, <2>3, <2>4
<1> QED
  BY <1>3, <1>4

LEMMA NextKept ==
    ASSUME Basics, Kept, [Next]_vars, [Writing => Fits(Len(queue) + Len(refused) + 1)]_vars
    PROVE  Kept'
<1>1. DoneIsDone'
  BY NextDone DEF Kept
<1>2. ASSUME NEW p \in Pages, NEW k \in Keys, Hold(p, k)
      PROVE  EachHeldOnce' /\ AsideWasHeld' /\ NothingHeldIsLost'
  <2>1. author' = [author EXCEPT ![k] = pageUser[p]] /\ author[k] = None /\ pageUser[p] # None
        /\ UNCHANGED <<refused, dismissed, carried>>
    BY <1>2 DEF Hold, records
  <2>2. Fits(Len(queue) + Len(refused) + 1)
    <3>1. vars' # vars
      BY <2>1 DEF vars, Basics, Typed, TypeOK
    <3> QED
      BY <1>2, <3>1 DEF Writing
  <2>3. Waiting' = Waiting \cup {k} /\ EachHeldOnce'
    BY <1>2, <2>2, WrittenToQueue DEF Kept
  <2>4. Held' = Held \cup {k}
    BY <2>1 DEF Held, Basics, Typed, TypeOK
  <2>5. SetAside' = SetAside
    BY <2>1 DEF SetAside
  <2> QED
    BY <2>1, <2>3, <2>4, <2>5 DEF Kept, AsideWasHeld, NothingHeldIsLost, Held
<1>3. ASSUME NEW r \in Reqs, Receive(r)
      PROVE  EachHeldOnce' /\ AsideWasHeld' /\ NothingHeldIsLost'
  <2>1. req[r].answer = "refused" => Fits(Len(queue) + Len(refused) + 1)
    <3>1. vars' # vars
      BY <1>3 DEF Receive, vars, Basics, Typed, TypeOK, NoRequest
    <3> QED
      BY <1>3, <3>1 DEF Writing
  <2>2. /\ EachHeldOnce' /\ UNCHANGED <<carried, author>>
        /\ req[r].key \in Keys /\ req[r].key \in Held
        /\ \/ Waiting' = Waiting /\ SetAside' = SetAside
           \/ /\ carried[req[r].key] > 0
              /\ Waiting' = Waiting \ {req[r].key} /\ SetAside' = SetAside
           \/ /\ Waiting' = Waiting \ {req[r].key}
              /\ SetAside' = SetAside \cup {req[r].key}
    BY <1>3, <2>1, ReceivedIs
  <2>3. Held' = Held
    BY <2>2 DEF Held
  <2> QED
    BY <2>2, <2>3 DEF Kept, AsideWasHeld, NothingHeldIsLost, Held
<1>4. ASSUME Dismiss PROVE EachHeldOnce' /\ AsideWasHeld' /\ NothingHeldIsLost'
  <2>1. SetAside' = SetAside
    BY <1>4, EmptySeq DEF Dismiss, SetAside
  <2>2. Waiting' = Waiting /\ Held' = Held /\ carried' = carried /\ EachHeldOnce'
    BY <1>4 DEF Dismiss, records, Waiting, Held, Kept, EachHeldOnce
  <2> QED
    BY <2>1, <2>2 DEF Kept, AsideWasHeld, NothingHeldIsLost
<1>5. ASSUME NEW r \in Reqs, CarryOut(r)
      PROVE  EachHeldOnce' /\ AsideWasHeld' /\ NothingHeldIsLost'
  <2>1. \A k \in Keys : carried[k] > 0 => carried'[k] > 0
    BY <1>5 DEF CarryOut, Basics, Typed, TypeOK
  <2> QED
    BY <1>5, <2>1, StoredStays DEF CarryOut, device
<1>6. ASSUME ~(\E p \in Pages, k \in Keys : Hold(p, k)), ~(\E r \in Reqs : Receive(r)),
             ~Dismiss, ~(\E r \in Reqs : CarryOut(r))
      PROVE  EachHeldOnce' /\ AsideWasHeld' /\ NothingHeldIsLost'
  <2>1. UNCHANGED <<queue, refused, dismissed, author, carried>>
    BY <1>6 DEF Next, vars, device, records, Load, SignIn, EndSession, Flush, LoseRequest, HangUp,
                Unauthenticated, ClaimFresh, ClaimTaken, ClaimUnchecked, Fail, Complete, Release,
                Crash, Age, Sweep
  <2>2. \A k \in Keys : carried[k] > 0 => carried'[k] > 0
    BY <2>1
  <2> QED
    BY <2>1, <2>2, StoredStays
<1> QED
  BY <1>1, <1>2, <1>3, <1>4, <1>5, <1>6 DEF Kept

\* Work a person was told is being held is still on the
\* device, was carried out, or was put in front of them, for as long as the
\* browser's storage takes what is written to it (hold, flush).
THEOREM HeldWorkIsKept == Spec /\ WritesAreTaken => []NothingHeldIsLost
<1>1. Init => Basics /\ Kept
  BY InitBasics, InitKept
<1>2. Basics /\ Kept /\ [Next]_vars /\ [Writing => Fits(Len(queue) + Len(refused) + 1)]_vars
        => (Basics /\ Kept)'
  BY NextBasics, NextKept
<1>3. Kept => NothingHeldIsLost
  BY DEF Kept
<1> QED
  BY <1>1, <1>2, <1>3, PTL DEF Spec, WritesAreTaken

----------------------------------------------------------------------------
(* The promise: the device and the server together do what HeldWork says.  *)

LEMMA InitPromised == Init => HW!Init
<1> SUFFICES ASSUME Init PROVE HW!Init
  OBVIOUS
<1>1. Waiting = {} /\ SetAside = {}
  BY DEF Init, Waiting, SetAside
<1> QED
  BY <1>1 DEF Init, HW!Init

\* Every step is a step of the promise, or shows nothing of itself there.
LEMMA StepPromised ==
    ASSUME HeldPastRetention = FALSE, IInv, Kept, [Next]_vars,
           [Writing => Fits(Len(queue) + Len(refused) + 1)]_vars
    PROVE  [HW!Next]_HW!vars
<1>1. ASSUME NEW p \in Pages, NEW k \in Keys, Hold(p, k) PROVE HW!Hold(k)
  <2>1. /\ author[k] = None /\ pageUser[p] # None /\ UNCHANGED <<refused, dismissed, carried>>
        /\ author' = [author EXCEPT ![k] = pageUser[p]]
    BY <1>1 DEF Hold, records
  <2>2. k \notin Waiting \cup SetAside /\ carried[k] = 0
    BY <2>1 DEF IInv, Basics, Typed, TypeOK, OnlyHeldWork, Kept, AsideWasHeld, Held
  <2>3. Fits(Len(queue) + Len(refused) + 1)
    <3>1. vars' # vars
      BY <2>1 DEF vars, IInv, Basics, Typed, TypeOK
    <3> QED
      BY <1>1, <3>1 DEF Writing
  <2>4. Waiting' = Waiting \cup {k}
    BY <1>1, <2>3, WrittenToQueue DEF IInv, Kept
  <2>5. SetAside' = SetAside
    BY <2>1 DEF SetAside
  <2> QED
    BY <2>1, <2>2, <2>4, <2>5 DEF HW!Hold
<1>2. ASSUME NEW r \in Reqs, CarryOut(r) PROVE HW!CarryOut(req[r].key)
  <2>1. /\ req[r].stage = "owned" /\ carried' = [carried EXCEPT ![req[r].key] = carried[req[r].key] + 1]
        /\ UNCHANGED <<queue, refused, dismissed>>
    BY <1>2 DEF CarryOut, device
  <2>2. req[r].key \in Held /\ carried[req[r].key] = 0
    BY <2>1 DEF IInv, Basics, Typed, RequestsAreReal, Guarded, OneOwner
  <2>3. req[r].key \in Waiting \cup SetAside
    BY <2>2 DEF Kept, NothingHeldIsLost
  <2>4. Waiting' = Waiting /\ SetAside' = SetAside
    BY <2>1 DEF Waiting, SetAside
  <2>5. carried' = [carried EXCEPT ![req[r].key] = 1]
    BY <2>1, <2>2
  <2> QED
    BY <2>2, <2>3, <2>4, <2>5 DEF HW!CarryOut
<1>3. ASSUME NEW r \in Reqs, Receive(r)
      PROVE  HW!Forget(req[r].key) \/ HW!SetAside(req[r].key) \/ UNCHANGED <<Waiting, carried, SetAside>>
  <2> DEFINE k == req[r].key
  <2>1. req[r].answer = "refused" => Fits(Len(queue) + Len(refused) + 1)
    <3>1. vars' # vars
      BY <1>3 DEF Receive, vars, IInv, Basics, Typed, TypeOK, NoRequest
    <3> QED
      BY <1>3, <3>1 DEF Writing
  <2>2. /\ UNCHANGED carried /\ k \in Keys /\ k \in Held
        /\ \/ Waiting' = Waiting /\ SetAside' = SetAside
           \/ carried[k] > 0 /\ Waiting' = Waiting \ {k} /\ SetAside' = SetAside
           \/ Waiting' = Waiting \ {k} /\ SetAside' = SetAside \cup {k}
    BY <1>3, <2>1, ReceivedIs DEF IInv
  <2>3. carried[k] \in Nat /\ (k \in Waiting \cup SetAside \/ carried[k] > 0)
    BY <2>2 DEF IInv, Basics, Typed, TypeOK, Kept, NothingHeldIsLost
  <2> HIDE DEF k
  <2>4. CASE Waiting' = Waiting /\ SetAside' = SetAside
    BY <2>2, <2>4
  <2>5. CASE carried[k] > 0 /\ Waiting' = Waiting \ {k} /\ SetAside' = SetAside
    <3>1. CASE k \in Waiting
      BY <2>2, <2>3, <2>5, <3>1 DEF HW!Forget, k
    <3>2. CASE k \notin Waiting
      BY <2>2, <2>5, <3>2
    <3> QED
      BY <3>1, <3>2
  <2>6. CASE Waiting' = Waiting \ {k} /\ SetAside' = SetAside \cup {k}
    <3>1. CASE k \in Waiting \/ carried[k] # 0
      BY <2>2, <2>6, <3>1 DEF HW!SetAside, k
    <3>2. CASE ~(k \in Waiting \/ carried[k] # 0)
      BY <2>2, <2>3, <2>6, <3>2
    <3> QED
      BY <3>1, <3>2
  <2> QED
    BY <2>2, <2>4, <2>5, <2>6
<1>4. ASSUME Dismiss PROVE UNCHANGED <<Waiting, carried, SetAside>>
  BY <1>4, EmptySeq DEF Dismiss, SetAside, Waiting, records
<1>5. ASSUME ~(\E p \in Pages, k \in Keys : Hold(p, k)), ~(\E r \in Reqs : Receive(r)),
             ~Dismiss, ~(\E r \in Reqs : CarryOut(r))
      PROVE  UNCHANGED <<Waiting, carried, SetAside>>
  <2>1. UNCHANGED <<queue, refused, dismissed, carried>>
    BY <1>5 DEF Next, vars, device, records, Load, SignIn, EndSession, Flush, LoseRequest, HangUp,
                Unauthenticated, ClaimFresh, ClaimTaken, ClaimUnchecked, Fail, Complete, Release,
                Crash, Age, Sweep
  <2> QED
    BY <2>1 DEF Waiting, SetAside
<1>6. \A r \in Reqs : CarryOut(r) \/ Receive(r) => req[r].key \in Keys
  BY DEF CarryOut, Receive, IInv, Basics, Typed, RequestsAreReal, Held
<1> QED
  BY <1>1, <1>2, <1>3, <1>4, <1>5, <1>6 DEF HW!Next, HW!vars

\* The offline queue implements its promise, for any tablets, people and items: as
\* long as nothing waits for longer than its claim is kept and the storage takes
\* what is written to it, held work is carried out once, and let go of only when
\* it was, or when a person was told to look at it.
THEOREM QueueKeepsItsPromise ==
    ASSUME HeldPastRetention = FALSE
    PROVE  Spec /\ WritesAreTaken => Promise
<1>1. Init => IInv /\ Kept /\ HW!Init
  BY InitBasics, InitGuarded, InitKept, InitPromised DEF IInv
<1>2. IInv /\ Kept /\ [Next]_vars /\ [Writing => Fits(Len(queue) + Len(refused) + 1)]_vars
        => (IInv /\ Kept)'
  BY NextBasics, NextGuarded, NextKept DEF IInv
<1>3. IInv /\ Kept /\ [Next]_vars /\ [Writing => Fits(Len(queue) + Len(refused) + 1)]_vars
        => [HW!Next]_HW!vars
  BY StepPromised
<1> QED
  BY <1>1, <1>2, <1>3, PTL DEF Spec, WritesAreTaken, Promise, HW!Spec

----------------------------------------------------------------------------
(* In whose name.  With one page, the page shows whose session it is, or   *)
(* the session has ended; with more, one page is left behind by another.   *)

Theirs ==
    /\ \A i \in 1..Len(queue) : queue[i].user = author[queue[i].key]
    /\ \A p \in Pages : signedIn \in {None, pageUser[p]}
    /\ \A r \in Reqs : req[r].stage # "idle" => req[r].as \in {None, author[req[r].key]}

LEMMA InitTheirs == Init => Theirs /\ SentAsWhoDidIt
  BY DEF Init, Theirs, SentAsWhoDidIt, NoRequest

\* Nothing new is sent, and nobody signs in.
LEMMA CalmTheirs ==
    ASSUME Basics, Theirs, Calmer, UNCHANGED <<queue, author, pageUser>>, signedIn' \in {None, signedIn}
    PROVE  Theirs'
<1>1. \A r \in Reqs : req'[r].stage # "idle" =>
        req[r].stage # "idle" /\ req'[r].key = req[r].key /\ req'[r].as = req[r].as
  BY DEF Calmer, NoRequest
<1> QED
  BY <1>1 DEF Theirs

\* What is left in the queue was in it.
LEMMA ReceivedTheirs ==
    ASSUME Basics, Theirs, NEW r \in Reqs, Receive(r) PROVE Theirs'
<1>1. req[r].key \in Keys /\ UNCHANGED <<author, pageUser, signedIn>>
  BY DEF Receive, Basics, Typed, RequestsAreReal, Held
<1>2. ASSUME NEW i \in 1..Len(queue') PROVE \E j \in 1..Len(queue) : queue'[i] = queue[j]
  <2>1. CASE queue' = queue
    BY <2>1
  <2>2. CASE queue' = QueueWithout(req[r].key) /\ req[r].key \in Waiting
    <3>1. PICK j \in 1..Len(queue) :
               /\ Len(queue') = Len(queue) - 1
               /\ \A n \in 1..(Len(queue) - 1) : queue'[n] = queue[IF n < j THEN n ELSE n + 1]
      BY <2>2, QueueWithoutOne DEF Basics, Typed, TypeOK
    <3>2. Len(queue) \in Nat
      BY LenProperties DEF Basics, Typed, TypeOK
    <3>3. i \in 1..(Len(queue) - 1) /\ (IF i < j THEN i ELSE i + 1) \in 1..Len(queue)
      BY <1>2, <3>1, <3>2
    <3> QED
      BY <3>1, <3>3
  <2> QED
    BY <2>1, <2>2 DEF Receive, QueueWithout
<1>3. \A s \in Reqs : req'[s].stage # "idle" => req'[s] = req[s]
  BY DEF Receive, NoRequest, Basics, Typed, TypeOK
<1> QED
  BY <1>1, <1>2, <1>3 DEF Theirs

LEMMA HeldTheirs ==
    ASSUME Basics, Theirs, SentAsWhoDidIt, NEW p \in Pages, NEW k \in Keys, Hold(p, k)
    PROVE  Theirs' /\ SentAsWhoDidIt'
<1>1. /\ author[k] = None /\ author' = [author EXCEPT ![k] = pageUser[p]]
      /\ UNCHANGED <<pageUser, signedIn, req, carriedAs>>
  BY DEF Hold, records
<1>2. \A j \in Keys : author'[j] = IF j = k THEN pageUser[p] ELSE author[j]
  BY <1>1 DEF Basics, Typed, TypeOK
<1>3. k \notin Held /\ k \notin Waiting
  BY <1>1 DEF Held, Basics, OnlyHeldWork
<1>4. \A i \in 1..Len(queue) : queue[i].key \in Keys /\ queue[i].key # k
  BY <1>3 DEF Waiting, Basics, OnlyHeldWork, Held
<1>5. \A i \in 1..Len(queue') : queue'[i].user = author'[queue'[i].key]
  <2>1. CASE queue' = queue
    BY <1>2, <1>4, <2>1 DEF Theirs
  <2>2. CASE queue' = Append(queue, [key |-> k, user |-> pageUser[p]])
    <3>1. /\ Len(queue') = Len(queue) + 1 /\ Len(queue) \in Nat
          /\ \A i \in 1..Len(queue) : queue'[i] = queue[i]
          /\ queue'[Len(queue) + 1] = [key |-> k, user |-> pageUser[p]]
      BY <2>2, HoldQueue, AppendProperties, LenProperties DEF Item, Basics, Typed, TypeOK
    <3>2. \A i \in 1..Len(queue') : i \in 1..Len(queue) \/ i = Len(queue) + 1
      BY <3>1
    <3> QED
      BY <1>2, <1>4, <3>1, <3>2 DEF Theirs
  <2> QED
    BY <2>1, <2>2 DEF Hold
<1>6. \A r \in Reqs : req[r].stage # "idle" => req[r].key \in Keys /\ req[r].key # k
  BY <1>3 DEF Basics, Typed, RequestsAreReal, Held
<1>7. Theirs'
  BY <1>1, <1>2, <1>5, <1>6 DEF Theirs
<1>8. carriedAs[k] = {}
  BY <1>1, OfflineQueueAssumption DEF SentAsWhoDidIt, Basics, Typed, TypeOK
<1> QED
  BY <1>1, <1>2, <1>7, <1>8 DEF SentAsWhoDidIt

LEMMA NextTheirs ==
    ASSUME \A p, q \in Pages : p = q, Basics, Theirs, SentAsWhoDidIt, [Next]_vars
    PROVE  Theirs' /\ SentAsWhoDidIt'
<1> USE DEF records, device
<1>1. CASE UNCHANGED vars
  BY <1>1 DEF vars, Theirs, SentAsWhoDidIt
<1>2. ASSUME NEW p \in Pages, Load(p) \/ \E u \in Users : SignIn(p, u)
      PROVE  Theirs' /\ SentAsWhoDidIt'
  <2>1. /\ pageUser'[p] = signedIn' /\ UNCHANGED <<queue, author, carriedAs>>
        /\ req' = Unheard(p)
    BY <1>2 DEF Load, SignIn, Basics, Typed, TypeOK
  <2>2. Calmer
    BY <2>1, UnheardIsCalmer DEF Basics, Typed, TypeOK
  <2>3. \A r \in Reqs : req'[r].stage # "idle" =>
          req[r].stage # "idle" /\ req'[r].key = req[r].key /\ req'[r].as = req[r].as
    BY <2>2 DEF Calmer, NoRequest
  <2>4. \A q \in Pages : signedIn' \in {None, pageUser'[q]}
    BY <2>1
  <2> QED
    BY <2>1, <2>3, <2>4 DEF Theirs, SentAsWhoDidIt
<1>3. ASSUME NEW p \in Pages, NEW k \in Keys, Hold(p, k) PROVE Theirs' /\ SentAsWhoDidIt'
  BY <1>3, HeldTheirs
<1>4. ASSUME NEW p \in Pages, NEW r \in Reqs, Flush(p, r) PROVE Theirs' /\ SentAsWhoDidIt'
  <2>1. PICK i \in 1..Len(queue) :
             /\ queue[i].user = pageUser[p]
             /\ req' = [req EXCEPT ![r] = [stage |-> "sent", page |-> p, key |-> queue[i].key,
                                           as |-> signedIn, answer |-> "none", heard |-> TRUE]]
    BY <1>4 DEF Flush
  <2>2. signedIn \in {None, author[queue[i].key]}
    BY <2>1 DEF Theirs
  <2>3. \A s \in Reqs : \/ req'[s] = req[s]
                        \/ req'[s].key = queue[i].key /\ req'[s].as = signedIn
    BY <2>1 DEF Basics, Typed, TypeOK
  <2>4. UNCHANGED <<queue, author, pageUser, signedIn, carriedAs>>
    BY <1>4 DEF Flush
  <2> QED
    BY <2>2, <2>3, <2>4 DEF Theirs, SentAsWhoDidIt
<1>5. ASSUME NEW r \in Reqs, Receive(r) PROVE Theirs' /\ SentAsWhoDidIt'
  BY <1>5, ReceivedTheirs DEF Receive, SentAsWhoDidIt
<1>6. ASSUME NEW r \in Reqs, ClaimFresh(r) \/ \E answer \in {"refused", "later"} : Fail(r, answer)
      PROVE  Theirs' /\ SentAsWhoDidIt'
  <2>1. \A s \in Reqs : /\ req'[s].key = req[s].key /\ req'[s].as = req[s].as
                        /\ req'[s].stage # "idle" => req[s].stage # "idle"
    <3>1. CASE ClaimFresh(r)
      BY <3>1 DEF ClaimFresh, Basics, Typed, TypeOK, Request
    <3>2. ASSUME NEW answer \in {"refused", "later"}, Fail(r, answer)
          PROVE  \A s \in Reqs : /\ req'[s].key = req[s].key /\ req'[s].as = req[s].as
                                 /\ req'[s].stage # "idle" => req[s].stage # "idle"
      BY <3>2 DEF Fail, Basics, Typed, TypeOK, Request
    <3> QED
      BY <1>6, <3>1, <3>2
  <2>2. UNCHANGED <<queue, author, pageUser, signedIn, carriedAs>>
    BY <1>6 DEF ClaimFresh, Fail
  <2> QED
    BY <2>1, <2>2 DEF Theirs, SentAsWhoDidIt
<1>7. ASSUME NEW r \in Reqs, CarryOut(r) PROVE Theirs' /\ SentAsWhoDidIt'
  <2>1. \A s \in Reqs : /\ req'[s].key = req[s].key /\ req'[s].as = req[s].as
                        /\ req'[s].stage # "idle" => req[s].stage # "idle"
    BY <1>7 DEF CarryOut, Basics, Typed, TypeOK, Request
  <2>2. UNCHANGED <<queue, author, pageUser, signedIn>>
    BY <1>7 DEF CarryOut
  <2>3. req[r].as = author[req[r].key]
    BY <1>7, OfflineQueueAssumption DEF CarryOut, Theirs, Basics, Typed, RequestsAreReal, Running
  <2>4. Theirs'
    BY <2>1, <2>2 DEF Theirs
  <2>5. \A k \in Keys : carriedAs'[k] = IF k = req[r].key THEN carriedAs[k] \cup {author[k]} ELSE carriedAs[k]
    BY <1>7, <2>3 DEF CarryOut, Basics, Typed, TypeOK
  <2> QED
    BY <2>2, <2>4, <2>5 DEF SentAsWhoDidIt
<1>8. CASE EndSession
  <2>1. Calmer
    BY <1>8 DEF EndSession, Calmer
  <2> QED
    BY <1>8, <2>1, CalmTheirs DEF EndSession, SentAsWhoDidIt
<1>9. ASSUME Dismiss \/ Sweep \/ \E k \in Keys : Age(k) PROVE Theirs' /\ SentAsWhoDidIt'
  BY <1>9 DEF Dismiss, Sweep, Age, Theirs, SentAsWhoDidIt
<1>10. ASSUME NEW r \in Reqs,
              \/ Unauthenticated(r) \/ ClaimTaken(r) \/ ClaimUnchecked(r)
              \/ Complete(r) \/ Release(r) \/ HangUp(r) \/ LoseRequest(r)
       PROVE  Theirs' /\ SentAsWhoDidIt'
  <2>1. UNCHANGED <<queue, author, pageUser, signedIn, carriedAs>>
    BY <1>10 DEF Unauthenticated, ClaimTaken, ClaimUnchecked, Complete, Release, HangUp, LoseRequest
  <2>2. ASSUME LoseRequest(r) PROVE Calmer
    BY <2>2 DEF LoseRequest, Calmer, Basics, Typed, TypeOK
  <2>3. Calmer
    BY <1>10, <2>2, AnswerCalm, EndCalm, HangUpCalm DEF Basics
  <2> QED
    BY <2>1, <2>3, CalmTheirs DEF SentAsWhoDidIt
<1>11. ASSUME Crash PROVE Theirs' /\ SentAsWhoDidIt'
  BY <1>11, CrashCalm, CalmTheirs DEF Crash, SentAsWhoDidIt, Basics
<1> QED
  BY <1>1, <1>2, <1>3, <1>4, <1>5, <1>6, <1>7, <1>8, <1>9, <1>10, <1>11 DEF Next

\* "Work held on a shared workshop tablet is sent as the person who did it, or
\* not at all": so it is, for any number of people, items and attempts, while the
\* browser shows one page (keep.js:271-273, flush).
THEOREM SentAsItsAuthor ==
    ASSUME \A p, q \in Pages : p = q
    PROVE  Spec => []SentAsWhoDidIt
<1>1. Init => Basics /\ Theirs /\ SentAsWhoDidIt
  BY InitBasics, InitTheirs
<1>2. Basics /\ Theirs /\ SentAsWhoDidIt /\ [Next]_vars => (Basics /\ Theirs /\ SentAsWhoDidIt)'
  BY NextBasics, NextTheirs
<1> QED
  BY <1>1, <1>2, PTL DEF Spec

=============================================================================
