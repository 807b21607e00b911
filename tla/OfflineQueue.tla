---------------------------- MODULE OfflineQueue ----------------------------
(***************************************************************************)
(* Work typed with no connection, from the tablet to the workshop's        *)
(* records: internal/web/static/keep.js holds it in the browser's storage  *)
(* under an idempotency key, internal/server/middleware_idempotent.go      *)
(* claims that key before the handler runs, and                            *)
(* internal/workshop/drafts.go keeps the claims.                           *)
(*                                                                         *)
(* One browser, with its one storage and its one session cookie, shows     *)
(* several pages; each page knows the person it was rendered for.  A       *)
(* request is a slot that moves through stages, and every stage boundary   *)
(* is a point where the connection can drop, the process can stop, or      *)
(* another copy of the same request can overtake it.                       *)
(***************************************************************************)
EXTENDS Naturals, Sequences, FiniteSets, SequencesExt

CONSTANTS
    Keys,       \* idempotency keys, one for each thing ever held
    Users,      \* people who share the tablet
    Pages,      \* pages open in the browser
    Reqs,       \* request slots: how many attempts can be under way at once
    None,       \* nobody, or nothing
    Room,       \* entries the browser's storage takes before it refuses
    HeldPastRetention   \* TRUE when an item may wait longer than the claims are kept

ASSUME OfflineQueueAssumption ==
    /\ None \notin Users \cup Pages \cup Keys
    /\ Room \in Nat
    /\ HeldPastRetention \in BOOLEAN

VARIABLES
    queue,      \* freesms.queue: items [key, user], oldest first
    refused,    \* freesms.refused: keys of refused items, as pushed
    pageUser,   \* the freesms-user each page was rendered for
    needsSignIn,\* each page's needsSignIn flag
    signedIn,   \* whose session the browser's cookie names
    req,        \* the request slots
    claims,     \* idempotency_keys: the row of each key
    author,     \* who held each key (None: not held yet)
    carried,    \* how many times each key's work was committed
    carriedAs,  \* in whose names it was committed
    dismissed   \* keys somebody looked at and dismissed

device == <<queue, refused, pageUser, needsSignIn, author, dismissed>>
records == <<carried, carriedAs>>
vars == <<queue, refused, pageUser, needsSignIn, signedIn, req, claims,
          author, carried, carriedAs, dismissed>>

Someone == Users \cup {None}
Stages == {"idle", "sent", "owned", "committed", "failed", "answered"}
\* ok: done, or answered with what was done; refused: a 4xx; later: a 5xx;
\* signin: a 401, or a redirect that landed on the sign-in page.
Answers == {"none", "ok", "refused", "later", "signin"}
Item == [key : Keys, user : Users]
\* age 0: fresh; 1: older than `stale` (10 min); 2: older than the retention (48 h).
Ages == 0..2
Claim == [row : {"none", "pending", "done"}, by : Someone, age : Ages]
NoClaim == [row |-> "none", by |-> None, age |-> 0]
Request == [stage : Stages, page : Pages \cup {None}, key : Keys \cup {None},
            as : Someone, answer : Answers, heard : BOOLEAN]
NoRequest == [stage |-> "idle", page |-> None, key |-> None,
              as |-> None, answer |-> "none", heard |-> FALSE]

Waiting == {queue[i].key : i \in 1..Len(queue)}
SetAside == {refused[i] : i \in 1..Len(refused)} \cup dismissed
Held == {k \in Keys : author[k] # None}
Running(r) == req[r].stage \in {"owned", "committed", "failed"}

TypeOK ==
    /\ queue \in Seq(Item)
    /\ refused \in Seq(Keys)
    /\ pageUser \in [Pages -> Someone]
    /\ needsSignIn \in [Pages -> BOOLEAN]
    /\ signedIn \in Someone
    /\ req \in [Reqs -> Request]
    /\ claims \in [Keys -> Claim]
    /\ author \in [Keys -> Someone]
    /\ carried \in [Keys -> Nat]
    /\ carriedAs \in [Keys -> SUBSET Users]
    /\ dismissed \subseteq Keys

Init ==
    /\ queue = <<>>
    /\ refused = <<>>
    /\ pageUser = [p \in Pages |-> None]
    /\ needsSignIn = [p \in Pages |-> FALSE]
    /\ signedIn = None
    /\ req = [r \in Reqs |-> NoRequest]
    /\ claims = [k \in Keys |-> NoClaim]
    /\ author = [k \in Keys |-> None]
    /\ carried = [k \in Keys |-> 0]
    /\ carriedAs = [k \in Keys |-> {}]
    /\ dismissed = {}

----------------------------------------------------------------------------
(* The browser.                                                            *)

\* localStorage takes a write only while there is room for it.
Fits(entries) == entries <= Room

\* The queue as flush writes it back: every item but this key's, of which there
\* is at most one.
QueueWithout(k) ==
    IF k \in Waiting
      THEN RemoveAt(queue, CHOOSE i \in 1..Len(queue) : queue[i].key = k)
      ELSE queue

\* A request the page no longer waits for: an answer to it reaches nobody.
GivenUp(q) == IF q.stage \in {"idle", "answered"} THEN NoRequest ELSE [q EXCEPT !.heard = FALSE]
Unheard(p) == [r \in Reqs |-> IF req[r].page = p THEN GivenUp(req[r]) ELSE req[r]]

\* A page is (re)loaded: it is rendered for whoever the cookie names, and
\* every script state of the old page goes, its unanswered requests included.
Load(p) ==
    /\ pageUser' = [pageUser EXCEPT ![p] = signedIn]
    /\ needsSignIn' = [needsSignIn EXCEPT ![p] = FALSE]
    /\ req' = Unheard(p)
    /\ UNCHANGED <<queue, refused, signedIn, claims, author, dismissed, records>>

\* Somebody signs in on one page; the cookie is the browser's, so the other
\* pages keep showing whoever they were rendered for.
SignIn(p, u) ==
    /\ signedIn = None
    /\ signedIn' = u
    /\ pageUser' = [pageUser EXCEPT ![p] = u]
    /\ needsSignIn' = [needsSignIn EXCEPT ![p] = FALSE]
    /\ req' = Unheard(p)
    /\ UNCHANGED <<queue, refused, claims, author, dismissed, records>>

\* The session ends: signed out, expired, or revoked. No open page is told.
EndSession ==
    /\ signedIn # None
    /\ signedIn' = None
    /\ UNCHANGED <<device, req, claims, records>>

\* hold: a marked form is submitted while the browser is offline. The person
\* is told it is held whether or not the storage took it.
Hold(p, k) ==
    /\ pageUser[p] # None
    /\ author[k] = None
    /\ author' = [author EXCEPT ![k] = pageUser[p]]
    /\ queue' = IF Fits(Len(queue) + Len(refused) + 1)
                  THEN Append(queue, [key |-> k, user |-> pageUser[p]])
                  ELSE queue
    /\ UNCHANGED <<refused, pageUser, needsSignIn, signedIn, req, claims, dismissed, records>>

\* As flush was before items carried a person: whoever is signed in adopts them.
FlushAnybodys(p, r) ==
    /\ req[r].stage = "idle"
    /\ pageUser[p] # None
    /\ ~needsSignIn[p]
    /\ queue # <<>>
    /\ req' = [req EXCEPT ![r] =
                 [stage |-> "sent", page |-> p, key |-> Head(queue).key,
                  as |-> signedIn, answer |-> "none", heard |-> TRUE]]
    /\ UNCHANGED <<device, signedIn, claims, records>>

\* flush: the oldest item of the person this page was rendered for is sent,
\* with the cookie the browser has at that moment. Nothing stops a page from
\* sending an item it, or another page, is already waiting for: the load and
\* the online event each call flush.
Flush(p, r) ==
    /\ req[r].stage = "idle"
    /\ pageUser[p] # None
    /\ ~needsSignIn[p]
    /\ \E i \in 1..Len(queue) :
         /\ queue[i].user = pageUser[p]
         /\ \A j \in 1..(i - 1) : queue[j].user # pageUser[p]
         /\ req' = [req EXCEPT ![r] =
                      [stage |-> "sent", page |-> p, key |-> queue[i].key,
                       as |-> signedIn, answer |-> "none", heard |-> TRUE]]
    /\ UNCHANGED <<device, signedIn, claims, records>>

\* As it was: a followed redirect to the sign-in page was read as success.
ReceiveSignInAsDone(r) ==
    LET k == req[r].key IN
    /\ req[r].stage = "answered"
    /\ req' = [req EXCEPT ![r] = NoRequest]
    /\ \/ /\ req[r].answer = "later"
          /\ UNCHANGED <<queue, refused>>
       \/ /\ req[r].answer # "later"
          /\ refused' = IF req[r].answer = "refused" THEN Append(refused, k) ELSE refused
          /\ queue' = QueueWithout(k)
    /\ UNCHANGED <<needsSignIn, pageUser, signedIn, claims, author, dismissed, records>>

\* flush's then: what the page does with the answer.
Receive(r) ==
    LET k == req[r].key IN
    /\ req[r].stage = "answered"
    /\ req' = [req EXCEPT ![r] = NoRequest]
    /\ \/ /\ req[r].answer = "signin"
          /\ needsSignIn' = [needsSignIn EXCEPT ![req[r].page] = TRUE]
          /\ UNCHANGED <<queue, refused>>
       \/ /\ req[r].answer = "later"
          /\ UNCHANGED <<queue, refused, needsSignIn>>
       \/ /\ req[r].answer \in {"ok", "refused"}
          \* Written while the item is still in the queue, and the write's
          \* failure is not looked at.
          /\ refused' = IF req[r].answer = "refused" /\ Fits(Len(queue) + Len(refused) + 1)
                          THEN Append(refused, k)
                          ELSE refused
          /\ queue' = QueueWithout(k)
          /\ UNCHANGED needsSignIn
    /\ UNCHANGED <<pageUser, signedIn, claims, author, dismissed, records>>

\* The person looks at what was refused and dismisses it, on purpose.
Dismiss ==
    /\ refused # <<>>
    /\ dismissed' = SetAside
    /\ refused' = <<>>
    /\ UNCHANGED <<queue, pageUser, needsSignIn, signedIn, req, claims, author, records>>

----------------------------------------------------------------------------
(* The network.                                                            *)

\* A request never arrives.
LoseRequest(r) ==
    /\ req[r].stage = "sent"
    /\ req' = [req EXCEPT ![r] = NoRequest]
    /\ UNCHANGED <<device, signedIn, claims, records>>

\* The connection drops under a request that is still on its way, being
\* carried out, or answered: the page gives up, the server does not.
HangUp(r) ==
    /\ req[r].stage # "idle"
    /\ req[r].heard
    /\ req' = [req EXCEPT ![r] = GivenUp(@)]
    /\ UNCHANGED <<device, signedIn, claims, records>>

----------------------------------------------------------------------------
(* The server.                                                             *)

Answered(r, answer) ==
    req' = [req EXCEPT ![r] = IF @.heard
                                THEN [@ EXCEPT !.stage = "answered", !.answer = answer]
                                ELSE NoRequest]

\* requireSession: a request with no session, or one that has ended since it
\* was sent, is answered 401 and reaches no claim.
Unauthenticated(r) ==
    /\ req[r].stage = "sent"
    /\ Answered(r, "signin")
    /\ UNCHANGED <<device, signedIn, claims, records>>

\* A request whose session is not looked at.
ClaimWithoutSession(r) ==
    /\ req[r].stage = "sent"
    /\ claims[req[r].key].row = "none"
    /\ claims' = [claims EXCEPT ![req[r].key] =
                    [row |-> "pending", by |-> req[r].as, age |-> 0]]
    /\ req' = [req EXCEPT ![r].stage = "owned"]
    /\ UNCHANGED <<device, signedIn, records>>

\* A claim abandoned long ago is taken over, as if nothing had happened.
ClaimAbandoned(r) ==
    /\ req[r].stage = "sent"
    /\ req[r].as # None
    /\ \/ claims[req[r].key].row = "none"
       \/ claims[req[r].key].row = "pending" /\ claims[req[r].key].age > 0
    /\ claims' = [claims EXCEPT ![req[r].key] =
                    [row |-> "pending", by |-> req[r].as, age |-> 0]]
    /\ req' = [req EXCEPT ![r].stage = "owned"]
    /\ UNCHANGED <<device, signedIn, records>>

\* The key is nobody's yet: the insert takes it and this request owns it.
ClaimFresh(r) ==
    /\ req[r].stage = "sent"
    /\ req[r].as # None
    /\ claims[req[r].key].row = "none"
    /\ claims' = [claims EXCEPT ![req[r].key] =
                    [row |-> "pending", by |-> req[r].as, age |-> 0]]
    /\ req' = [req EXCEPT ![r].stage = "owned"]
    /\ UNCHANGED <<device, signedIn, records>>

\* An abandoned claim is forever "still being carried out".
ClaimTakenNeverStale(r) ==
    LET claim == claims[req[r].key] IN
    /\ req[r].stage = "sent"
    /\ req[r].as # None
    /\ claim.row # "none"
    /\ \/ claim.by # req[r].as /\ Answered(r, "refused")
       \/ claim.by = req[r].as /\ claim.row = "pending" /\ Answered(r, "later")
       \/ /\ claim.by = req[r].as
          /\ claim.row = "done"
          /\ \E landed \in Answers \ {"none"} : Answered(r, landed)
    /\ UNCHANGED <<device, signedIn, claims, records>>

\* What another attempt left decides: another person's request or an outcome
\* nobody knows is a 409, one still running a 503, a finished one its answer.
ClaimTaken(r) ==
    LET claim == claims[req[r].key] IN
    /\ req[r].stage = "sent"
    /\ req[r].as # None
    /\ claim.row # "none"
    /\ \/ claim.by # req[r].as /\ Answered(r, "refused")
       \/ claim.by = req[r].as /\ claim.row = "pending" /\ claim.age = 0 /\ Answered(r, "later")
       \/ claim.by = req[r].as /\ claim.row = "pending" /\ claim.age > 0 /\ Answered(r, "refused")
       \/ /\ claim.by = req[r].as
          /\ claim.row = "done"
          /\ \E landed \in Answers \ {"none"} : Answered(r, landed)
    /\ UNCHANGED <<device, signedIn, claims, records>>

\* As it was: the work was done without the guarantee the client asked for.
ClaimUncheckedCarriesOn(r) ==
    /\ req[r].stage = "sent"
    /\ req[r].as # None
    /\ req' = [req EXCEPT ![r].stage = "owned"]
    /\ UNCHANGED <<device, signedIn, claims, records>>

\* The claim could not be checked at all: a 503, and nothing is done.
ClaimUnchecked(r) ==
    /\ req[r].stage = "sent"
    /\ req[r].as # None
    /\ Answered(r, "later")
    /\ UNCHANGED <<device, signedIn, claims, records>>

\* The handler's transaction commits.
CarryOut(r) ==
    LET k == req[r].key IN
    /\ req[r].stage = "owned"
    /\ carried' = [carried EXCEPT ![k] = @ + 1]
    /\ carriedAs' = [carriedAs EXCEPT ![k] = @ \cup {req[r].as}]
    /\ req' = [req EXCEPT ![r].stage = "committed"]
    /\ UNCHANGED <<device, signedIn, claims>>

\* The handler refuses (4xx) or fails (5xx), and nothing was committed.
Fail(r, answer) ==
    /\ req[r].stage = "owned"
    /\ answer \in {"refused", "later"}
    /\ req' = [req EXCEPT ![r].stage = "failed", ![r].answer = answer]
    /\ UNCHANGED <<device, signedIn, claims, records>>

\* CompleteIdempotency, and the answer. The write can fail: it is logged, the
\* claim stays pending, and the client is told what the handler said. The
\* redirect is followed, and the page it lands on has an answer of its own.
Complete(r) ==
    LET k == req[r].key IN
    /\ req[r].stage = "committed"
    /\ \/ claims' = [claims EXCEPT ![k].row = IF @ = "pending" THEN "done" ELSE @]
       \/ UNCHANGED claims
    /\ \E landed \in Answers \ {"none"} : Answered(r, landed)
    /\ UNCHANGED <<device, signedIn, records>>

\* ReleaseIdempotency, and the answer. The delete can fail too.
Release(r) ==
    LET k == req[r].key IN
    /\ req[r].stage = "failed"
    /\ \/ claims' = [claims EXCEPT ![k] = IF @.row = "pending" THEN NoClaim ELSE @]
       \/ UNCHANGED claims
    /\ Answered(r, req[r].answer)
    /\ UNCHANGED <<device, signedIn, records>>

\* The process stops: whatever was committed stays, nothing else does.
Crash ==
    /\ \E r \in Reqs : Running(r)
    /\ req' = [r \in Reqs |-> IF Running(r) THEN NoRequest ELSE req[r]]
    /\ UNCHANGED <<device, signedIn, claims, records>>

\* Time passes over a claim.
Age(k) ==
    /\ claims[k].row # "none"
    /\ claims[k].age < 2
    /\ \/ claims[k].age = 0
       \/ HeldPastRetention
       \/ k \notin Waiting /\ \A r \in Reqs : req[r].stage # "idle" => req[r].key # k
    /\ claims' = [claims EXCEPT ![k].age = @ + 1]
    /\ UNCHANGED <<device, signedIn, req, records>>

\* The retention sweep.
Sweep ==
    /\ \E k \in Keys : claims[k].age = 2
    /\ claims' = [k \in Keys |-> IF claims[k].age = 2 THEN NoClaim ELSE claims[k]]
    /\ UNCHANGED <<device, signedIn, req, records>>

Next ==
    \/ \E p \in Pages : Load(p)
    \/ \E p \in Pages, u \in Users : SignIn(p, u)
    \/ EndSession
    \/ \E p \in Pages, k \in Keys : Hold(p, k)
    \/ \E p \in Pages, r \in Reqs : Flush(p, r)
    \/ \E r \in Reqs : Receive(r)
    \/ Dismiss
    \/ \E r \in Reqs : LoseRequest(r)
    \/ \E r \in Reqs : HangUp(r)
    \/ \E r \in Reqs : Unauthenticated(r)
    \/ \E r \in Reqs : ClaimFresh(r)
    \/ \E r \in Reqs : ClaimTaken(r)
    \/ \E r \in Reqs : ClaimUnchecked(r)
    \/ \E r \in Reqs : CarryOut(r)
    \/ \E r \in Reqs, answer \in {"refused", "later"} : Fail(r, answer)
    \/ \E r \in Reqs : Complete(r)
    \/ \E r \in Reqs : Release(r)
    \/ Crash
    \/ \E k \in Keys : Age(k)
    \/ Sweep

Spec == Init /\ [][Next]_vars

----------------------------------------------------------------------------
(* Fairness.  Pages keep being loaded, and each load flushes: that is the  *)
(* only retry there is.  The server finishes what it starts.  And what     *)
(* keeps being tried is not always lost: a sending reaches the server, a   *)
(* handler that is given its chances commits or refuses, and an answer     *)
(* that settles an item reaches the page that waits for it.                *)

Settles(r) == req[r].stage = "answered" /\ req[r].answer \in {"ok", "refused"}

Fairness ==
    /\ \A p \in Pages : WF_vars(Load(p))
    /\ \A k \in Keys : WF_vars(Age(k))
    /\ \A r \in Reqs :
         /\ WF_vars(Unauthenticated(r) \/ ClaimFresh(r) \/ ClaimTaken(r) \/ ClaimUnchecked(r))
         /\ WF_vars(CarryOut(r) \/ Fail(r, "refused") \/ Fail(r, "later"))
         /\ WF_vars(Complete(r) \/ Release(r))
         /\ WF_vars(Receive(r))
         /\ SF_vars(\E p \in Pages : Flush(p, r))
         /\ SF_vars(ClaimFresh(r) /\ req[r].heard)
         /\ SF_vars(ClaimTaken(r) /\ Settles(r)')
         /\ SF_vars((CarryOut(r) \/ Fail(r, "refused")) /\ req[r].heard)
         /\ SF_vars(Release(r) /\ Settles(r)')
         /\ SF_vars(Receive(r) /\ Settles(r))

FairSpec == Spec /\ Fairness

----------------------------------------------------------------------------
(* Correctness.                                                            *)

\* "sends it exactly once": the work behind a key is committed at most once,
\* however many copies of the request arrive, whatever order they arrive in,
\* and wherever the process stops (ClaimIdempotency).
CarriedOutAtMostOnce == \A k \in Keys : carried[k] <= 1

\* Whatever a person was told is being held is still on the device, was
\* carried out, or was put in front of them (hold, flush).
NothingHeldIsLost ==
    \A k \in Held : k \in Waiting \cup SetAside \/ carried[k] > 0

\* "Work held on a shared workshop tablet is sent as the person who did it, or
\* not at all" (hold, keep.js).
SentAsWhoDidIt == \A k \in Keys : carriedAs[k] \subseteq {author[k]}

\* At most one request is carrying out a key's work, and while one is, or once
\* one has, the claim that keeps the others out stands.
OneOwner ==
    /\ \A r, s \in Reqs : Running(r) /\ Running(s) /\ req[r].key = req[s].key => r = s
    /\ \A r \in Reqs : Running(r) => claims[req[r].key].row = "pending"
    /\ \A r \in Reqs : req[r].stage \in {"owned", "failed"} => carried[req[r].key] = 0

\* Held work does not wait for ever: while the person it is waiting for stays
\* signed in, every item is sent, and done or put in front of them (flush;
\* stale, in drafts.go, is "short enough that a queue stuck behind a crash is
\* noticed the same morning").
EventuallySettled ==
    \A u \in Users : <>[](signedIn = u) =>
        \A k \in Keys : (k \in Waiting /\ author[k] = u) ~> (k \notin Waiting)

\* The device and the server together implement the promise of HeldWork.
HW == INSTANCE HeldWork WITH
        waiting <- Waiting,
        done <- carried,
        aside <- SetAside
Promise == HW!Spec
=============================================================================
