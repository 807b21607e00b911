------------------------------ MODULE HeldWork ------------------------------
(***************************************************************************)
(* What the offline queue promises, with no tablet, network or server in   *)
(* it: a piece of work that was held is carried out at most once, and the  *)
(* device lets go of it only when it has been carried out or set aside for *)
(* a person to look at.                                                    *)
(***************************************************************************)
EXTENDS Naturals

CONSTANT Keys   \* one idempotency key for each piece of held work

VARIABLES
    waiting,    \* the work the device still has to send
    done,       \* how many times the workshop's records hold each piece
    aside       \* the work a person has been told to look at

vars == <<waiting, done, aside>>

Init ==
    /\ waiting = {}
    /\ done = [k \in Keys |-> 0]
    /\ aside = {}

\* A form is submitted with no connection.
Hold(k) ==
    /\ k \notin waiting \cup aside
    /\ done[k] = 0
    /\ waiting' = waiting \cup {k}
    /\ UNCHANGED <<done, aside>>

\* The work is done, once. An attempt still running when its item was set aside
\* may finish afterwards; what it may never do is the same work again.
CarryOut(k) ==
    /\ k \in waiting \cup aside
    /\ done[k] = 0
    /\ done' = [done EXCEPT ![k] = 1]
    /\ UNCHANGED <<waiting, aside>>

\* The device forgets work it knows was done.
Forget(k) ==
    /\ k \in waiting
    /\ done[k] # 0
    /\ waiting' = waiting \ {k}
    /\ UNCHANGED <<done, aside>>

\* The server would not have it, or cannot say whether it happened: the
\* device stops sending it and keeps what it was. A late copy of work that was
\* done, and forgotten, may be set aside too: a person looks once too often.
SetAside(k) ==
    /\ k \in waiting \/ done[k] # 0
    /\ waiting' = waiting \ {k}
    /\ aside' = aside \cup {k}
    /\ UNCHANGED done

Next == \E k \in Keys : Hold(k) \/ CarryOut(k) \/ Forget(k) \/ SetAside(k)

Spec == Init /\ [][Next]_vars
=============================================================================
