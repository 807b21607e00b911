----------------------------- MODULE DeskProofs -----------------------------
(***************************************************************************)
(* The people of the shop (Staff): that owners who are counted stay while  *)
(* they are counted, so that the shop loses its last owner in the two ways *)
(* OwnersKeepEachOther names and in no other; and that whoever is switched *)
(* off, and the workshop's clocks, stay so.  For any number of people,     *)
(* browsers and requests.                                                  *)
(*                                                                         *)
(* And parts bought outside the program (Supply): that the shelf holds     *)
(* what was put on it less what was sent back, that a delivery counts once *)
(* against its request, and that no request is finished early.  For any    *)
(* number of clerks, requests, orders and deliveries.                      *)
(*                                                                         *)
(* The runs look at each module in parts; here everything may happen.  Of  *)
(* CommonProofs only the sums are used.                                    *)
(***************************************************************************)
EXTENDS Staff, Supply, CommonProofs, SequenceTheorems

SpecStaff == InitStaff /\ [][NextStaff]_staffvars

People0   == People \cup {NoPerson}
PersonRec == [there : BOOLEAN, active : BOOLEAN, roles : RoleSets]
Sessions  == [of : People0, late : BOOLEAN]
Requests  ==
  [at : {"idle", "asked", "counting", "locking", "deciding"}, does : {"nothing", "roles", "off", "clock"},
   by : People0, on : People0, want : RoleSets \cup {{}}, offered : BOOLEAN, owned : BOOLEAN,
   ask : SUBSET People, counted : SUBSET People, locks : SUBSET People]

Owns(p, u) == "owner" \in p[u].roles

\* A request under way, with p for the people and w for the workshop: whose
\* roles it decides about is locked and as it was read; everyone it counted is
\* locked, active and somebody else; and where an owner is to go, it counted one.
RequestFits(a, p, w) ==
  /\ a.does \in {"roles", "off"} => a.on \in People
  /\ a.does = "roles" => a.want \in RoleSets /\ p[a.on].there
  /\ a.does = "clock" => a.by \in People /\ a.at = "asked" /\ (a.offered => w)
  /\ a.at = "asked" => a.counted = {}
  /\ a.does = "roles" /\ a.at \in {"counting", "locking", "deciding"} =>
       a.on \in a.locks /\ (a.owned <=> Owns(p, a.on))
  /\ a.at = "deciding" /\ a.owned /\ (a.does = "roles" => "owner" \notin a.want) => a.counted # {}
  /\ a.on \notin a.ask
  /\ \A v \in a.counted : v \in a.locks /\ p[v].active /\ v # a.on

\* A row is locked by one request at a time.
OneHolder == \A s, t \in Doors : s # t => act[s].locks \cap act[t].locks = {}

\* A session, or a sign-in, is of somebody who is active, or outlived its end.
SessionFits(x, p) == x.of # NoPerson /\ ~x.late => p[x.of].active

PeopleFit   == \A u \in People : person[u].active => person[u].there
SessionsFit == \A b \in Browsers : SessionFits(session[b], person) /\ SessionFits(signing[b], person)
ClocksFit   == ~workshop => \A c \in clock : ~c[2]
RequestsFit == \A t \in Doors : RequestFits(act[t], person, workshop)

Types ==
  /\ person \in [People -> PersonRec]
  /\ session \in [Browsers -> Sessions] /\ signing \in [Browsers -> Sessions]
  /\ workshop \in BOOLEAN /\ clock \subseteq People \X BOOLEAN
  /\ act \in [Doors -> Requests]

IInv == Types /\ RequestsFit /\ OneHolder /\ PeopleFit /\ SessionsFit /\ ClocksFit

-----------------------------------------------------------------------------
(* Requests.                                                               *)

LEMMA NoActFits ==
  /\ NoAct \in Requests /\ \A p, w : RequestFits(NoAct, p, w)
  /\ NoAct.on = NoPerson /\ NoAct.ask = {} /\ NoAct.counted = {} /\ NoAct.locks = {}
  BY NobodyIsNoPerson DEF NoAct, Requests, People0, RequestFits

LEMMA RequestIs ==
  ASSUME IInv, NEW t \in Doors
  PROVE  act[t] \in Requests /\ RequestFits(act[t], person, workshop) /\ act \in [Doors -> Requests]
  BY DEF IInv, Types, RequestsFit

\* What a step of one request that changes nobody shows.
LEMMA OneRequestChanges ==
  ASSUME IInv, NEW t \in Doors, NEW n \in Requests, act' = [act EXCEPT ![t] = n],
         UNCHANGED <<person, session, signing, workshop>>,
         clock' \subseteq People \X BOOLEAN, ClocksFit',
         RequestFits(n, person, workshop),
         \A s \in Doors \ {t} : n.locks \cap act[s].locks = {}
  PROVE  IInv'
  <1>1. act'[t] = n /\ \A s \in Doors \ {t} : act'[s] = act[s]
    BY DEF IInv, Types
  <1>2. Types'
    BY DEF IInv, Types
  <1>3. RequestsFit'
    BY <1>1 DEF IInv, RequestsFit
  <1>4. OneHolder'
    <2> SUFFICES ASSUME NEW s \in Doors, NEW r \in Doors, s # r
                 PROVE  act'[s].locks \cap act'[r].locks = {}
      BY DEF OneHolder
    <2>1. CASE s = t
      BY <1>1, <2>1
    <2>2. CASE r = t
      BY <1>1, <2>2
    <2>3. CASE s # t /\ r # t
      BY <1>1, <2>3 DEF IInv, OneHolder
    <2> QED
      BY <2>1, <2>2, <2>3
  <1>5. PeopleFit' /\ SessionsFit'
    BY DEF IInv, PeopleFit, SessionsFit
  <1> QED
    BY <1>2, <1>3, <1>4, <1>5 DEF IInv

\* ... of which most leave the clocks, too, as they are.
LEMMA OnStaffChanges ==
  ASSUME IInv, NEW t \in Doors, NEW n \in Requests, act' = [act EXCEPT ![t] = n],
         UNCHANGED person, OnStaff,
         RequestFits(n, person, workshop),
         \/ n.locks \subseteq act[t].locks
         \/ \A s \in Doors \ {t} : n.locks \cap act[s].locks = {}
  PROVE  IInv'
  <1>1. UNCHANGED <<person, session, signing, workshop, clock>>
    BY DEF OnStaff
  <1>2. clock' \subseteq People \X BOOLEAN /\ ClocksFit'
    BY <1>1 DEF IInv, Types, ClocksFit
  <1>3. \A s \in Doors \ {t} : n.locks \cap act[s].locks = {}
    BY DEF IInv, OneHolder
  <1> QED
    BY <1>1, <1>2, <1>3, OneRequestChanges

LEMMA GiveUpKeeps ==
  ASSUME IInv, NEW t \in Doors, GiveUp(t)
  PROVE  IInv'
  <1>1. NoAct.locks \subseteq act[t].locks
    BY NoActFits
  <1> QED
    BY <1>1, NoActFits, OnStaffChanges DEF GiveUp

\* A request begins: it has locked and counted nobody.
Begins(n, what, u) ==
  /\ n \in Requests /\ n.at = "asked" /\ n.does = what /\ n.on = u
  /\ n.ask = {} /\ n.counted = {} /\ n.locks = {}

LEMMA BeginningKeeps ==
  ASSUME IInv, NEW t \in Doors, NEW n, act' = [act EXCEPT ![t] = n], UNCHANGED person, OnStaff,
         NEW what \in {"roles", "off", "clock"}, NEW u \in People0, Begins(n, what, u),
         what # "clock" => u \in People,
         what = "roles" => n.want \in RoleSets /\ person[u].there,
         what = "clock" => n.by \in People /\ workshop
  PROVE  IInv'
  <1>1. n \in Requests /\ n.locks \subseteq act[t].locks
    BY DEF Begins
  <1>2. RequestFits(n, person, workshop)
    BY DEF RequestFits, Begins
  <1> QED
    BY <1>1, <1>2, OnStaffChanges

LEMMA SetStaffRolesKeeps ==
  ASSUME IInv, NEW t \in Doors, NEW v \in People, NEW u \in People, NEW R \in RoleSets, SetStaffRoles(t, v, u, R)
  PROVE  IInv'
  <1> DEFINE n == [NoAct EXCEPT !.at = "asked", !.does = "roles", !.by = v, !.on = u, !.want = R, !.offered = workshop]
  <1>1. workshop \in BOOLEAN
    BY DEF IInv, Types
  <1>2. Begins(n, "roles", u) /\ n.want = R
    BY <1>1, NoActFits DEF Requests, People0, Begins
  <1>3. act' = [act EXCEPT ![t] = n] /\ person[u].there /\ UNCHANGED person /\ OnStaff
    BY DEF SetStaffRoles
  <1> HIDE DEF n
  <1>4. u \in People0
    BY DEF People0
  <1> QED
    BY <1>2, <1>3, <1>4, BeginningKeeps

LEMMA DeactivateKeeps ==
  ASSUME IInv, NEW t \in Doors, NEW v \in People, NEW u \in People, Deactivate(t, v, u)
  PROVE  IInv'
  <1> DEFINE n == [NoAct EXCEPT !.at = "asked", !.does = "off", !.by = v, !.on = u]
  <1>1. Begins(n, "off", u)
    BY NoActFits DEF Requests, People0, Begins
  <1>2. act' = [act EXCEPT ![t] = n] /\ UNCHANGED person /\ OnStaff
    BY DEF Deactivate
  <1> HIDE DEF n
  <1>3. u \in People0
    BY DEF People0
  <1> QED
    BY <1>1, <1>2, <1>3, BeginningKeeps

LEMMA AskToClockInKeeps ==
  ASSUME IInv, NEW t \in Doors, NEW u \in People, AskToClockIn(t, u)
  PROVE  IInv'
  <1> DEFINE yes == TRUE
             n == [NoAct EXCEPT !.at = "asked", !.does = "clock", !.by = u, !.offered = yes]
  <1>1. act' = [act EXCEPT ![t] = n]
    BY Zenon DEF AskToClockIn
  <1>2. yes \in BOOLEAN
    OBVIOUS
  <1> HIDE DEF yes
  <1>3. Begins(n, "clock", NoPerson) /\ n.by = u
    BY <1>2, NoActFits DEF Requests, People0, Begins
  <1>4. UNCHANGED person /\ OnStaff /\ workshop
    BY DEF AskToClockIn
  <1> HIDE DEF n
  <1>5. NoPerson \in People0
    BY DEF People0
  <1> QED
    BY <1>1, <1>3, <1>4, <1>5, BeginningKeeps

\* The person's row is locked, their roles read.
LEMMA LockPersonKeeps ==
  ASSUME IInv, NEW t \in Doors, LockPerson(t)
  PROVE  IInv'
  <1> DEFINE a == act[t]
             u == a.on
             at == IF IsOwner(u) /\ "owner" \notin a.want THEN "counting" ELSE "deciding"
             n == [a EXCEPT !.locks = {u}, !.owned = IsOwner(u), !.at = at]
  <1>1. a \in Requests /\ RequestFits(a, person, workshop) /\ act \in [Doors -> Requests]
    BY RequestIs
  <1>2. /\ a.at = "asked" /\ a.does = "roles" /\ u \in People /\ a.counted = {}
        /\ \A s \in Doors \ {t} : u \notin act[s].locks
        /\ UNCHANGED person /\ OnStaff
    BY <1>1 DEF LockPerson, Unheld, RequestFits
  <1>3. act' = [act EXCEPT ![t] = n]
    BY <1>1 DEF LockPerson
  <1>4. at \in {"counting", "deciding"} /\ (at = "deciding" /\ IsOwner(u) => "owner" \in a.want)
    OBVIOUS
  <1> HIDE DEF at
  <1>5. IsOwner(u) \in BOOLEAN /\ (IsOwner(u) <=> Owns(person, u))
    BY DEF IsOwner, Owns
  <1>6. /\ n \in Requests /\ n.locks = {u} /\ (n.owned <=> IsOwner(u)) /\ n.at = at
        /\ n.does = a.does /\ n.on = a.on /\ n.want = a.want /\ n.counted = a.counted /\ n.ask = a.ask
    BY <1>1, <1>2, <1>4, <1>5 DEF Requests
  <1> HIDE DEF n
  <1>7. RequestFits(n, person, workshop)
    BY <1>1, <1>2, <1>4, <1>5, <1>6 DEF RequestFits
  <1>8. \A s \in Doors \ {t} : n.locks \cap act[s].locks = {}
    BY <1>2, <1>6
  <1> QED
    BY <1>2, <1>3, <1>6, <1>7, <1>8, OnStaffChanges

\* Whether they are an owner is read; their row is not locked.
LEMMA ReadOwnerKeeps ==
  ASSUME IInv, NEW t \in Doors, ReadOwner(t)
  PROVE  IInv'
  <1> DEFINE a == act[t]
             at == IF IsOwner(a.on) THEN "counting" ELSE "deciding"
             n == [a EXCEPT !.owned = IsOwner(a.on), !.at = at]
  <1>1. a \in Requests /\ RequestFits(a, person, workshop) /\ act \in [Doors -> Requests]
    BY RequestIs
  <1>2. a.at = "asked" /\ a.does = "off" /\ a.counted = {} /\ UNCHANGED person /\ OnStaff
    BY <1>1 DEF ReadOwner, RequestFits
  <1>3. act' = [act EXCEPT ![t] = n]
    BY <1>1 DEF ReadOwner
  <1>4. at \in {"counting", "deciding"} /\ (at = "deciding" => ~IsOwner(a.on))
    OBVIOUS
  <1> HIDE DEF at
  <1>5. IsOwner(a.on) \in BOOLEAN
    BY DEF IsOwner
  <1>6. /\ n \in Requests /\ (n.owned <=> IsOwner(a.on)) /\ n.at = at /\ n.locks = a.locks
        /\ n.does = a.does /\ n.on = a.on /\ n.want = a.want /\ n.counted = a.counted /\ n.ask = a.ask
    BY <1>1, <1>2, <1>4, <1>5 DEF Requests
  <1> HIDE DEF n
  <1>7. RequestFits(n, person, workshop)
    BY <1>1, <1>2, <1>4, <1>6 DEF RequestFits
  <1> QED
    BY <1>2, <1>3, <1>6, <1>7, OnStaffChanges

\* The other owners are asked for: who they are is of that moment.
LEMMA CountOwnersKeeps ==
  ASSUME IInv, NEW t \in Doors, CountOwners(t)
  PROVE  IInv'
  <1> DEFINE a == act[t]
             S == {v \in People \ {a.on} : person[v].active /\ IsOwner(v)}
             n == [a EXCEPT !.at = "locking", !.ask = S]
  <1>1. a \in Requests /\ RequestFits(a, person, workshop) /\ act \in [Doors -> Requests]
    BY RequestIs
  <1>2. a.at = "counting" /\ act' = [act EXCEPT ![t] = n] /\ UNCHANGED person /\ OnStaff
    BY <1>1 DEF CountOwners
  <1>3. S \in SUBSET People /\ a.on \notin S
    OBVIOUS
  <1> HIDE DEF S
  <1>4. /\ n \in Requests /\ n.owned = a.owned /\ n.at = "locking" /\ n.locks = a.locks
        /\ n.does = a.does /\ n.on = a.on /\ n.want = a.want /\ n.counted = a.counted /\ n.ask = S
    BY <1>1, <1>3 DEF Requests
  <1> HIDE DEF n
  <1>5. RequestFits(n, person, workshop)
    BY <1>1, <1>2, <1>3, <1>4 DEF RequestFits
  <1> QED
    BY <1>2, <1>4, <1>5, OnStaffChanges

\* An owner is counted if they are active once their row is had.
LEMMA LockOwnerKeeps ==
  ASSUME IInv, NEW t \in Doors, NEW v \in People, LockOwner(t, v)
  PROVE  IInv'
  <1> DEFINE a == act[t]
             A == a.ask \ {v}
             L == a.locks \cup {v}
             C == IF person[v].active THEN a.counted \cup {v} ELSE a.counted
             n == [a EXCEPT !.ask = A, !.locks = L, !.counted = C]
  <1>1. a \in Requests /\ RequestFits(a, person, workshop) /\ act \in [Doors -> Requests]
    BY RequestIs
  <1>2. /\ a.at = "locking" /\ v \in a.ask /\ \A s \in Doors \ {t} : v \notin act[s].locks
        /\ UNCHANGED person /\ OnStaff
    BY DEF LockOwner, Unheld
  <1>3. act' = [act EXCEPT ![t] = n]
    BY <1>1 DEF LockOwner
  <1>4. /\ a.ask \subseteq People /\ a.locks \subseteq People /\ a.counted \subseteq People
    BY <1>1 DEF Requests
  <1>5. /\ A \in SUBSET People /\ L \in SUBSET People /\ C \in SUBSET People
        /\ a.on \notin A /\ \A w \in C : w \in a.counted \/ (w = v /\ person[v].active)
        /\ (a.on \in a.locks => a.on \in L) /\ a.locks \subseteq L /\ v \in L /\ v # a.on
    BY <1>1, <1>2, <1>4 DEF RequestFits
  <1>6. \A s \in Doors \ {t} : L \cap act[s].locks = {}
    BY <1>2 DEF IInv, OneHolder
  <1> HIDE DEF A, L, C
  <1>7. /\ n \in Requests /\ n.owned = a.owned /\ n.at = a.at /\ n.locks = L
        /\ n.does = a.does /\ n.on = a.on /\ n.want = a.want /\ n.counted = C /\ n.ask = A
    BY <1>1, <1>5 DEF Requests
  <1> HIDE DEF n
  <1>8. RequestFits(n, person, workshop)
    BY <1>1, <1>2, <1>5, <1>7 DEF RequestFits
  <1> QED
    BY <1>2, <1>3, <1>6, <1>7, <1>8, OnStaffChanges

LEMMA OwnerLeftKeeps ==
  ASSUME IInv, NEW t \in Doors, OwnerLeft(t)
  PROVE  IInv'
  <1> DEFINE a == act[t]
             n == [a EXCEPT !.at = "deciding"]
  <1>1. a \in Requests /\ RequestFits(a, person, workshop) /\ act \in [Doors -> Requests]
    BY RequestIs
  <1>2. a.at = "locking" /\ a.counted # {} /\ act' = [act EXCEPT ![t] = n] /\ UNCHANGED person /\ OnStaff
    BY <1>1 DEF OwnerLeft
  <1>3. /\ n \in Requests /\ n.owned = a.owned /\ n.at = "deciding" /\ n.locks = a.locks
        /\ n.does = a.does /\ n.on = a.on /\ n.want = a.want /\ n.counted = a.counted /\ n.ask = a.ask
    BY <1>1 DEF Requests
  <1> HIDE DEF n
  <1>4. RequestFits(n, person, workshop)
    BY <1>1, <1>2, <1>3 DEF RequestFits
  <1> QED
    BY <1>2, <1>3, <1>4, OnStaffChanges

\* Clocks: a clock that a request starts says whether the workshop was on then.
LEMMA StartClockKeeps ==
  ASSUME IInv, NEW t \in Doors, StartClock(t)
  PROVE  IInv'
  <1>1. /\ act[t] \in Requests /\ act[t].by \in People /\ (act[t].offered => workshop)
        /\ act' = [act EXCEPT ![t] = NoAct] /\ UNCHANGED <<person, session, signing, workshop>>
        /\ clock' = {c \in clock : c[1] # act[t].by} \cup {<<act[t].by, act[t].offered>>}
    BY RequestIs DEF StartClock, RequestFits
  <1>2. act[t].offered \in BOOLEAN
    BY <1>1 DEF Requests
  <1>3. clock' \subseteq People \X BOOLEAN
    BY <1>1, <1>2 DEF IInv, Types
  <1>4. ClocksFit'
    BY <1>1, <1>2 DEF IInv, ClocksFit
  <1> QED
    BY <1>1, <1>3, <1>4, NoActFits, OneRequestChanges

-----------------------------------------------------------------------------
(* Steps that change the people, the sessions or the workshop.             *)

\* What a step shows that changes sessions and sign-ins only.
LEMMA SessionsChange ==
  ASSUME IInv, UNCHANGED <<person, workshop, clock, act>>,
         session' \in [Browsers -> Sessions], signing' \in [Browsers -> Sessions],
         \A b \in Browsers : SessionFits(session'[b], person) /\ SessionFits(signing'[b], person)
  PROVE  IInv'
  <1>1. Types'
    BY DEF IInv, Types
  <1>2. RequestsFit' /\ OneHolder' /\ PeopleFit' /\ ClocksFit'
    BY DEF IInv, RequestsFit, OneHolder, PeopleFit, ClocksFit
  <1>3. SessionsFit'
    BY DEF SessionsFit
  <1> QED
    BY <1>1, <1>2, <1>3 DEF IInv

LEMMA SessionIs ==
  ASSUME IInv, NEW b \in Browsers
  PROVE  /\ session[b] \in Sessions /\ signing[b] \in Sessions
         /\ SessionFits(session[b], person) /\ SessionFits(signing[b], person)
         /\ session \in [Browsers -> Sessions] /\ signing \in [Browsers -> Sessions]
  BY DEF IInv, Types, SessionsFit

LEMMA NoSessionFits ==
  NoSession \in Sessions /\ \A p : SessionFits(NoSession, p)
  BY DEF NoSession, Sessions, People0, SessionFits

\* Signing out leaves no session of theirs, and sign-ins that are marked late.
LEMMA SignOutFits ==
  ASSUME IInv, NEW P, NEW kept, SignOut(P, kept), NEW p, \A u \in People \ P : p[u] = person[u],
         kept = {} \/ p = person
  PROVE  /\ session' \in [Browsers -> Sessions] /\ signing' \in [Browsers -> Sessions]
         /\ \A b \in Browsers : SessionFits(session'[b], p) /\ SessionFits(signing'[b], p)
  <1>1. ASSUME NEW b \in Browsers
        PROVE  /\ session'[b] \in Sessions /\ signing'[b] \in Sessions
               /\ SessionFits(session'[b], p) /\ SessionFits(signing'[b], p)
    <2>1. /\ session[b] \in Sessions /\ signing[b] \in Sessions
          /\ SessionFits(session[b], person) /\ SessionFits(signing[b], person)
      BY SessionIs
    <2>2. session'[b] \in Sessions /\ SessionFits(session'[b], p)
      <3>1. CASE session[b].of \in P /\ b \notin kept
        BY <3>1, NoSessionFits DEF SignOut
      <3>2. CASE ~(session[b].of \in P /\ b \notin kept)
        <4>1. session'[b] = session[b]
          BY <3>2 DEF SignOut
        <4> QED
          BY <2>1, <3>2, <4>1 DEF SessionFits, Sessions, People0
      <3> QED
        BY <3>1, <3>2
    <2>3. signing'[b] \in Sessions /\ SessionFits(signing'[b], p)
      <3>1. CASE signing[b].of \in P
        <4>1. signing'[b] = [signing[b] EXCEPT !.late = TRUE]
          BY <3>1 DEF SignOut
        <4>2. signing'[b] \in Sessions /\ signing'[b].late
          BY <2>1, <4>1 DEF Sessions
        <4> QED
          BY <4>2 DEF SessionFits
      <3>2. CASE signing[b].of \notin P
        <4>1. signing'[b] = signing[b]
          BY <3>2 DEF SignOut
        <4> QED
          BY <2>1, <3>2, <4>1 DEF SessionFits, Sessions, People0
      <3> QED
        BY <3>1, <3>2
    <2> QED
      BY <2>2, <2>3
  <1>2. session' = [b \in Browsers |-> session'[b]] /\ signing' = [b \in Browsers |-> signing'[b]]
    BY DEF SignOut
  <1> QED
    BY <1>1, <1>2

LEMMA SignOutKeeps ==
  ASSUME IInv, NEW P, NEW kept, SignOut(P, kept), UNCHANGED <<person, workshop, clock, act>>
  PROVE  IInv'
  BY SignOutFits, SessionsChange

LEMMA LoginKeeps ==
  ASSUME IInv, NEW b \in Browsers, NEW u \in People, Login(b, u)
  PROVE  IInv'
  <1> DEFINE n == [of |-> u, late |-> FALSE]
  <1>1. n \in Sessions /\ SessionFits(n, person)
    BY DEF Login, Sessions, People0, SessionFits
  <1>2. signing' = [signing EXCEPT ![b] = n] /\ UNCHANGED <<person, session, workshop, clock, act>>
    BY DEF Login
  <1> HIDE DEF n
  <1>3. signing' \in [Browsers -> Sessions]
    BY <1>1, <1>2, SessionIs
  <1>4. \A c \in Browsers : SessionFits(signing'[c], person)
    BY <1>1, <1>2, SessionIs
  <1> QED
    BY <1>2, <1>3, <1>4, SessionIs, SessionsChange

LEMMA OpenSessionKeeps ==
  ASSUME IInv, NEW b \in Browsers, OpenSession(b)
  PROVE  IInv'
  <1>1. /\ session' = [session EXCEPT ![b] = signing[b]] /\ signing' = [signing EXCEPT ![b] = NoSession]
        /\ UNCHANGED <<person, workshop, clock, act>>
    BY DEF OpenSession
  <1>2. session' \in [Browsers -> Sessions] /\ signing' \in [Browsers -> Sessions]
    BY <1>1, SessionIs, NoSessionFits
  <1>3. \A c \in Browsers : SessionFits(session'[c], person) /\ SessionFits(signing'[c], person)
    BY <1>1, SessionIs, NoSessionFits
  <1> QED
    BY <1>1, <1>2, <1>3, SessionsChange

LEMMA LogoutKeeps ==
  ASSUME IInv, NEW b \in Browsers, Logout(b)
  PROVE  IInv'
  <1>1. session' = [session EXCEPT ![b] = NoSession] /\ UNCHANGED <<person, signing, workshop, clock, act>>
    BY DEF Logout
  <1>2. session' \in [Browsers -> Sessions] /\ signing' \in [Browsers -> Sessions]
    BY <1>1, SessionIs, NoSessionFits
  <1>3. \A c \in Browsers : SessionFits(session'[c], person) /\ SessionFits(signing'[c], person)
    BY <1>1, SessionIs, NoSessionFits
  <1> QED
    BY <1>1, <1>2, <1>3, SessionsChange

\* What a step shows that changes somebody: the requests under way fit whom it
\* leaves, and the one that did it, if one did, is over.
LEMMA PeopleChange ==
  ASSUME IInv, UNCHANGED <<workshop, clock>>, act' \in [Doors -> Requests],
         person' \in [People -> PersonRec],
         \A t \in Doors : act'[t] = NoAct \/ (act'[t] = act[t] /\ RequestFits(act[t], person', workshop)),
         \A u \in People : person'[u].active => person'[u].there,
         session' \in [Browsers -> Sessions], signing' \in [Browsers -> Sessions],
         \A b \in Browsers : SessionFits(session'[b], person') /\ SessionFits(signing'[b], person')
  PROVE  IInv'
  <1>1. Types'
    BY NoActFits DEF IInv, Types
  <1>2. RequestsFit'
    BY NoActFits DEF RequestsFit
  <1>3. OneHolder'
    BY NoActFits DEF IInv, OneHolder
  <1>4. PeopleFit' /\ SessionsFit' /\ ClocksFit'
    BY DEF IInv, PeopleFit, SessionsFit, ClocksFit
  <1> QED
    BY <1>1, <1>2, <1>3, <1>4 DEF IInv

LEMMA PersonIs ==
  ASSUME IInv, NEW u \in People
  PROVE  /\ person \in [People -> PersonRec] /\ person[u] \in PersonRec
         /\ person[u].active => person[u].there
  BY DEF IInv, Types, PeopleFit

\* Somebody with the roles they are to have.
LEMMA PersonWith ==
  ASSUME NEW q \in PersonRec, NEW R \in RoleSets
  PROVE  /\ [q EXCEPT !.roles = R] \in PersonRec /\ [q EXCEPT !.roles = R].roles = R
         /\ [q EXCEPT !.roles = R].there = q.there /\ [q EXCEPT !.roles = R].active = q.active
  BY DEF PersonRec

\* Roles are given while their bearer is locked: no other decision is about them.
LEMMA GiveRolesKeeps ==
  ASSUME IInv, NEW t \in Doors, GiveRoles(t)
  PROVE  IInv'
  <1> DEFINE u == act[t].on
             n == [person[u] EXCEPT !.roles = act[t].want]
  <1>1. /\ act[t].at = "deciding" /\ act[t].does = "roles" /\ act[t].want \in RoleSets
        /\ u \in People /\ u \in act[t].locks /\ UNCHANGED <<session, signing, workshop, clock>>
        /\ act' = [act EXCEPT ![t] = NoAct]
    BY RequestIs DEF GiveRoles, RequestFits, OnStaff
  <1>2. person' = [person EXCEPT ![u] = n]
    BY <1>1, PersonIs DEF GiveRoles
  <1>3. n \in PersonRec /\ n.there = person[u].there /\ n.active = person[u].active
    BY <1>1, PersonIs, PersonWith
  <1> HIDE DEF n
  <1>4. /\ person' \in [People -> PersonRec] /\ \A v \in People \ {u} : person'[v] = person[v]
        /\ \A v \in People : person'[v].there = person[v].there /\ person'[v].active = person[v].active
    BY <1>1, <1>2, <1>3, PersonIs
  <1>5. ASSUME NEW s \in Doors \ {t}
        PROVE  RequestFits(act[s], person', workshop)
    <2>1. RequestFits(act[s], person, workshop) /\ act[s] \in Requests
      BY RequestIs
    <2>2. act[s].does = "roles" /\ act[s].at \in {"counting", "locking", "deciding"} => act[s].on # u
      BY <1>1, <2>1 DEF RequestFits, IInv, OneHolder
    <2>3. /\ act[s].counted \subseteq People
          /\ (act[s].does \in {"roles", "off"} => act[s].on \in People)
      BY <2>1 DEF Requests, RequestFits
    <2> QED
      BY <1>4, <2>1, <2>2, <2>3 DEF RequestFits, Owns
  <1>6. \A v \in People : person'[v].active => person'[v].there
    BY <1>4, PersonIs
  <1>7. \A b \in Browsers : SessionFits(session[b], person') /\ SessionFits(signing[b], person')
    <2> SUFFICES ASSUME NEW b \in Browsers PROVE SessionFits(session[b], person') /\ SessionFits(signing[b], person')
      OBVIOUS
    <2>1. /\ session[b].of \in People0 /\ signing[b].of \in People0
          /\ SessionFits(session[b], person) /\ SessionFits(signing[b], person)
      BY SessionIs DEF Sessions
    <2> QED
      BY <1>4, <2>1 DEF SessionFits, People0
  <1>8. act' \in [Doors -> Requests] /\ act'[t] = NoAct /\ \A s \in Doors \ {t} : act'[s] = act[s]
    BY <1>1, NoActFits DEF IInv, Types
  <1>9. session' \in [Browsers -> Sessions] /\ signing' \in [Browsers -> Sessions]
    BY <1>1 DEF IInv, Types
  <1> QED
    BY <1>1, <1>4, <1>5, <1>6, <1>7, <1>8, <1>9, PeopleChange

\* Whoever is switched off was counted by nobody who still decides.
LEMMA SwitchOffKeeps ==
  ASSUME IInv, NEW t \in Doors, SwitchOff(t)
  PROVE  IInv'
  <1> DEFINE u == act[t].on
             n == [person[u] EXCEPT !.active = FALSE]
  <1>1. /\ u \in People /\ \A s \in Doors \ {t} : u \notin act[s].locks
        /\ SignOut({u}, {}) /\ UNCHANGED <<workshop, clock>> /\ act' = [act EXCEPT ![t] = NoAct]
        /\ person' = [person EXCEPT ![u].active = FALSE]
    BY RequestIs DEF SwitchOff, Unheld, RequestFits
  <1>2. person' = [person EXCEPT ![u] = n]
    BY <1>1, PersonIs
  <1>3. n \in PersonRec /\ n.there = person[u].there /\ n.roles = person[u].roles /\ ~n.active
    BY <1>1, PersonIs DEF PersonRec
  <1> HIDE DEF n
  <1>4. /\ person' \in [People -> PersonRec] /\ \A v \in People \ {u} : person'[v] = person[v]
        /\ \A v \in People : person'[v].there = person[v].there /\ person'[v].roles = person[v].roles
        /\ \A v \in People : person'[v].active => person'[v].there
    BY <1>1, <1>2, <1>3, PersonIs
  <1>5. ASSUME NEW s \in Doors \ {t}
        PROVE  RequestFits(act[s], person', workshop)
    <2>1. RequestFits(act[s], person, workshop) /\ act[s] \in Requests
      BY RequestIs
    <2>2. /\ act[s].counted \subseteq People
          /\ (act[s].does \in {"roles", "off"} => act[s].on \in People)
          /\ u \notin act[s].counted
      BY <1>1, <2>1 DEF Requests, RequestFits
    <2> QED
      BY <1>4, <2>1, <2>2 DEF RequestFits, Owns
  <1>6. /\ session' \in [Browsers -> Sessions] /\ signing' \in [Browsers -> Sessions]
        /\ \A b \in Browsers : SessionFits(session'[b], person') /\ SessionFits(signing'[b], person')
    BY <1>1, <1>4, SignOutFits
  <1>7. act' \in [Doors -> Requests] /\ act'[t] = NoAct /\ \A s \in Doors \ {t} : act'[s] = act[s]
    BY <1>1, NoActFits DEF IInv, Types
  <1> QED
    BY <1>1, <1>4, <1>5, <1>6, <1>7, PeopleChange

\* Somebody switched on, or new, is nobody a request under way counts on less.
LEMMA SwitchOnKeeps ==
  ASSUME IInv, NEW u \in People, SwitchOn(u)
  PROVE  IInv'
  <1> DEFINE n == [person[u] EXCEPT !.active = TRUE]
  <1>1. person[u].there /\ UNCHANGED <<act, session, signing, workshop, clock>>
    BY DEF SwitchOn, OnStaff
  <1>2. person' = [person EXCEPT ![u] = n]
    BY PersonIs DEF SwitchOn
  <1>3. n \in PersonRec /\ n.there = person[u].there /\ n.roles = person[u].roles /\ n.active
    BY PersonIs DEF PersonRec
  <1> HIDE DEF n
  <1>4. /\ person' \in [People -> PersonRec] /\ \A v \in People \ {u} : person'[v] = person[v]
        /\ \A v \in People : person'[v].there = person[v].there /\ person'[v].roles = person[v].roles
        /\ \A v \in People : person'[v].active => person'[v].there
        /\ \A v \in People : person[v].active => person'[v].active
    BY <1>1, <1>2, <1>3, PersonIs
  <1>5. ASSUME NEW s \in Doors
        PROVE  RequestFits(act[s], person', workshop)
    <2>1. RequestFits(act[s], person, workshop) /\ act[s] \in Requests
      BY RequestIs
    <2>2. act[s].counted \subseteq People /\ (act[s].does \in {"roles", "off"} => act[s].on \in People)
      BY <2>1 DEF Requests, RequestFits
    <2> QED
      BY <1>4, <2>1, <2>2 DEF RequestFits, Owns
  <1>6. \A b \in Browsers : SessionFits(session[b], person') /\ SessionFits(signing[b], person')
    <2> SUFFICES ASSUME NEW b \in Browsers PROVE SessionFits(session[b], person') /\ SessionFits(signing[b], person')
      OBVIOUS
    <2>1. /\ session[b].of \in People0 /\ signing[b].of \in People0
          /\ SessionFits(session[b], person) /\ SessionFits(signing[b], person)
      BY SessionIs DEF Sessions
    <2> QED
      BY <1>4, <2>1 DEF SessionFits, People0
  <1>7. /\ act' \in [Doors -> Requests]
        /\ session' \in [Browsers -> Sessions] /\ signing' \in [Browsers -> Sessions]
    BY <1>1 DEF IInv, Types
  <1> QED
    BY <1>1, <1>4, <1>5, <1>6, <1>7, PeopleChange

LEMMA AddStaffKeeps ==
  ASSUME IInv, NEW u \in People, NEW R \in RoleSets, AddStaff(u, R)
  PROVE  IInv'
  <1> DEFINE n == [there |-> TRUE, active |-> TRUE, roles |-> R]
  <1>1. /\ ~person[u].there /\ ~person[u].active /\ UNCHANGED <<act, session, signing, workshop, clock>>
        /\ person' = [person EXCEPT ![u] = n]
    BY PersonIs DEF AddStaff, OnStaff
  <1>2. n \in PersonRec /\ n.there /\ n.active
    BY DEF PersonRec
  <1> HIDE DEF n
  <1>3. /\ person' \in [People -> PersonRec] /\ \A v \in People \ {u} : person'[v] = person[v]
        /\ \A v \in People : person'[v].active => person'[v].there
        /\ \A v \in People : person[v].active => person'[v].active
    BY <1>1, <1>2, PersonIs
  <1>4. ASSUME NEW s \in Doors
        PROVE  RequestFits(act[s], person', workshop)
    <2>1. RequestFits(act[s], person, workshop) /\ act[s] \in Requests
      BY RequestIs
    <2>2. /\ act[s].counted \subseteq People /\ (act[s].does \in {"roles", "off"} => act[s].on \in People)
          /\ (act[s].does = "roles" => act[s].on # u)
      BY <1>1, <2>1 DEF Requests, RequestFits
    <2> QED
      BY <1>3, <2>1, <2>2 DEF RequestFits, Owns
  <1>5. \A b \in Browsers : SessionFits(session[b], person') /\ SessionFits(signing[b], person')
    <2> SUFFICES ASSUME NEW b \in Browsers PROVE SessionFits(session[b], person') /\ SessionFits(signing[b], person')
      OBVIOUS
    <2>1. /\ session[b].of \in People0 /\ signing[b].of \in People0
          /\ SessionFits(session[b], person) /\ SessionFits(signing[b], person)
      BY SessionIs DEF Sessions
    <2> QED
      BY <1>3, <2>1 DEF SessionFits, People0
  <1>6. /\ act' \in [Doors -> Requests]
        /\ session' \in [Browsers -> Sessions] /\ signing' \in [Browsers -> Sessions]
    BY <1>1 DEF IInv, Types
  <1> QED
    BY <1>1, <1>3, <1>4, <1>5, <1>6, PeopleChange

\* The workshop is switched: the requests to clock in know it no longer as on.
LEMMA SwitchModuleKeeps ==
  ASSUME IInv, SwitchModule
  PROVE  IInv'
  <1> DEFINE n(t) == IF act[t].does = "clock" THEN [act[t] EXCEPT !.offered = FALSE] ELSE act[t]
  <1>1. /\ workshop' = ~workshop /\ clock' = (IF workshop THEN {} ELSE clock)
        /\ act' = [t \in Doors |-> n(t)] /\ UNCHANGED <<person, session, signing>>
    BY DEF SwitchModule
  <1>2. ASSUME NEW t \in Doors
        PROVE  n(t) \in Requests /\ n(t).locks = act[t].locks /\ RequestFits(n(t), person, workshop')
    <2>1. act[t] \in Requests /\ RequestFits(act[t], person, workshop)
      BY RequestIs
    <2>2. CASE act[t].does = "clock"
      <3> DEFINE a == [act[t] EXCEPT !.offered = FALSE]
      <3>1. /\ a \in Requests /\ ~a.offered /\ a.at = act[t].at /\ a.does = act[t].does /\ a.by = act[t].by
            /\ a.on = act[t].on /\ a.want = act[t].want /\ a.ask = act[t].ask /\ a.counted = act[t].counted
            /\ a.locks = act[t].locks
        BY <2>1 DEF Requests
      <3> HIDE DEF a
      <3>2. RequestFits(a, person, workshop')
        BY <2>1, <2>2, <3>1 DEF RequestFits
      <3>3. n(t) = a
        BY <2>2 DEF a
      <3> QED
        BY <3>1, <3>2, <3>3
    <2>3. CASE act[t].does # "clock"
      BY <2>1, <2>3 DEF RequestFits
    <2> QED
      BY <2>2, <2>3
  <1> HIDE DEF n
  <1>3. workshop \in BOOLEAN /\ workshop' \in BOOLEAN /\ clock' \subseteq People \X BOOLEAN
    BY <1>1 DEF IInv, Types
  <1>4. Types'
    BY <1>1, <1>2, <1>3 DEF IInv, Types
  <1>5. RequestsFit' /\ OneHolder'
    BY <1>1, <1>2 DEF RequestsFit, IInv, OneHolder
  <1>6. ClocksFit'
    BY <1>1, <1>3 DEF ClocksFit
  <1>7. PeopleFit' /\ SessionsFit'
    BY <1>1 DEF IInv, PeopleFit, SessionsFit
  <1> QED
    BY <1>4, <1>5, <1>6, <1>7 DEF IInv

LEMMA ClockOutKeeps ==
  ASSUME IInv, NEW u \in People, ClockOut(u)
  PROVE  IInv'
  <1>1. UNCHANGED <<person, session, signing, workshop, act>> /\ clock' \subseteq clock
    BY DEF ClockOut
  <1>2. Types' /\ ClocksFit'
    BY <1>1 DEF IInv, Types, ClocksFit
  <1>3. RequestsFit' /\ OneHolder' /\ PeopleFit' /\ SessionsFit'
    BY <1>1 DEF IInv, RequestsFit, OneHolder, PeopleFit, SessionsFit
  <1> QED
    BY <1>2, <1>3 DEF IInv

-----------------------------------------------------------------------------
(* The invariant, and what follows from it.                                *)

LEMMA InitFits ==
  ASSUME InitStaff
  PROVE  IInv
  <1>1. /\ person \in [People -> PersonRec] /\ PeopleFit
        /\ \A u \in People : person[u].there = person[u].active
    BY DEF InitStaff, PersonRec, PeopleFit
  <1>2. \A b \in Browsers : session[b].of \in {NoPerson} \cup {u \in People : person[u].active} /\ session[b] \in Sessions
    BY DEF InitStaff, Sessions, People0
  <1>3. session \in [Browsers -> Sessions]
    BY <1>2 DEF InitStaff
  <1>4. SessionsFit
    BY <1>2, NoSessionFits DEF InitStaff, SessionsFit, SessionFits
  <1>5. Types
    BY <1>1, <1>3, NoActFits, NoSessionFits DEF InitStaff, Types
  <1>6. RequestsFit /\ OneHolder
    BY NoActFits DEF InitStaff, RequestsFit, OneHolder
  <1>7. ClocksFit
    BY DEF InitStaff, ClocksFit
  <1> QED
    BY <1>1, <1>4, <1>5, <1>6, <1>7 DEF IInv

LEMMA NextKeeps ==
  ASSUME IInv, [NextStaff]_staffvars
  PROVE  IInv'
  <1>1. CASE SessionSteps
    <2>1. CASE RevokeAll
      BY <2>1, SignOutKeeps DEF RevokeAll
    <2>2. ASSUME NEW u \in People, SetPassword(u) PROVE IInv'
      BY <2>2, SignOutKeeps DEF SetPassword
    <2>3. ASSUME NEW b \in Browsers, ChangePassword(b) PROVE IInv'
      BY <2>3, SignOutKeeps DEF ChangePassword
    <2> QED
      BY <1>1, <2>1, <2>2, <2>3, LoginKeeps, OpenSessionKeeps, LogoutKeeps DEF SessionSteps
  <1>2. ASSUME NEW t \in Doors, RoleSteps(t) PROVE IInv'
    BY <1>2, SetStaffRolesKeeps, LockPersonKeeps, GiveRolesKeeps DEF RoleSteps
  <1>3. ASSUME NEW t \in Doors, OffSteps(t) PROVE IInv'
    BY <1>3, DeactivateKeeps, ReadOwnerKeeps, SwitchOffKeeps DEF OffSteps
  <1>4. ASSUME NEW t \in Doors, CountSteps(t) PROVE IInv'
    BY <1>4, CountOwnersKeeps, LockOwnerKeeps, OwnerLeftKeeps, GiveUpKeeps DEF CountSteps
  <1>5. CASE PeopleSteps
    BY <1>5, SwitchOnKeeps, AddStaffKeeps DEF PeopleSteps
  <1>6. CASE ClockSteps
    BY <1>6, SwitchModuleKeeps, ClockOutKeeps, AskToClockInKeeps, StartClockKeeps DEF ClockSteps
  <1>7. CASE UNCHANGED staffvars
    BY <1>7 DEF staffvars, IInv, Types, RequestsFit, OneHolder, PeopleFit, SessionsFit, ClocksFit
  <1> QED
    BY <1>1, <1>2, <1>3, <1>4, <1>5, <1>6, <1>7 DEF NextStaff, OwnerSteps, DoorSteps

\* However owners are switched off and on, given roles and counted, by how many
\* at once, the requests under way and the people fit together (IInv).
THEOREM RequestsAndPeopleFit == SpecStaff => []IInv
  <1>1. InitStaff => IInv
    BY InitFits
  <1>2. IInv /\ [NextStaff]_staffvars => IInv'
    BY NextKeeps
  <1> QED
    BY <1>1, <1>2, PTL DEF SpecStaff

\* Whoever is switched off has no session but one signed in across it, and with
\* the workshop off no clock runs but one asked for across it, always; and
\* every piece of the staff's state is of its kind.
THEOREM EndedStaysEnded == SpecStaff => []WhatEndedStaysEnded
  <1>1. ASSUME IInv PROVE WhatEndedStaysEnded
    <2>1. StaffTypeOK
      <3>1. \A t \in Doors : /\ act[t].at \in {"idle", "asked", "counting", "locking", "deciding"}
                             /\ act[t].locks \subseteq People /\ act[t].counted \subseteq People
        BY <1>1, RequestIs DEF Requests
      <3> QED
        BY <1>1, <3>1 DEF IInv, Types, StaffTypeOK, PersonRec, Sessions, People0
    <2>2. \A b \in Browsers : session[b].of # NoPerson /\ ~session[b].late => person[session[b].of].active
      BY <1>1 DEF IInv, SessionsFit, SessionFits
    <2> QED
      BY <1>1, <2>1, <2>2 DEF WhatEndedStaysEnded, IInv, ClocksFit
  <1> QED
    BY <1>1, RequestsAndPeopleFit, PTL

\* Who changes anybody.
LEMMA WhoChangesPeople ==
  ASSUME NextStaff
  PROVE  \/ UNCHANGED person \/ PeopleSteps
         \/ \E t \in Doors : GiveRoles(t) \/ SwitchOff(t)
  <1>1. SessionSteps => UNCHANGED person
    BY DEF SessionSteps, Login, OpenSession, Logout, ChangePassword, RevokeAll, SetPassword
  <1>2. ClockSteps => UNCHANGED person
    BY DEF ClockSteps, SwitchModule, ClockOut, AskToClockIn, StartClock
  <1>3. ASSUME NEW t \in Doors
        PROVE  RoleSteps(t) => UNCHANGED person \/ GiveRoles(t)
    BY DEF RoleSteps, SetStaffRoles, LockPerson
  <1>4. ASSUME NEW t \in Doors
        PROVE  OffSteps(t) => UNCHANGED person \/ SwitchOff(t)
    BY DEF OffSteps, Deactivate, ReadOwner
  <1>5. ASSUME NEW t \in Doors
        PROVE  CountSteps(t) => UNCHANGED person
    BY DEF CountSteps, CountOwners, LockOwner, OwnerLeft, GiveUp
  <1> QED
    BY <1>1, <1>2, <1>3, <1>4, <1>5 DEF NextStaff, OwnerSteps, DoorSteps

\* Whoever a decision counted is an active owner after it, if they are one still.
LEMMA CountedStay ==
  ASSUME IInv, NEW t \in Doors, SwitchOff(t) \/ GiveRoles(t), NEW v \in act[t].counted, IsOwner(v)
  PROVE  OwnerStays'
  <1>1. v \in People /\ person[v].active /\ v # act[t].on
    BY RequestIs DEF RequestFits, Requests
  <1>2. person'[v] = person[v]
    BY <1>1, PersonIs DEF SwitchOff, GiveRoles
  <1> QED
    BY <1>1, <1>2 DEF OwnerStays, IsOwner

\* Owners switching each other off, or taking each other's role away, cannot
\* leave nobody behind, however many they are (OtherOwners, session.go:315),
\* but in two ways: whoever was counted lost the role while their row was
\* waited for, or nobody was counted since the person was no owner when that
\* was read.
THEOREM LastOwnerStays == SpecStaff => OwnersKeepEachOther
  <1> DEFINE A == OwnerStays /\ ~OwnerStays' =>
                    \E t \in Doors :
                      /\ SwitchOff(t) \/ GiveRoles(t)
                      /\ \/ act[t].does = "off" /\ ~act[t].owned
                         \/ \E v \in act[t].counted : ~IsOwner(v)
  <1>1. ASSUME IInv, NextStaff, OwnerStays, ~OwnerStays'
        PROVE  \E t \in Doors :
                 /\ SwitchOff(t) \/ GiveRoles(t)
                 /\ \/ act[t].does = "off" /\ ~act[t].owned
                    \/ \E v \in act[t].counted : ~IsOwner(v)
    <2>1. ~ UNCHANGED person
      BY <1>1 DEF OwnerStays, IsOwner
    <2>2. ~ PeopleSteps
      <3>1. ASSUME NEW u \in People, SwitchOn(u) PROVE OwnerStays'
        <4>1. \A v \in People : person[v].active => person'[v].active /\ person'[v].roles = person[v].roles
          BY <1>1, <3>1, PersonIs DEF SwitchOn, PersonRec
        <4> QED
          BY <1>1, <4>1 DEF OwnerStays, IsOwner
      <3>2. ASSUME NEW u \in People, NEW R \in RoleSets, AddStaff(u, R) PROVE OwnerStays'
        <4>1. \A v \in People : person[v].active => person'[v] = person[v]
          BY <1>1, <3>2, PersonIs DEF AddStaff
        <4> QED
          BY <1>1, <4>1 DEF OwnerStays, IsOwner
      <3> QED
        BY <1>1, <3>1, <3>2 DEF PeopleSteps
    <2>3. PICK t \in Doors : SwitchOff(t) \/ GiveRoles(t)
      BY <1>1, <2>1, <2>2, WhoChangesPeople
    <2>4. RequestFits(act[t], person, workshop) /\ act[t].at = "deciding"
      BY <1>1, <2>3, RequestIs DEF SwitchOff, GiveRoles
    <2>5. \A v \in act[t].counted : ~IsOwner(v)
      BY <1>1, <2>3, CountedStay
    <2>6. CASE SwitchOff(t)
      <3>1. act[t].does = "off"
        BY <2>6 DEF SwitchOff
      <3>2. act[t].owned => act[t].counted # {}
        BY <2>4, <3>1 DEF RequestFits
      <3> QED
        BY <2>3, <2>5, <3>1, <3>2
    <2>7. CASE GiveRoles(t)
      <3> DEFINE u == act[t].on
      <3>1. /\ act[t].does = "roles" /\ u \in People /\ act[t].want \in RoleSets
            /\ act[t].owned <=> IsOwner(u)
            /\ act[t].owned /\ "owner" \notin act[t].want => act[t].counted # {}
        BY <2>4, <2>7 DEF GiveRoles, RequestFits, Owns, IsOwner
      <3>2. /\ \A v \in People \ {u} : person'[v] = person[v]
            /\ person'[u].active = person[u].active /\ person'[u].roles = act[t].want
        BY <1>1, <2>7, <3>1, PersonIs DEF GiveRoles, PersonRec
      <3>3. PICK v \in People : person[v].active /\ IsOwner(v)
        BY <1>1 DEF OwnerStays
      <3>4. v = u /\ "owner" \notin act[t].want
        BY <1>1, <3>2, <3>3 DEF OwnerStays, IsOwner
      <3> QED
        BY <2>3, <2>5, <3>1, <3>3, <3>4
    <2> QED
      BY <2>3, <2>6, <2>7
  <1>2. IInv /\ [NextStaff]_staffvars => [A]_staffvars
    BY <1>1
  <1> QED
    BY <1>2, RequestsAndPeopleFit, PTL DEF SpecStaff, OwnersKeepEachOther

-----------------------------------------------------------------------------
(* Parts bought outside the program (Supply).                              *)

SpecSupply == InitSupply /\ [][NextSupply]_supplyvars

Need    == [asked : Quantities, ended : {"no", "arrived", "cancelled"}]
Came    == [need : Nat, qty : Nat \ {0}, receipt : Nat]
Order   == [ref : References \cup {NoRef}, cancelled : BOOLEAN, confirmed : BOOLEAN]
OLine   == [order : Nat, need : Nat, part : BOOLEAN, cancelled : BOOLEAN, etas : Seq(Days)]
Receipt == [line : Nat, qty : Quantities, note : References \cup {NoRef}, route : Routes,
            substitute : {"no", "pending", "accepted", "rejected"}]
Back    == [receipt : Nat, qty : Quantities, gone : BOOLEAN, credited : BOOLEAN]

RowsTyped ==
  /\ need \in Seq(Need) /\ came \in Seq(Came) /\ order \in Seq(Order) /\ oline \in Seq(OLine)
  /\ receipt \in Seq(Receipt) /\ back \in Seq(Back) /\ onhand \in Int

\* What rows refer to is there, and what goes onto the shelf is no substitute.
Refer ==
  /\ \A i \in DOMAIN came : came[i].need \in DOMAIN need /\ came[i].receipt \in {0} \cup DOMAIN receipt
  /\ \A l \in DOMAIN oline : oline[l].need \in {0} \cup DOMAIN need
  /\ \A r \in DOMAIN receipt : receipt[r].line \in DOMAIN oline /\ (receipt[r].substitute # "no" => receipt[r].route # "stock")
  /\ \A b \in DOMAIN back : back[b].receipt \in DOMAIN receipt

\* Of one delivery at most one receipt reaches a request, and none before a
\* substitute is accepted.
ReachOnce ==
  /\ \A i, j \in DOMAIN came : came[i].receipt = came[j].receipt /\ came[i].receipt # 0 => i = j
  /\ \A i \in DOMAIN came : came[i].receipt # 0 =>
       /\ receipt[came[i].receipt].substitute \in {"no", "accepted"}
       /\ came[i].qty = receipt[came[i].receipt].qty
NotesDiffer ==
  \A r, s \in DOMAIN receipt :
    r # s /\ receipt[r].line = receipt[s].line /\ receipt[r].note # NoRef => receipt[r].note # receipt[s].note

\* What a clerk counted on has come, and more may have since.
Counted(n, got) == got \in Nat /\ (n # 0 => n \in DOMAIN need /\ got <= Got(n))

Fields == {"nothing", "receive", "eta", "deliver", "accept", "reject", "plan", "return"}
\* A clerk has the row locked whose reading is acted on.
ClerkFits(x) ==
  /\ x.does \in Fields /\ (x.does = "nothing" => x = AtDesk)
  /\ x.does = "receive" => /\ x.row = <<"nothing">> /\ x.qty \in 0..MaxQty /\ x.need # 0 /\ Counted(x.need, x.got)
  /\ x.does = "eta"     => x.row = <<"nothing">> /\ x.line \in DOMAIN oline /\ x.day \in Days
  /\ x.does = "deliver" =>
       /\ x.new \in Receipt /\ x.row = <<"line", x.new.line>> /\ x.new.line \in DOMAIN oline
       /\ x.new.substitute \in {"no", "pending"} /\ (x.new.substitute # "no" => x.new.route # "stock" /\ x.reaches.need = 0)
       /\ ~NoteKnown(x.new.line, x.new.note) /\ Counted(x.reaches.need, x.reaches.got)
  /\ x.does \in {"accept", "reject"} =>
       /\ x.row[2] \in DOMAIN receipt /\ x.row = <<"receipt", x.row[2]>> /\ receipt[x.row[2]].substitute = "pending"
       /\ Counted(x.reaches.need, x.reaches.got)
  /\ x.does = "plan"    => x.row = <<"nothing">> /\ x.receipt \in DOMAIN receipt /\ x.qty \in Quantities
  /\ x.does = "return"  => x.row[2] \in DOMAIN back /\ x.row = <<"return", x.row[2]>> /\ ~back[x.row[2]].gone

OneClerk ==
  \A c, d \in Clerks : c # d /\ clerk[c] # AtDesk /\ clerk[d] # AtDesk /\ clerk[c].row = clerk[d].row =>
    clerk[c].row = <<"nothing">>

ClerksFit == /\ clerk = [c \in Clerks |-> clerk[c]]
             /\ \A c \in Clerks : ClerkFits(clerk[c])

Rest == UNCHANGED <<need, came, order, oline, receipt, back, onhand>>
SupplyInv == RowsTyped /\ Refer /\ ReachOnce /\ NotesDiffer /\ ShelfMatchesDeliveries /\ NotFinishedEarly /\ ClerksFit /\ OneClerk

-----------------------------------------------------------------------------
(* Rows and what they come to.                                             *)

LEMMA SeqFacts ==
  ASSUME NEW S, NEW s \in Seq(S)
  PROVE  /\ Len(s) \in Nat /\ DOMAIN s = 1..Len(s) /\ Len(s) + 1 \notin DOMAIN s
         /\ \A i \in DOMAIN s : s[i] \in S
         /\ \A T \in SUBSET (DOMAIN s) : IsFiniteSet(T)
  <1>1. Len(s) \in Nat /\ DOMAIN s = 1..Len(s)
    BY LenProperties
  <1>2. \A i \in DOMAIN s : s[i] \in S
    BY <1>1, ElementOfSeq
  <1>3. IsFiniteSet(1..Len(s))
    BY <1>1, FS_Interval
  <1> QED  BY <1>1, <1>2, <1>3, FS_Subset

LEMMA AppendFacts ==
  ASSUME NEW S, NEW s \in Seq(S), NEW e \in S
  PROVE  /\ Append(s, e) \in Seq(S) /\ DOMAIN Append(s, e) = DOMAIN s \cup {Len(s) + 1}
         /\ Append(s, e)[Len(s) + 1] = e /\ \A i \in DOMAIN s : Append(s, e)[i] = s[i]
  <1>1. Len(s) \in Nat /\ DOMAIN s = 1..Len(s)
    BY LenProperties
  <1>2. /\ Append(s, e) \in Seq(S) /\ Len(Append(s, e)) = Len(s) + 1
        /\ \A i \in 1..Len(s) : Append(s, e)[i] = s[i]
        /\ Append(s, e)[Len(s) + 1] = e
    BY AppendProperties
  <1>3. DOMAIN Append(s, e) = 1..(Len(s) + 1)
    BY <1>2, LenProperties
  <1>4. 1..(Len(s) + 1) = 1..Len(s) \cup {Len(s) + 1}
    BY <1>1
  <1> QED  BY <1>1, <1>2, <1>3, <1>4

LEMMA ExceptFacts ==
  ASSUME NEW S, NEW s \in Seq(S), NEW n \in DOMAIN s, NEW e \in S
  PROVE  /\ [s EXCEPT ![n] = e] \in Seq(S) /\ DOMAIN [s EXCEPT ![n] = e] = DOMAIN s
         /\ \A i \in DOMAIN s : [s EXCEPT ![n] = e][i] = IF i = n THEN e ELSE s[i]
BY LenProperties, ExceptSeq

LEMMA TotalIsNat ==
  ASSUME NEW rows, NEW S \in SUBSET (DOMAIN rows), IsFiniteSet(S), \A i \in S : rows[i].qty \in Nat
  PROVE  Total(rows, S) \in Nat
  <1> DEFINE f == [i \in DOMAIN rows |-> rows[i].qty]
  <1>1. \A i \in S : f[i] \in Nat
    OBVIOUS
  <1>2. Total(rows, S) = SumFunctionOnSet(f, S)
    BY DEF Total
  <1> HIDE DEF f
  <1> QED  BY <1>1, <1>2, SumIsNat

LEMMA TotalIsOfQuantities ==
  ASSUME NEW rows, NEW more, NEW S, S \subseteq DOMAIN rows, S \subseteq DOMAIN more, IsFiniteSet(S),
         \A i \in S : rows[i].qty = more[i].qty
  PROVE  Total(rows, S) = Total(more, S)
  <1> DEFINE f == [i \in DOMAIN rows |-> rows[i].qty]
             g == [i \in DOMAIN more |-> more[i].qty]
  <1>1. \A i \in S : f[i] = g[i]
    OBVIOUS
  <1>2. Total(rows, S) = SumFunctionOnSet(f, S) /\ Total(more, S) = SumFunctionOnSet(g, S)
    BY DEF Total
  <1> HIDE DEF f, g
  <1> QED  BY <1>1, <1>2, SumIsOfItsTerms

LEMMA TotalWithOne ==
  ASSUME NEW rows, NEW S, S \subseteq DOMAIN rows, IsFiniteSet(S), NEW x \in DOMAIN rows, x \notin S,
         \A i \in S \cup {x} : rows[i].qty \in Nat
  PROVE  Total(rows, S \cup {x}) = rows[x].qty + Total(rows, S)
  <1> DEFINE f == [i \in DOMAIN rows |-> rows[i].qty]
  <1>1. (\A i \in S : f[i] \in Int) /\ f[x] \in Int /\ f[x] = rows[x].qty
    OBVIOUS
  <1>2. Total(rows, S) = SumFunctionOnSet(f, S) /\ Total(rows, S \cup {x}) = SumFunctionOnSet(f, S \cup {x})
    BY DEF Total
  <1> HIDE DEF f
  <1> QED  BY <1>1, <1>2, SumWithOne

LEMMA QuantityIsNat == \A q \in Quantities : q \in Nat /\ q > 0
  BY QuantitiesAreCounted DEF Quantities

LEMMA CameFacts ==
  ASSUME RowsTyped
  PROVE  /\ \A i \in DOMAIN came : came[i] \in Came /\ came[i].qty \in Nat
         /\ \A T \in SUBSET (DOMAIN came) : IsFiniteSet(T)
         /\ \A n : Got(n) \in Nat
  <1>1. came \in Seq(Came)
    BY DEF RowsTyped
  <1>2. /\ \A i \in DOMAIN came : came[i] \in Came
        /\ \A T \in SUBSET (DOMAIN came) : IsFiniteSet(T)
    BY <1>1, SeqFacts
  <1>3. \A i \in DOMAIN came : came[i].qty \in Nat
    BY <1>2 DEF Came
  <1>4. \A n : Got(n) \in Nat
    BY <1>2, <1>3, TotalIsNat DEF Got
  <1> QED  BY <1>2, <1>3, <1>4

\* A receipt against a request.
LEMMA ArrivesKeeps ==
  ASSUME SupplyInv, NEW n \in DOMAIN need, NEW got \in Nat, got <= Got(n), NEW q \in Nat \ {0}, NEW from \in Nat,
         Arrives(n, got, q, from)
  PROVE  /\ came' \in Seq(Came) /\ need' \in Seq(Need) /\ DOMAIN need' = DOMAIN need
         /\ DOMAIN came' = DOMAIN came \cup {Len(came) + 1} /\ Len(came) + 1 \notin DOMAIN came
         /\ came'[Len(came) + 1] = [need |-> n, qty |-> q, receipt |-> from]
         /\ \A i \in DOMAIN came : came'[i] = came[i]
         /\ \A m \in DOMAIN need : Got(m)' >= Got(m)
         /\ NotFinishedEarly'
  <1> DEFINE e == [need |-> n, qty |-> q, receipt |-> from]
             k == Len(came) + 1
  <1>1. need \in Seq(Need) /\ came \in Seq(Came)
    BY DEF SupplyInv, RowsTyped
  <1>2. n \in Nat
    BY <1>1, SeqFacts
  <1>3. e \in Came /\ e.need = n /\ e.qty = q
    BY <1>2 DEF Came
  <1>4. came' = Append(came, e)
    BY DEF Arrives
  <1> HIDE DEF e
  <1>5. /\ came' \in Seq(Came) /\ DOMAIN came' = DOMAIN came \cup {k} /\ k \notin DOMAIN came
        /\ came'[k] = e /\ \A i \in DOMAIN came : came'[i] = came[i]
    BY <1>1, <1>3, <1>4, AppendFacts, SeqFacts
  <1> HIDE DEF k
  <1>6. PICK o \in Need : need' = [need EXCEPT ![n] = o] /\ o.asked = need[n].asked
                          /\ (o.ended = "arrived" => need[n].ended = "arrived" \/ Finishes(n, got, q))
    <2>1. PICK w : w = need[n]
      OBVIOUS
    <2>2. w \in Need
      BY <1>1, <2>1, SeqFacts
    <2> DEFINE o == [w EXCEPT !.ended = IF Finishes(n, got, q) THEN "arrived" ELSE @]
    <2>3. need' = [need EXCEPT ![n] = o]
      BY <2>1 DEF Arrives
    <2>4. o \in Need /\ o.asked = w.asked /\ (o.ended = "arrived" => w.ended = "arrived" \/ Finishes(n, got, q))
      BY <2>2 DEF Need
    <2> QED  BY <2>1, <2>3, <2>4
  <1>7. /\ need' \in Seq(Need) /\ DOMAIN need' = DOMAIN need
        /\ \A m \in DOMAIN need : need'[m] = IF m = n THEN o ELSE need[m]
    BY <1>1, <1>6, ExceptFacts
  <1>8. \A m : Got(m) \in Nat
    BY CameFacts DEF SupplyInv
  <1>9. \A m : LET S == {i \in DOMAIN came : came[i].need = m}
               IN  Total(came', S) = Got(m)
    BY <1>5, CameFacts, TotalIsOfQuantities DEF SupplyInv, Got
  <1>10. \A m : m # n => Got(m)' = Got(m)
    <2> SUFFICES ASSUME NEW m, m # n PROVE Got(m)' = Got(m)
      OBVIOUS
    <2>1. {i \in DOMAIN came' : came'[i].need = m} = {i \in DOMAIN came : came[i].need = m}
      BY <1>3, <1>5
    <2> QED  BY <1>9, <2>1 DEF Got
  <1>11. Got(n)' = Got(n) + q
    <2> DEFINE S == {i \in DOMAIN came : came[i].need = n}
    <2>1. {i \in DOMAIN came' : came'[i].need = n} = S \cup {k}
      BY <1>3, <1>5
    <2>2. S \subseteq DOMAIN came' /\ IsFiniteSet(S) /\ k \in DOMAIN came' /\ k \notin S
      BY <1>5, CameFacts DEF SupplyInv
    <2>3. \A i \in S \cup {k} : came'[i].qty \in Nat
      BY <1>3, <1>5, CameFacts DEF SupplyInv
    <2>4. Total(came', S) = Got(n)
      BY <1>9
    <2> HIDE DEF S
    <2>5. Total(came', S \cup {k}) = came'[k].qty + Total(came', S)
      BY <2>2, <2>3, TotalWithOne
    <2>6. came'[k].qty = q
      BY <1>3, <1>5
    <2>7. Got(n)' = Total(came', S \cup {k})
      BY <2>1 DEF Got
    <2>8. PICK a, b : a = Got(n) /\ b = Got(n)'
      OBVIOUS
    <2>9. a \in Nat /\ b = q + a
      BY <1>8, <2>4, <2>5, <2>6, <2>7, <2>8
    <2> QED  BY <2>8, <2>9
  <1>12. \A m \in DOMAIN need : Got(m)' >= Got(m)
    BY <1>8, <1>10, <1>11
  <1>13. \A m \in DOMAIN need : need[m].asked \in Nat
    <2> SUFFICES ASSUME NEW m \in DOMAIN need PROVE need[m].asked \in Nat
      OBVIOUS
    <2>1. need[m] \in Need
      BY <1>1, SeqFacts
    <2> QED  BY <2>1, QuantityIsNat DEF Need
  <1>14. NotFinishedEarly'
    <2> SUFFICES ASSUME NEW m \in DOMAIN need, need'[m].ended = "arrived" PROVE Got(m)' >= need'[m].asked
      BY <1>7 DEF NotFinishedEarly
    <2>1. CASE m # n
      BY <1>7, <1>10, <2>1 DEF SupplyInv, NotFinishedEarly
    <2>2. CASE m = n
      <3>1. need'[m].asked = need[n].asked /\ (need[n].ended = "arrived" \/ Finishes(n, got, q))
        BY <1>6, <1>7, <2>2
      <3>2. need[n].ended = "arrived" => Got(n) >= need[n].asked
        BY DEF SupplyInv, NotFinishedEarly
      <3>3. Finishes(n, got, q) => got + q >= need[n].asked
        BY DEF Finishes
      <3> QED  BY <1>8, <1>11, <1>13, <2>2, <3>1, <3>2, <3>3
    <2> QED  BY <2>1, <2>2
  <1> QED  BY <1>5, <1>7, <1>12, <1>14 DEF e, k

\* A request more, or one called off.
LEMMA NeedKeeps ==
  ASSUME SupplyInv, UNCHANGED came,
         \/ \E q \in Quantities : need' = Ask(q)
         \/ \E n \in DOMAIN need : need' = [need EXCEPT ![n].ended = "cancelled"]
  PROVE  /\ need' \in Seq(Need) /\ DOMAIN need \subseteq DOMAIN need'
         /\ NotFinishedEarly' /\ \A m : Got(m)' = Got(m)
  <1>1. need \in Seq(Need)
    BY DEF SupplyInv, RowsTyped
  <1>2. \A m : Got(m)' = Got(m)
    BY DEF Got
  <1>3. ASSUME NEW q \in Quantities, need' = Ask(q)
        PROVE  need' \in Seq(Need) /\ DOMAIN need \subseteq DOMAIN need' /\ NotFinishedEarly'
    <2> DEFINE e == [asked |-> q, ended |-> "no"]
    <2>1. e \in Need /\ e.ended # "arrived"
      BY DEF Need
    <2>2. need' = Append(need, e)
      BY <1>3 DEF Ask
    <2> HIDE DEF e
    <2>3. /\ need' \in Seq(Need) /\ DOMAIN need' = DOMAIN need \cup {Len(need) + 1}
          /\ need'[Len(need) + 1] = e /\ \A i \in DOMAIN need : need'[i] = need[i]
      BY <1>1, <2>1, <2>2, AppendFacts
    <2> QED  BY <1>2, <2>1, <2>3 DEF SupplyInv, NotFinishedEarly
  <1>4. ASSUME NEW n \in DOMAIN need, need' = [need EXCEPT ![n].ended = "cancelled"]
        PROVE  need' \in Seq(Need) /\ DOMAIN need \subseteq DOMAIN need' /\ NotFinishedEarly'
    <2>1. PICK w : w = need[n]
      OBVIOUS
    <2>2. w \in Need
      BY <1>1, <2>1, SeqFacts
    <2> DEFINE e == [w EXCEPT !.ended = "cancelled"]
    <2>3. e \in Need /\ e.ended # "arrived"
      BY <2>2 DEF Need
    <2>4. need' = [need EXCEPT ![n] = e]
      BY <1>4, <2>1
    <2> HIDE DEF e
    <2>5. /\ need' \in Seq(Need) /\ DOMAIN need' = DOMAIN need
          /\ \A m \in DOMAIN need : need'[m] = IF m = n THEN e ELSE need[m]
      BY <1>1, <2>3, <2>4, ExceptFacts
    <2> QED  BY <1>2, <2>3, <2>5 DEF SupplyInv, NotFinishedEarly
  <1> QED  BY <1>2, <1>3, <1>4

-----------------------------------------------------------------------------
(* Clerks.                                                                 *)

\* What a clerk holds stays so while rows are only added and what is locked
\* is left alone.
LEMMA StaysFit ==
  ASSUME NEW x, ClerkFits(x), DOMAIN need \subseteq DOMAIN need', \A m \in DOMAIN need : Got(m)' >= Got(m),
         RowsTyped, RowsTyped',
         DOMAIN oline \subseteq DOMAIN oline', DOMAIN receipt \subseteq DOMAIN receipt', DOMAIN back \subseteq DOMAIN back',
         x.does = "deliver" => ~NoteKnown(x.new.line, x.new.note)',
         x.does \in {"accept", "reject"} => receipt'[x.row[2]].substitute = receipt[x.row[2]].substitute,
         x.does = "return" => back'[x.row[2]].gone = back[x.row[2]].gone
  PROVE  ClerkFits(x)'
  <1>1. \A n, got : Counted(n, got) => Counted(n, got)'
    <2> SUFFICES ASSUME NEW n, NEW got, Counted(n, got), n # 0 PROVE n \in DOMAIN need' /\ got <= Got(n)'
      BY DEF Counted
    <2>1. got \in Nat /\ Got(n) \in Nat /\ Got(n)' \in Nat
      <3>1. Got(n)' \in Nat
        <4>1. came' \in Seq(Came)
          BY DEF RowsTyped
        <4>2. /\ \A i \in DOMAIN came' : came'[i] \in Came
              /\ \A T \in SUBSET (DOMAIN came') : IsFiniteSet(T)
          BY <4>1, SeqFacts
        <4>3. \A i \in DOMAIN came' : came'[i].qty \in Nat
          BY <4>2 DEF Came
        <4> QED  BY <4>2, <4>3, TotalIsNat DEF Got
      <3> QED  BY <3>1, CameFacts DEF Counted
    <2>2. n \in DOMAIN need /\ got <= Got(n)
      BY DEF Counted
    <2> QED  BY <2>1, <2>2
  <1> QED  BY <1>1 DEF ClerkFits

\* One clerk says or ends something, and no row changes.
LEMMA OnlyClerkSays ==
  ASSUME SupplyInv, Rest, NEW c \in Clerks, NEW y, clerk' = [clerk EXCEPT ![c] = y], ClerkFits(y),
         \/ y = AtDesk \/ y.row = <<"nothing">> \/ Unlocked(y.row)
  PROVE  SupplyInv'
  <1>1. RowsTyped' /\ Refer' /\ ReachOnce' /\ NotesDiffer' /\ ShelfMatchesDeliveries' /\ NotFinishedEarly'
    BY DEF SupplyInv, Rest, RowsTyped, Refer, ReachOnce, NotesDiffer, ShelfMatchesDeliveries, NotFinishedEarly, Got
  <1>2. \A x : ClerkFits(x) => ClerkFits(x)'
    BY DEF Rest, ClerkFits, Counted, Got, NoteKnown
  <1>3. clerk'[c] = y /\ \A d \in Clerks \ {c} : clerk'[d] = clerk[d]
    BY DEF SupplyInv, ClerksFit
  <1>4. ClerksFit'
    BY <1>2, <1>3 DEF SupplyInv, ClerksFit
  <1>5. OneClerk'
    BY <1>3 DEF SupplyInv, OneClerk, Unlocked
  <1> QED  BY <1>1, <1>4, <1>5 DEF SupplyInv

\* A clerk is through, and has changed rows the others do not go by.
LEMMA EndsFit ==
  ASSUME SupplyInv, NEW c \in Clerks, Ends(c),
         \A x : (\E d \in Clerks \ {c} : x = clerk[d]) /\ ClerkFits(x) => ClerkFits(x)'
  PROVE  ClerksFit' /\ OneClerk'
  <1>1. clerk' = [clerk EXCEPT ![c] = AtDesk]
    BY DEF Ends, Says
  <1>2. clerk'[c] = AtDesk /\ \A d \in Clerks \ {c} : clerk'[d] = clerk[d]
    BY <1>1 DEF SupplyInv, ClerksFit
  <1>3. ClerkFits(AtDesk)'
    BY DEF ClerkFits, AtDesk, Fields
  <1>4. \A d \in Clerks \ {c} : ClerkFits(clerk[d])'
    <2> SUFFICES ASSUME NEW d \in Clerks \ {c} PROVE ClerkFits(clerk[d])'
      OBVIOUS
    <2>1. PICK x : x = clerk[d]
      OBVIOUS
    <2>2. ClerkFits(x)'
      BY <2>1 DEF SupplyInv, ClerksFit
    <2> QED  BY <1>2, <2>1, <2>2
  <1>5. ClerksFit'
    BY <1>1, <1>2, <1>3, <1>4 DEF SupplyInv, ClerksFit
  <1>6. OneClerk'
    BY <1>2 DEF SupplyInv, OneClerk
  <1> QED  BY <1>5, <1>6

\* What only touches requests and orders disturbs nobody.
LEMMA StillFit ==
  ASSUME SupplyInv, RowsTyped', UNCHANGED <<receipt, back>>, DOMAIN need \subseteq DOMAIN need',
         DOMAIN oline \subseteq DOMAIN oline', \A m \in DOMAIN need : Got(m)' >= Got(m),
         UNCHANGED clerk \/ \E c \in Clerks : Ends(c)
  PROVE  ClerksFit' /\ OneClerk'
  <1>1. ASSUME NEW x, ClerkFits(x) PROVE ClerkFits(x)'
    <2>1. x.does = "deliver" => ~NoteKnown(x.new.line, x.new.note)'
      BY <1>1 DEF ClerkFits, NoteKnown
    <2> QED  BY <1>1, <2>1, StaysFit DEF SupplyInv
  <1>2. CASE UNCHANGED clerk
    BY <1>1, <1>2 DEF SupplyInv, ClerksFit, OneClerk
  <1> QED  BY <1>1, <1>2, EndsFit

-----------------------------------------------------------------------------
(* What is asked for and what is ordered.                                  *)

LEMMA NeedsFit ==
  ASSUME SupplyInv, UNCHANGED <<came, order, oline, receipt, back, onhand, clerk>>,
         \/ \E q \in Quantities : need' = Ask(q)
         \/ \E n \in DOMAIN need : need' = [need EXCEPT ![n].ended = "cancelled"]
  PROVE  SupplyInv'
  <1>1. /\ need' \in Seq(Need) /\ DOMAIN need \subseteq DOMAIN need'
        /\ NotFinishedEarly' /\ \A m : Got(m)' = Got(m)
    BY NeedKeeps
  <1>2. RowsTyped'
    BY <1>1 DEF SupplyInv, RowsTyped
  <1>3. Refer'
    BY <1>1 DEF SupplyInv, Refer
  <1>4. ReachOnce' /\ NotesDiffer' /\ ShelfMatchesDeliveries'
    BY DEF SupplyInv, ReachOnce, NotesDiffer, ShelfMatchesDeliveries
  <1>5. \A m \in DOMAIN need : Got(m)' >= Got(m)
    BY <1>1, CameFacts DEF SupplyInv
  <1>7. ClerksFit' /\ OneClerk'
    BY <1>1, <1>2, <1>5, StillFit
  <1> QED  BY <1>1, <1>2, <1>3, <1>4, <1>7 DEF SupplyInv

LEMMA ReceivePartFits ==
  ASSUME SupplyInv, NEW c \in Clerks, ReceivePart(c)
  PROVE  SupplyInv'
  <1> DEFINE n == clerk[c].need
             q == IF clerk[c].qty = 0 THEN need[n].asked - clerk[c].got ELSE clerk[c].qty
  <1>1. ClerkFits(clerk[c]) /\ clerk[c].does = "receive" /\ Ends(c)
    BY DEF SupplyInv, ClerksFit, ReceivePart
  <1>2. n \in DOMAIN need /\ clerk[c].got \in Nat /\ clerk[c].got <= Got(n) /\ clerk[c].qty \in Nat
    BY <1>1, QuantitiesAreCounted DEF ClerkFits, Counted
  <1>3. need[n].asked \in Nat
    <2>1. need[n] \in Need
      BY <1>2, SeqFacts DEF SupplyInv, RowsTyped
    <2> QED  BY <2>1, QuantityIsNat DEF Need
  <1>4. CASE ~(Waits(n) /\ q > 0)
    <2>1. Rest
      BY <1>4 DEF ReceivePart, asked, ordered, Rest
    <2>2. ClerkFits(AtDesk)
      BY DEF ClerkFits, AtDesk, Fields
    <2> QED  BY <1>1, <2>1, <2>2, OnlyClerkSays DEF Ends, Says
  <1>5. CASE Waits(n) /\ q > 0
    <2>1. Arrives(n, clerk[c].got, q, 0) /\ q \in Nat \ {0}
      BY <1>2, <1>3, <1>5 DEF ReceivePart
    <2>2. UNCHANGED <<order, oline, receipt, back, onhand>>
      BY DEF ReceivePart, ordered
    <2> HIDE DEF n, q
    <2>3. /\ came' \in Seq(Came) /\ need' \in Seq(Need) /\ DOMAIN need' = DOMAIN need
          /\ DOMAIN came' = DOMAIN came \cup {Len(came) + 1} /\ Len(came) + 1 \notin DOMAIN came
          /\ came'[Len(came) + 1] = [need |-> n, qty |-> q, receipt |-> 0]
          /\ \A i \in DOMAIN came : came'[i] = came[i]
          /\ \A m \in DOMAIN need : Got(m)' >= Got(m)
          /\ NotFinishedEarly'
      BY <1>2, <2>1, ArrivesKeeps
    <2>4. RowsTyped'
      BY <2>2, <2>3 DEF SupplyInv, RowsTyped
    <2>5. Refer'
      BY <1>2, <2>2, <2>3 DEF SupplyInv, Refer
    <2>6. ReachOnce'
      BY <2>2, <2>3 DEF SupplyInv, ReachOnce
    <2>7. NotesDiffer' /\ ShelfMatchesDeliveries'
      BY <2>2 DEF SupplyInv, NotesDiffer, ShelfMatchesDeliveries
    <2>8. ClerksFit' /\ OneClerk'
      BY <1>1, <2>2, <2>3, <2>4, StillFit
    <2> QED  BY <2>3, <2>4, <2>5, <2>6, <2>7, <2>8 DEF SupplyInv
  <1> QED  BY <1>4, <1>5

\* Orders and their lines change, and every line stays.
LEMMA OrdersKeep ==
  ASSUME SupplyInv, UNCHANGED <<need, came, receipt, back, onhand>>, order' \in Seq(Order), oline' \in Seq(OLine),
         DOMAIN oline \subseteq DOMAIN oline', \A l \in DOMAIN oline' : oline'[l].need \in {0} \cup DOMAIN need,
         \/ UNCHANGED clerk
         \/ \E c \in Clerks : Ends(c)
  PROVE  SupplyInv'
  <1>1. RowsTyped' /\ Refer' /\ ReachOnce' /\ NotesDiffer' /\ ShelfMatchesDeliveries' /\ NotFinishedEarly'
    BY DEF SupplyInv, RowsTyped, Refer, ReachOnce, NotesDiffer, ShelfMatchesDeliveries, NotFinishedEarly, Got
  <1>2. \A m : Got(m)' = Got(m) /\ Got(m) \in Nat
    BY CameFacts DEF Got, SupplyInv
  <1>3. \A m \in DOMAIN need : Got(m)' >= Got(m)
    BY <1>2
  <1>4. ClerksFit' /\ OneClerk'
    BY <1>1, <1>3, StillFit
  <1> QED  BY <1>1, <1>4 DEF SupplyInv

LEMMA RecordOrderFits ==
  ASSUME SupplyInv, NEW ref \in References \cup {NoRef}, NEW n \in 0..Len(need), NEW part \in BOOLEAN,
         NEW eta \in {<<>>} \cup {<<d>> : d \in Days}, RecordOrder(ref, n, part, eta)
  PROVE  SupplyInv'
  <1>1. order \in Seq(Order) /\ oline \in Seq(OLine) /\ need \in Seq(Need)
    BY DEF SupplyInv, RowsTyped
  <1>2. n \in {0} \cup DOMAIN need /\ n \in Nat /\ Len(order) + 1 \in Nat /\ eta \in Seq(Days)
    <2>1. eta \in Seq(Days)
      <3>1. CASE eta = <<>>
        BY <3>1
      <3>2. ASSUME NEW d \in Days, eta = <<d>> PROVE eta \in Seq(Days)
        BY <3>2
      <3> QED  BY <3>1, <3>2
    <2> QED  BY <1>1, <2>1, SeqFacts
  <1> DEFINE e == [ref |-> ref, cancelled |-> FALSE, confirmed |-> FALSE]
             f == [order |-> Len(order) + 1, need |-> n, part |-> part, cancelled |-> FALSE, etas |-> eta]
  <1>3. e \in Order /\ f \in OLine /\ f.need = n
    BY <1>2 DEF Order, OLine
  <1>4. order' = Append(order, e) /\ oline' = Append(oline, f) /\ UNCHANGED <<need, came, receipt, back, onhand, clerk>>
    BY DEF RecordOrder, asked
  <1> HIDE DEF e, f
  <1>5. order' \in Seq(Order)
    BY <1>1, <1>3, <1>4, AppendFacts
  <1>6. /\ oline' \in Seq(OLine) /\ DOMAIN oline' = DOMAIN oline \cup {Len(oline) + 1}
        /\ oline'[Len(oline) + 1] = f /\ \A l \in DOMAIN oline : oline'[l] = oline[l]
    BY <1>1, <1>3, <1>4, AppendFacts
  <1>7. \A l \in DOMAIN oline' : oline'[l].need \in {0} \cup DOMAIN need
    BY <1>2, <1>3, <1>6 DEF SupplyInv, Refer
  <1> QED  BY <1>4, <1>5, <1>6, <1>7, OrdersKeep

LEMMA CancelOrderFits ==
  ASSUME SupplyInv, NEW o \in DOMAIN order, CancelOrder(o)
  PROVE  SupplyInv'
  <1>1. order \in Seq(Order) /\ oline \in Seq(OLine)
    BY DEF SupplyInv, RowsTyped
  <1>2. order' \in Seq(Order)
    <2>1. PICK w : w = order[o]
      OBVIOUS
    <2>2. w \in Order
      BY <1>1, <2>1, SeqFacts
    <2>3. [w EXCEPT !.cancelled = TRUE] \in Order
      BY <2>2 DEF Order
    <2>4. order' = [order EXCEPT ![o] = [w EXCEPT !.cancelled = TRUE]]
      BY <2>1 DEF CancelOrder
    <2> QED  BY <1>1, <2>3, <2>4, ExceptFacts
  <1>3. oline' = [l \in DOMAIN oline |-> IF oline[l].order = o THEN [oline[l] EXCEPT !.cancelled = TRUE] ELSE oline[l]]
        /\ UNCHANGED <<need, came, receipt, back, onhand, clerk>>
    BY DEF CancelOrder, asked
  <1>4. \A l \in DOMAIN oline : oline'[l] \in OLine /\ oline'[l].need = oline[l].need
    <2> SUFFICES ASSUME NEW l \in DOMAIN oline PROVE oline'[l] \in OLine /\ oline'[l].need = oline[l].need
      OBVIOUS
    <2>1. PICK w : w = oline[l]
      OBVIOUS
    <2>2. w \in OLine
      BY <1>1, <2>1, SeqFacts
    <2>3. [w EXCEPT !.cancelled = TRUE] \in OLine /\ [w EXCEPT !.cancelled = TRUE].need = w.need
      BY <2>2 DEF OLine
    <2>4. oline'[l] = IF w.order = o THEN [w EXCEPT !.cancelled = TRUE] ELSE w
      BY <1>3, <2>1
    <2> QED  BY <2>1, <2>2, <2>3, <2>4
  <1>5. DOMAIN oline' = DOMAIN oline /\ oline' \in Seq(OLine)
    <2>1. DOMAIN oline' = 1..Len(oline) /\ Len(oline) \in Nat /\ DOMAIN oline' = DOMAIN oline
      BY <1>1, <1>3, SeqFacts
    <2>2. oline' \in [1..Len(oline) -> OLine]
      BY <1>3, <1>4, <2>1
    <2> QED  BY <2>1, <2>2, SeqDef
  <1> QED  BY <1>2, <1>3, <1>4, <1>5, OrdersKeep DEF SupplyInv, Refer

LEMMA ConfirmSupplierCancellationFits ==
  ASSUME SupplyInv, NEW o \in DOMAIN order, ConfirmSupplierCancellation(o)
  PROVE  SupplyInv'
  <1>1. order \in Seq(Order) /\ oline \in Seq(OLine)
    BY DEF SupplyInv, RowsTyped
  <1>2. order' \in Seq(Order)
    <2>1. PICK w : w = order[o]
      OBVIOUS
    <2>2. w \in Order
      BY <1>1, <2>1, SeqFacts
    <2>3. [w EXCEPT !.confirmed = TRUE] \in Order
      BY <2>2 DEF Order
    <2>4. order' = [order EXCEPT ![o] = [w EXCEPT !.confirmed = TRUE]]
      BY <2>1 DEF ConfirmSupplierCancellation
    <2> QED  BY <1>1, <2>3, <2>4, ExceptFacts
  <1>3. UNCHANGED <<need, came, oline, receipt, back, onhand, clerk>>
    BY DEF ConfirmSupplierCancellation, asked
  <1> QED  BY <1>1, <1>2, <1>3, OrdersKeep DEF SupplyInv, Refer

LEMMA ChangeETAFits ==
  ASSUME SupplyInv, NEW c \in Clerks, ChangeETA(c)
  PROVE  SupplyInv'
  <1>1. order \in Seq(Order) /\ oline \in Seq(OLine)
    BY DEF SupplyInv, RowsTyped
  <1>2. PICK l, day : l = clerk[c].line /\ day = clerk[c].day
    OBVIOUS
  <1>3. l \in DOMAIN oline /\ day \in Days /\ Ends(c)
    BY <1>2 DEF SupplyInv, ClerksFit, ClerkFits, ChangeETA
  <1>4. PICK w : w = oline[l]
    OBVIOUS
  <1>5. w \in OLine
    BY <1>1, <1>3, <1>4, SeqFacts
  <1> DEFINE e == [w EXCEPT !.etas = Append(@, day)]
  <1>6. e \in OLine /\ e.need = w.need
    <2>1. Append(w.etas, day) \in Seq(Days)
      BY <1>3, <1>5, AppendProperties DEF OLine
    <2> QED  BY <1>5, <2>1 DEF OLine
  <1>7. oline' = [oline EXCEPT ![l] = e] /\ UNCHANGED <<need, came, order, receipt, back, onhand>>
    BY <1>2, <1>4 DEF ChangeETA, asked
  <1> HIDE DEF e
  <1>8. /\ oline' \in Seq(OLine) /\ DOMAIN oline' = DOMAIN oline
        /\ \A i \in DOMAIN oline : oline'[i] = IF i = l THEN e ELSE oline[i]
    BY <1>1, <1>3, <1>6, <1>7, ExceptFacts
  <1>9. \A i \in DOMAIN oline' : oline'[i].need \in {0} \cup DOMAIN need
    BY <1>3, <1>4, <1>6, <1>8 DEF SupplyInv, Refer
  <1> QED  BY <1>1, <1>3, <1>7, <1>8, <1>9, OrdersKeep

-----------------------------------------------------------------------------
(* What is only read.                                                      *)

LEMMA ForFits ==
  ASSUME SupplyInv, NEW l \in DOMAIN oline
  PROVE  Counted(For(l).need, For(l).got) /\ Counted(Nothing.need, Nothing.got) /\ Nothing.need = 0
  <1>1. oline[l].need \in {0} \cup DOMAIN need
    BY DEF SupplyInv, Refer
  <1>2. \A n : Got(n) \in Nat
    BY CameFacts DEF SupplyInv
  <1>3. PICK n : n = oline[l].need
    OBVIOUS
  <1>4. For(l) = IF n # 0 /\ Waits(n) THEN [need |-> n, got |-> Got(n)] ELSE [need |-> 0, got |-> 0]
    BY <1>3 DEF For
  <1>5. PICK g : g = Got(n)
    OBVIOUS
  <1>6. g \in Nat /\ g <= g
    BY <1>2, <1>5
  <1>7. Counted(n, g) /\ Counted(0, 0)
    BY <1>1, <1>3, <1>5, <1>6 DEF Counted
  <1>8. Nothing.need = 0 /\ Nothing.got = 0
    BY DEF Nothing
  <1> QED  BY <1>4, <1>5, <1>7, <1>8

LEMMA LooksFit ==
  ASSUME SupplyInv, NEW c \in Clerks,
         \/ \E n \in DOMAIN need, q \in 0..MaxQty : LookAtRequest(c, n, q)
         \/ \E l \in DOMAIN oline, day \in Days : LookAtETA(c, l, day)
         \/ \E r \in DOMAIN receipt, q \in Quantities, again \in BOOLEAN : LookAtReceipt(c, r, q, again)
  PROVE  SupplyInv'
  <1>1. ASSUME NEW n \in DOMAIN need, NEW q \in 0..MaxQty, LookAtRequest(c, n, q) PROVE SupplyInv'
    <2> DEFINE y == [does |-> "receive", row |-> <<"nothing">>, need |-> n, got |-> Got(n), qty |-> q]
    <2>1. Rest /\ clerk' = [clerk EXCEPT ![c] = y]
      BY <1>1 DEF LookAtRequest, OnlyClerks, asked, ordered, Rest, Says
    <2>2. n # 0 /\ Counted(n, Got(n))
      <3>1. n # 0
        BY SeqFacts DEF SupplyInv, RowsTyped
      <3>2. PICK g : g = Got(n)
        OBVIOUS
      <3>3. g \in Nat /\ g <= g
        BY <3>2, CameFacts DEF SupplyInv
      <3> QED  BY <3>1, <3>2, <3>3 DEF Counted
    <2>3. ClerkFits(y) /\ y.row = <<"nothing">>
      BY <2>2 DEF ClerkFits, Fields
    <2> QED  BY <2>1, <2>3, OnlyClerkSays
  <1>2. ASSUME NEW l \in DOMAIN oline, NEW day \in Days, LookAtETA(c, l, day) PROVE SupplyInv'
    <2> DEFINE y == [does |-> "eta", row |-> <<"nothing">>, line |-> l, day |-> day]
    <2>1. Rest /\ clerk' = [clerk EXCEPT ![c] = y]
      BY <1>2 DEF LookAtETA, OnlyClerks, asked, ordered, Rest, Says
    <2>2. ClerkFits(y) /\ y.row = <<"nothing">>
      BY DEF ClerkFits, Fields
    <2> QED  BY <2>1, <2>2, OnlyClerkSays
  <1>3. ASSUME NEW r \in DOMAIN receipt, NEW q \in Quantities, NEW again \in BOOLEAN, LookAtReceipt(c, r, q, again)
        PROVE  SupplyInv'
    <2> DEFINE y == [does |-> "plan", row |-> <<"nothing">>, receipt |-> r, qty |-> q, again |-> again]
    <2>1. Rest /\ clerk' = [clerk EXCEPT ![c] = y]
      BY <1>3 DEF LookAtReceipt, OnlyClerks, asked, ordered, Rest, Says
    <2>2. ClerkFits(y) /\ y.row = <<"nothing">>
      BY DEF ClerkFits, Fields
    <2> QED  BY <2>1, <2>2, OnlyClerkSays
  <1> QED  BY <1>1, <1>2, <1>3

LEMMA HoldDeliveredFits ==
  ASSUME SupplyInv, NEW c \in Clerks, NEW l \in DOMAIN oline, NEW q \in Quantities,
         NEW note \in References \cup {NoRef}, NEW route \in Routes, NEW s \in BOOLEAN,
         HoldDelivered(c, l, q, note, route, s)
  PROVE  SupplyInv'
  <1> DEFINE e == [line |-> l, qty |-> q, note |-> note, route |-> route, substitute |-> IF s THEN "pending" ELSE "no"]
             z == IF s THEN Nothing ELSE For(l)
             y == [does |-> "deliver", row |-> <<"line", l>>, reaches |-> z, new |-> e]
  <1>1. Rest /\ clerk' = [clerk EXCEPT ![c] = y]
    BY DEF HoldDelivered, OnlyClerks, asked, ordered, Rest, Says
  <1>2. l \in Nat
    BY SeqFacts DEF SupplyInv, RowsTyped
  <1>3. e \in Receipt /\ e.line = l /\ e.note = note /\ e.substitute \in {"no", "pending"}
        /\ (e.substitute # "no" => s /\ e.route # "stock")
    BY <1>2 DEF Receipt, HoldDelivered
  <1>4. Counted(z.need, z.got) /\ (s => z.need = 0)
    BY ForFits
  <1>5. ~NoteKnown(l, note) /\ Unlocked(<<"line", l>>)
    BY DEF HoldDelivered
  <1> HIDE DEF e, z
  <1>6. ClerkFits(y) /\ y.row = <<"line", l>>
    BY <1>3, <1>4, <1>5 DEF ClerkFits, Fields
  <1> QED  BY <1>1, <1>5, <1>6, OnlyClerkSays

LEMMA HoldSubstituteFits ==
  ASSUME SupplyInv, NEW c \in Clerks, NEW r \in DOMAIN receipt, NEW does \in {"accept", "reject"},
         HoldSubstitute(c, r, does)
  PROVE  SupplyInv'
  <1> DEFINE z == IF does = "accept" THEN For(receipt[r].line) ELSE Nothing
             y == [does |-> does, row |-> <<"receipt", r>>, reaches |-> z]
  <1>1. Rest /\ clerk' = [clerk EXCEPT ![c] = y]
    BY DEF HoldSubstitute, OnlyClerks, asked, ordered, Rest, Says
  <1>2. receipt[r].line \in DOMAIN oline
    BY DEF SupplyInv, Refer
  <1>3. Counted(z.need, z.got)
    BY <1>2, ForFits
  <1>4. receipt[r].substitute = "pending" /\ Unlocked(<<"receipt", r>>)
    BY DEF HoldSubstitute
  <1> HIDE DEF z
  <1>5. ClerkFits(y) /\ y.row = <<"receipt", r>>
    BY <1>3, <1>4 DEF ClerkFits, Fields
  <1> QED  BY <1>1, <1>4, <1>5, OnlyClerkSays

LEMMA HoldReturnedFits ==
  ASSUME SupplyInv, NEW c \in Clerks, NEW b \in DOMAIN back, HoldReturned(c, b)
  PROVE  SupplyInv'
  <1> DEFINE y == [does |-> "return", row |-> <<"return", b>>]
  <1>1. Rest /\ clerk' = [clerk EXCEPT ![c] = y]
    BY DEF HoldReturned, OnlyClerks, asked, ordered, Rest, Says
  <1>2. back[b].gone = FALSE /\ Unlocked(<<"return", b>>)
    <2>1. back[b] \in Back
      BY SeqFacts DEF SupplyInv, RowsTyped
    <2> QED  BY <2>1 DEF HoldReturned, Back
  <1>3. ClerkFits(y) /\ y.row = <<"return", b>>
    BY <1>2 DEF ClerkFits, Fields
  <1> QED  BY <1>1, <1>2, <1>3, OnlyClerkSays

LEMMA RefuseFits ==
  ASSUME SupplyInv, NEW c \in Clerks, Refuse(c)
  PROVE  SupplyInv'
  <1>1. Rest /\ clerk' = [clerk EXCEPT ![c] = AtDesk]
    BY DEF Refuse, OnlyClerks, asked, ordered, Rest, Ends, Says
  <1>2. ClerkFits(AtDesk)
    BY DEF ClerkFits, AtDesk, Fields
  <1> QED  BY <1>1, <1>2, OnlyClerkSays

-----------------------------------------------------------------------------
(* What comes.                                                             *)

LEMMA ReceiptFacts ==
  ASSUME RowsTyped
  PROVE  /\ \A r \in DOMAIN receipt : receipt[r] \in Receipt /\ receipt[r].qty \in Nat \ {0} /\ receipt[r].qty \in Quantities
         /\ \A b \in DOMAIN back : back[b] \in Back /\ back[b].qty \in Nat /\ back[b].gone \in BOOLEAN
         /\ \A T \in SUBSET (DOMAIN receipt) : IsFiniteSet(T)
         /\ \A T \in SUBSET (DOMAIN back) : IsFiniteSet(T)
         /\ Len(receipt) + 1 \in Nat \ {0} /\ Len(receipt) + 1 \notin DOMAIN receipt /\ 0 \notin DOMAIN receipt
  <1>1. receipt \in Seq(Receipt) /\ back \in Seq(Back)
    BY DEF RowsTyped
  <1>2. /\ \A r \in DOMAIN receipt : receipt[r] \in Receipt
        /\ \A b \in DOMAIN back : back[b] \in Back
        /\ \A T \in SUBSET (DOMAIN receipt) : IsFiniteSet(T)
        /\ \A T \in SUBSET (DOMAIN back) : IsFiniteSet(T)
    BY <1>1, SeqFacts
  <1>3. Len(receipt) + 1 \in Nat \ {0} /\ Len(receipt) + 1 \notin DOMAIN receipt /\ 0 \notin DOMAIN receipt
    BY <1>1, SeqFacts
  <1>4. \A r \in DOMAIN receipt : receipt[r].qty \in Nat \ {0} /\ receipt[r].qty \in Quantities
    BY <1>2, QuantityIsNat DEF Receipt
  <1>5. \A b \in DOMAIN back : back[b].qty \in Nat /\ back[b].gone \in BOOLEAN
    BY <1>2, QuantityIsNat DEF Back
  <1> QED  BY <1>2, <1>3, <1>4, <1>5

\* As far as the request.
LEMMA ReachesKeeps ==
  ASSUME SupplyInv, NEW n, NEW got, Counted(n, got), NEW q \in Nat \ {0}, NEW from \in Nat,
         IF n = 0 THEN UNCHANGED asked ELSE Arrives(n, got, q, from)
  PROVE  /\ came' \in Seq(Came) /\ need' \in Seq(Need) /\ DOMAIN need' = DOMAIN need
         /\ DOMAIN came \subseteq DOMAIN came' /\ \A i \in DOMAIN came : came'[i] = came[i]
         /\ \A i \in DOMAIN came' \ DOMAIN came :
              n # 0 /\ came'[i].need \in DOMAIN need /\ came'[i].qty = q /\ came'[i].receipt = from
         /\ \A i, j \in DOMAIN came' \ DOMAIN came : i = j
         /\ \A m \in DOMAIN need : Got(m)' >= Got(m)
         /\ NotFinishedEarly'
  <1>1. CASE n = 0
    <2>1. UNCHANGED <<need, came>>
      BY <1>1 DEF asked
    <2>2. \A m : Got(m)' = Got(m) /\ Got(m) \in Nat
      BY <2>1, CameFacts DEF SupplyInv, Got
    <2> QED  BY <2>1, <2>2 DEF SupplyInv, RowsTyped, NotFinishedEarly
  <1>2. CASE n # 0
    <2>1. n \in DOMAIN need /\ got \in Nat /\ got <= Got(n) /\ Arrives(n, got, q, from)
      BY <1>2 DEF Counted
    <2> DEFINE e == [need |-> n, qty |-> q, receipt |-> from]
    <2>2. /\ came' \in Seq(Came) /\ need' \in Seq(Need) /\ DOMAIN need' = DOMAIN need
          /\ DOMAIN came' = DOMAIN came \cup {Len(came) + 1}
          /\ came'[Len(came) + 1] = e
          /\ \A i \in DOMAIN came : came'[i] = came[i]
          /\ \A m \in DOMAIN need : Got(m)' >= Got(m)
          /\ NotFinishedEarly'
      BY <2>1, ArrivesKeeps
    <2>3. e.need = n /\ e.qty = q /\ e.receipt = from
      OBVIOUS
    <2> HIDE DEF e
    <2> QED  BY <1>2, <2>1, <2>2, <2>3
  <1> QED  BY <1>1, <1>2

LEMMA ReceiveDeliveryFits ==
  ASSUME SupplyInv, NEW c \in Clerks, ReceiveDelivery(c)
  PROVE  SupplyInv'
  <1>1. PICK e, z, k : e = clerk[c].new /\ z = clerk[c].reaches /\ k = Len(receipt) + 1
    OBVIOUS
  <1>2. ClerkFits(clerk[c]) /\ clerk[c].does = "deliver" /\ Ends(c)
    BY DEF SupplyInv, ClerksFit, ReceiveDelivery
  <1>3. /\ e \in Receipt /\ e.line \in DOMAIN oline /\ e.substitute \in {"no", "pending"}
        /\ (e.substitute # "no" => e.route # "stock" /\ z.need = 0)
        /\ ~NoteKnown(e.line, e.note) /\ Counted(z.need, z.got) /\ clerk[c].row = <<"line", e.line>>
    BY <1>1, <1>2 DEF ClerkFits
  <1>4. receipt' = Append(receipt, e) /\ UNCHANGED <<order, oline, back>>
    BY <1>1 DEF ReceiveDelivery, ordered
  <1>5. /\ receipt' \in Seq(Receipt) /\ DOMAIN receipt' = DOMAIN receipt \cup {k} /\ receipt'[k] = e
        /\ k \notin DOMAIN receipt /\ k \in Nat \ {0} /\ 0 \notin DOMAIN receipt
        /\ \A r \in DOMAIN receipt : receipt'[r] = receipt[r]
    BY <1>1, <1>3, <1>4, AppendFacts, ReceiptFacts DEF SupplyInv, RowsTyped
  <1>6. e.qty \in Nat \ {0}
    BY <1>3, QuantityIsNat DEF Receipt
  <1>7. IF z.need = 0 THEN UNCHANGED asked ELSE Arrives(z.need, z.got, e.qty, k)
    BY <1>1, <1>5 DEF ReceiveDelivery, Reaches
  <1>8. /\ came' \in Seq(Came) /\ need' \in Seq(Need) /\ DOMAIN need' = DOMAIN need
        /\ DOMAIN came \subseteq DOMAIN came' /\ \A i \in DOMAIN came : came'[i] = came[i]
        /\ \A i \in DOMAIN came' \ DOMAIN came :
             z.need # 0 /\ came'[i].need \in DOMAIN need /\ came'[i].qty = e.qty /\ came'[i].receipt = k
        /\ \A i, j \in DOMAIN came' \ DOMAIN came : i = j
        /\ \A m \in DOMAIN need : Got(m)' >= Got(m)
        /\ NotFinishedEarly'
    BY <1>3, <1>5, <1>6, <1>7, ReachesKeeps
  <1>9. onhand' = onhand + IF e.route = "stock" THEN e.qty ELSE 0
    BY <1>1 DEF ReceiveDelivery
  <1>10. RowsTyped'
    BY <1>4, <1>5, <1>6, <1>8, <1>9 DEF SupplyInv, RowsTyped
  <1>11. Refer'
    BY <1>3, <1>4, <1>5, <1>8 DEF SupplyInv, Refer
  <1>12. ReachOnce'
    <2>1. \A i \in DOMAIN came : came[i].receipt \in {0} \cup DOMAIN receipt
      BY DEF SupplyInv, Refer
    <2>2. ASSUME NEW i \in DOMAIN came', NEW j \in DOMAIN came', came'[i].receipt = came'[j].receipt, came'[i].receipt # 0
          PROVE  i = j
      <3>1. CASE i \in DOMAIN came /\ j \in DOMAIN came
        BY <1>8, <2>2, <3>1 DEF SupplyInv, ReachOnce
      <3>2. CASE ~(i \in DOMAIN came /\ j \in DOMAIN came)
        BY <1>5, <1>8, <2>1, <2>2, <3>2
      <3> QED  BY <3>1, <3>2
    <2>3. ASSUME NEW i \in DOMAIN came', came'[i].receipt # 0
          PROVE  /\ receipt'[came'[i].receipt].substitute \in {"no", "accepted"}
                 /\ came'[i].qty = receipt'[came'[i].receipt].qty
      <3>1. CASE i \in DOMAIN came
        BY <1>5, <1>8, <2>1, <2>3, <3>1 DEF SupplyInv, ReachOnce
      <3>2. CASE i \notin DOMAIN came
        BY <1>3, <1>5, <1>8, <3>2
      <3> QED  BY <3>1, <3>2
    <2> QED  BY <2>2, <2>3 DEF ReachOnce
  <1>13. NotesDiffer'
    <2>1. ASSUME NEW r \in DOMAIN receipt, receipt[r].line = e.line, e.note # NoRef PROVE receipt[r].note # e.note
      BY <1>3, <2>1 DEF NoteKnown
    <2>2. ASSUME NEW r \in DOMAIN receipt', NEW s \in DOMAIN receipt', r # s, receipt'[r].line = receipt'[s].line,
                 receipt'[r].note # NoRef
          PROVE  receipt'[r].note # receipt'[s].note
      <3>1. CASE r \in DOMAIN receipt /\ s \in DOMAIN receipt
        BY <1>5, <2>2, <3>1 DEF SupplyInv, NotesDiffer
      <3>2. CASE ~(r \in DOMAIN receipt /\ s \in DOMAIN receipt)
        BY <1>5, <2>1, <2>2, <3>2
      <3> QED  BY <3>1, <3>2
    <2> QED  BY <2>2 DEF NotesDiffer
  <1>14. ShelfMatchesDeliveries'
    <2> DEFINE S == {r \in DOMAIN receipt : receipt[r].route = "stock"}
               T == {b \in DOMAIN back : back[b].gone /\ receipt[back[b].receipt].route = "stock"}
    <2>1. \A b \in DOMAIN back : back[b].receipt \in DOMAIN receipt
      BY DEF SupplyInv, Refer
    <2>2. {b \in DOMAIN back' : back'[b].gone /\ receipt'[back'[b].receipt].route = "stock"} = T
      BY <1>4, <1>5, <2>1
    <2>3. {r \in DOMAIN receipt' : receipt'[r].route = "stock"} = S \cup (IF e.route = "stock" THEN {k} ELSE {})
      BY <1>5
    <2>4. S \subseteq DOMAIN receipt /\ S \subseteq DOMAIN receipt' /\ IsFiniteSet(S) /\ k \in DOMAIN receipt' /\ k \notin S
      BY <1>5, ReceiptFacts DEF SupplyInv
    <2>5. \A i \in S \cup {k} : receipt'[i].qty \in Nat
      BY <1>5, <1>6, ReceiptFacts DEF SupplyInv
    <2>6. onhand = Total(receipt, S) - Total(back, T)
      BY DEF SupplyInv, ShelfMatchesDeliveries
    <2>7. \A i \in S : receipt[i].qty = receipt'[i].qty /\ receipt[i].qty \in Nat
      BY <1>5, ReceiptFacts DEF SupplyInv
    <2>8. Total(receipt, S) \in Nat
      BY <2>4, <2>7, TotalIsNat
    <2>9. Total(back, T) \in Nat
      BY ReceiptFacts, TotalIsNat DEF SupplyInv
    <2> HIDE DEF S, T
    <2>10. Total(receipt', S) = Total(receipt, S)
      BY <2>4, <2>7, TotalIsOfQuantities
    <2>11. Total(receipt', S \cup {k}) = e.qty + Total(receipt, S)
      <3>1. Total(receipt', S \cup {k}) = receipt'[k].qty + Total(receipt', S)
        BY <2>4, <2>5, TotalWithOne
      <3> QED  BY <1>5, <2>10, <3>1
    <2>12. onhand' = Total(receipt', S \cup (IF e.route = "stock" THEN {k} ELSE {})) - Total(back, T)
      <3>1. CASE e.route = "stock"
        BY <1>6, <1>9, <2>6, <2>8, <2>9, <2>11, <3>1
      <3>2. CASE e.route # "stock"
        <4>1. S \cup (IF e.route = "stock" THEN {k} ELSE {}) = S
          BY <3>2
        <4>2. onhand' = onhand
          BY <1>9, <2>6, <2>8, <2>9, <3>2
        <4> QED  BY <2>6, <2>10, <4>1, <4>2
      <3> QED  BY <3>1, <3>2
    <2> QED  BY <1>4, <2>2, <2>3, <2>12 DEF ShelfMatchesDeliveries
  <1>15. \A x : (\E d \in Clerks \ {c} : x = clerk[d]) /\ ClerkFits(x) => ClerkFits(x)'
    <2> SUFFICES ASSUME NEW d \in Clerks \ {c}, NEW x, x = clerk[d], ClerkFits(x) PROVE ClerkFits(x)'
      OBVIOUS
    <2>1. ASSUME x.does = "deliver" PROVE ~NoteKnown(x.new.line, x.new.note)'
      <3>1. x.row = <<"line", x.new.line>> /\ ~NoteKnown(x.new.line, x.new.note)
        BY <2>1 DEF ClerkFits
      <3>2. x # AtDesk /\ clerk[c] # AtDesk
        BY <1>2, <2>1 DEF AtDesk
      <3>3. x.row # clerk[c].row
        BY <3>1, <3>2, <1>3 DEF SupplyInv, OneClerk
      <3>4. x.new.line # e.line
        BY <1>3, <3>1, <3>3
      <3> QED  BY <1>5, <3>1, <3>4 DEF NoteKnown
    <2>2. x.does \in {"accept", "reject"} => receipt'[x.row[2]].substitute = receipt[x.row[2]].substitute
      BY <1>5 DEF ClerkFits
    <2> QED  BY <1>4, <1>5, <1>8, <1>10, <2>1, <2>2, StaysFit DEF SupplyInv
  <1>16. ClerksFit' /\ OneClerk'
    BY <1>2, <1>15, EndsFit
  <1> QED  BY <1>8, <1>10, <1>11, <1>12, <1>13, <1>14, <1>16 DEF SupplyInv

\* A receipt is judged: what was pending is not, and nothing reaches the shelf.
LEMMA JudgedFacts ==
  ASSUME SupplyInv, NEW r \in DOMAIN receipt, receipt[r].substitute = "pending",
         \/ receipt' = [receipt EXCEPT ![r].substitute = "accepted", ![r].route = "direct"]
         \/ receipt' = [receipt EXCEPT ![r].substitute = "rejected"]
  PROVE  /\ receipt' \in Seq(Receipt) /\ DOMAIN receipt' = DOMAIN receipt
         /\ \A s \in DOMAIN receipt : /\ receipt'[s].line = receipt[s].line /\ receipt'[s].note = receipt[s].note
                                      /\ receipt'[s].qty = receipt[s].qty
                                      /\ (receipt'[s].route = "stock") = (receipt[s].route = "stock")
                                      /\ (s # r => receipt'[s] = receipt[s])
         /\ receipt'[r].route # "stock" /\ receipt'[r].substitute \in {"accepted", "rejected"}
         /\ (receipt' = [receipt EXCEPT ![r].substitute = "accepted", ![r].route = "direct"] =>
               receipt'[r].substitute = "accepted")
  <1>1. PICK w : w = receipt[r]
    OBVIOUS
  <1>2. w \in Receipt /\ w.route # "stock" /\ receipt \in Seq(Receipt)
    BY <1>1, ReceiptFacts DEF SupplyInv, RowsTyped, Refer
  <1> DEFINE a == [w EXCEPT !.substitute = "accepted", !.route = "direct"]
             b == [w EXCEPT !.substitute = "rejected"]
  <1>3. /\ a \in Receipt /\ a.line = w.line /\ a.note = w.note /\ a.qty = w.qty /\ a.route # "stock"
        /\ a.substitute = "accepted"
    BY <1>2 DEF Receipt, Routes
  <1>4. /\ b \in Receipt /\ b.line = w.line /\ b.note = w.note /\ b.qty = w.qty /\ b.route # "stock"
        /\ b.substitute = "rejected"
    BY <1>2 DEF Receipt, Routes
  <1>5. CASE receipt' = [receipt EXCEPT ![r].substitute = "accepted", ![r].route = "direct"]
    <2>1. receipt' = [receipt EXCEPT ![r] = a]
      BY <1>1, <1>2, <1>5, LenProperties
    <2> HIDE DEF a
    <2>2. /\ receipt' \in Seq(Receipt) /\ DOMAIN receipt' = DOMAIN receipt
          /\ \A s \in DOMAIN receipt : receipt'[s] = IF s = r THEN a ELSE receipt[s]
      BY <1>2, <1>3, <2>1, ExceptFacts
    <2> QED  BY <1>1, <1>2, <1>3, <2>2
  <1>6. CASE receipt' = [receipt EXCEPT ![r].substitute = "rejected"]
    <2>1. receipt' = [receipt EXCEPT ![r] = b]
      BY <1>1, <1>2, <1>6
    <2> HIDE DEF b
    <2>2. /\ receipt' \in Seq(Receipt) /\ DOMAIN receipt' = DOMAIN receipt
          /\ \A s \in DOMAIN receipt : receipt'[s] = IF s = r THEN b ELSE receipt[s]
      BY <1>2, <1>4, <2>1, ExceptFacts
    <2>3. receipt'[r].substitute = "rejected"
      BY <1>4, <2>2
    <2>4. receipt' = [receipt EXCEPT ![r].substitute = "accepted", ![r].route = "direct"] =>
            receipt'[r].substitute = "accepted"
      <3>1. [receipt EXCEPT ![r].substitute = "accepted", ![r].route = "direct"][r].substitute = "accepted"
        <4>1. [receipt EXCEPT ![r].substitute = "accepted", ![r].route = "direct"] = [receipt EXCEPT ![r] = a]
          BY <1>1, <1>2, LenProperties
        <4>2. [receipt EXCEPT ![r] = a][r] = a
          BY <1>2, <1>3, ExceptFacts
        <4> QED  BY <1>3, <4>1, <4>2
      <3> QED  BY <3>1
    <2> QED  BY <1>1, <1>2, <1>4, <2>2, <2>3, <2>4
  <1> QED  BY <1>5, <1>6

\* What is on the shelf stays, while receipts keep their ways and amounts.
LEMMA ShelfStays ==
  ASSUME SupplyInv, UNCHANGED onhand, DOMAIN receipt' = DOMAIN receipt,
         \A s \in DOMAIN receipt : /\ receipt'[s].qty = receipt[s].qty
                                   /\ (receipt'[s].route = "stock") = (receipt[s].route = "stock"),
         DOMAIN back \subseteq DOMAIN back',
         \A b \in DOMAIN back : back'[b].receipt = back[b].receipt /\ back'[b].qty = back[b].qty /\ back'[b].gone = back[b].gone,
         \A b \in DOMAIN back' \ DOMAIN back : ~back'[b].gone
  PROVE  ShelfMatchesDeliveries'
  <1> DEFINE S == {r \in DOMAIN receipt : receipt[r].route = "stock"}
             T == {b \in DOMAIN back : back[b].gone /\ receipt[back[b].receipt].route = "stock"}
  <1>1. \A b \in DOMAIN back : back[b].receipt \in DOMAIN receipt
    BY DEF SupplyInv, Refer
  <1>2. {r \in DOMAIN receipt' : receipt'[r].route = "stock"} = S
    OBVIOUS
  <1>3. {b \in DOMAIN back' : back'[b].gone /\ receipt'[back'[b].receipt].route = "stock"} = T
    <2>1. \A b : b \in DOMAIN back' /\ back'[b].gone /\ receipt'[back'[b].receipt].route = "stock" <=> b \in T
      BY <1>1
    <2> QED  BY <2>1
  <1>4. IsFiniteSet(S) /\ IsFiniteSet(T)
    BY ReceiptFacts DEF SupplyInv
  <1>5. Total(receipt', S) = Total(receipt, S)
    BY <1>4, TotalIsOfQuantities
  <1>6. Total(back', T) = Total(back, T)
    BY <1>4, TotalIsOfQuantities
  <1> QED  BY <1>2, <1>3, <1>5, <1>6 DEF SupplyInv, ShelfMatchesDeliveries

LEMMA AcceptSubstituteFits ==
  ASSUME SupplyInv, NEW c \in Clerks, AcceptSubstitute(c)
  PROVE  SupplyInv'
  <1>1. PICK r, z : r = clerk[c].row[2] /\ z = clerk[c].reaches
    OBVIOUS
  <1>2. ClerkFits(clerk[c]) /\ clerk[c].does = "accept" /\ Ends(c)
    BY DEF SupplyInv, ClerksFit, AcceptSubstitute
  <1>3. /\ r \in DOMAIN receipt /\ clerk[c].row = <<"receipt", r>> /\ receipt[r].substitute = "pending"
        /\ Counted(z.need, z.got)
    BY <1>1, <1>2 DEF ClerkFits
  <1>4. receipt' = [receipt EXCEPT ![r].substitute = "accepted", ![r].route = "direct"] /\ UNCHANGED <<order, oline, back, onhand>>
    BY <1>1 DEF AcceptSubstitute, ordered
  <1>5. /\ receipt' \in Seq(Receipt) /\ DOMAIN receipt' = DOMAIN receipt
        /\ \A s \in DOMAIN receipt : /\ receipt'[s].line = receipt[s].line /\ receipt'[s].note = receipt[s].note
                                     /\ receipt'[s].qty = receipt[s].qty
                                     /\ (receipt'[s].route = "stock") = (receipt[s].route = "stock")
                                     /\ (s # r => receipt'[s] = receipt[s])
        /\ receipt'[r].route # "stock" /\ receipt'[r].substitute = "accepted"
    BY <1>3, <1>4, JudgedFacts
  <1>6. PICK q : q = receipt[r].qty
    OBVIOUS
  <1>7. q \in Nat \ {0} /\ r \in Nat /\ r # 0
    BY <1>3, <1>6, ReceiptFacts, SeqFacts DEF SupplyInv, RowsTyped
  <1>8. IF z.need = 0 THEN UNCHANGED asked ELSE Arrives(z.need, z.got, q, r)
    BY <1>1, <1>3, <1>5, <1>6 DEF AcceptSubstitute, Reaches
  <1>9. /\ came' \in Seq(Came) /\ need' \in Seq(Need) /\ DOMAIN need' = DOMAIN need
        /\ DOMAIN came \subseteq DOMAIN came' /\ \A i \in DOMAIN came : came'[i] = came[i]
        /\ \A i \in DOMAIN came' \ DOMAIN came :
             z.need # 0 /\ came'[i].need \in DOMAIN need /\ came'[i].qty = q /\ came'[i].receipt = r
        /\ \A i, j \in DOMAIN came' \ DOMAIN came : i = j
        /\ \A m \in DOMAIN need : Got(m)' >= Got(m)
        /\ NotFinishedEarly'
    BY <1>3, <1>7, <1>8, ReachesKeeps
  <1>10. RowsTyped'
    BY <1>4, <1>5, <1>9 DEF SupplyInv, RowsTyped
  <1>11. Refer'
    BY <1>3, <1>4, <1>5, <1>9 DEF SupplyInv, Refer
  <1>12. ReachOnce'
    <2>1. \A i \in DOMAIN came : came[i].receipt \in {0} \cup DOMAIN receipt /\ came[i].receipt # r
      BY <1>3, <1>7 DEF SupplyInv, Refer, ReachOnce
    <2>2. ASSUME NEW i \in DOMAIN came', NEW j \in DOMAIN came', came'[i].receipt = came'[j].receipt, came'[i].receipt # 0
          PROVE  i = j
      <3>1. CASE i \in DOMAIN came /\ j \in DOMAIN came
        BY <1>9, <2>2, <3>1 DEF SupplyInv, ReachOnce
      <3>2. CASE ~(i \in DOMAIN came /\ j \in DOMAIN came)
        BY <1>9, <2>1, <2>2, <3>2
      <3> QED  BY <3>1, <3>2
    <2>3. ASSUME NEW i \in DOMAIN came', came'[i].receipt # 0
          PROVE  /\ receipt'[came'[i].receipt].substitute \in {"no", "accepted"}
                 /\ came'[i].qty = receipt'[came'[i].receipt].qty
      <3>1. CASE i \in DOMAIN came
        BY <1>5, <1>9, <2>1, <2>3, <3>1 DEF SupplyInv, ReachOnce
      <3>2. CASE i \notin DOMAIN came
        BY <1>3, <1>5, <1>6, <1>9, <3>2
      <3> QED  BY <3>1, <3>2
    <2> QED  BY <2>2, <2>3 DEF ReachOnce
  <1>13. NotesDiffer'
    BY <1>5 DEF SupplyInv, NotesDiffer
  <1>14. ShelfMatchesDeliveries'
    <2>1. back' = back /\ onhand' = onhand
      BY <1>4
    <2> QED  BY <1>5, <2>1, ShelfStays
  <1>15. \A x : (\E d \in Clerks \ {c} : x = clerk[d]) /\ ClerkFits(x) => ClerkFits(x)'
    <2> SUFFICES ASSUME NEW d \in Clerks \ {c}, NEW x, x = clerk[d], ClerkFits(x) PROVE ClerkFits(x)'
      OBVIOUS
    <2>1. ASSUME x.does = "deliver" PROVE ~NoteKnown(x.new.line, x.new.note)'
      <3>1. ~NoteKnown(x.new.line, x.new.note)
        BY <2>1 DEF ClerkFits
      <3> QED  BY <1>5, <3>1 DEF NoteKnown
    <2>2. ASSUME x.does \in {"accept", "reject"} PROVE receipt'[x.row[2]].substitute = receipt[x.row[2]].substitute
      <3>1. x.row[2] \in DOMAIN receipt /\ x.row = <<"receipt", x.row[2]>>
        BY <2>2 DEF ClerkFits
      <3>2. x # AtDesk /\ clerk[c] # AtDesk
        BY <1>2, <2>2 DEF AtDesk
      <3>3. x.row # clerk[c].row
        BY <1>3, <3>1, <3>2 DEF SupplyInv, OneClerk
      <3>4. x.row[2] # r
        BY <1>3, <3>1, <3>3
      <3> QED  BY <1>5, <3>1, <3>4
    <2> QED  BY <1>4, <1>5, <1>9, <1>10, <2>1, <2>2, StaysFit DEF SupplyInv
  <1>16. ClerksFit' /\ OneClerk'
    BY <1>2, <1>15, EndsFit
  <1> QED  BY <1>9, <1>10, <1>11, <1>12, <1>13, <1>14, <1>16 DEF SupplyInv

-----------------------------------------------------------------------------
(* What goes back.                                                         *)

LEMMA BackGrows ==
  ASSUME SupplyInv, NEW r \in DOMAIN receipt, NEW q \in Quantities, back' = GoesBack(r, q)
  PROVE  /\ back' \in Seq(Back) /\ DOMAIN back \subseteq DOMAIN back'
         /\ \A b \in DOMAIN back : back'[b] = back[b]
         /\ \A b \in DOMAIN back' \ DOMAIN back : ~back'[b].gone
         /\ \A b \in DOMAIN back' : back'[b].receipt \in DOMAIN receipt
  <1>1. back \in Seq(Back) /\ r \in Nat
    BY SeqFacts DEF SupplyInv, RowsTyped
  <1> DEFINE e == [receipt |-> r, qty |-> q, gone |-> FALSE, credited |-> FALSE]
  <1>2. e \in Back /\ e.receipt = r /\ ~e.gone
    BY <1>1 DEF Back
  <1>3. back' = Append(back, e)
    BY DEF GoesBack
  <1> HIDE DEF e
  <1>4. /\ back' \in Seq(Back) /\ DOMAIN back' = DOMAIN back \cup {Len(back) + 1}
        /\ back'[Len(back) + 1] = e /\ \A b \in DOMAIN back : back'[b] = back[b]
    BY <1>1, <1>2, <1>3, AppendFacts
  <1> QED  BY <1>2, <1>4 DEF SupplyInv, Refer

LEMMA RejectSubstituteFits ==
  ASSUME SupplyInv, NEW c \in Clerks, RejectSubstitute(c)
  PROVE  SupplyInv'
  <1>1. PICK r : r = clerk[c].row[2]
    OBVIOUS
  <1>2. ClerkFits(clerk[c]) /\ clerk[c].does = "reject" /\ Ends(c)
    BY DEF SupplyInv, ClerksFit, RejectSubstitute
  <1>3. r \in DOMAIN receipt /\ clerk[c].row = <<"receipt", r>> /\ receipt[r].substitute = "pending"
    BY <1>1, <1>2 DEF ClerkFits
  <1>4. /\ receipt' = [receipt EXCEPT ![r].substitute = "rejected"] /\ back' = GoesBack(r, receipt[r].qty)
        /\ UNCHANGED <<need, came, order, oline, onhand>>
    BY <1>1 DEF RejectSubstitute, asked, ordered
  <1>5. /\ receipt' \in Seq(Receipt) /\ DOMAIN receipt' = DOMAIN receipt
        /\ \A s \in DOMAIN receipt : /\ receipt'[s].line = receipt[s].line /\ receipt'[s].note = receipt[s].note
                                     /\ receipt'[s].qty = receipt[s].qty
                                     /\ (receipt'[s].route = "stock") = (receipt[s].route = "stock")
                                     /\ (s # r => receipt'[s] = receipt[s])
        /\ receipt'[r].route # "stock"
    BY <1>3, <1>4, JudgedFacts
  <1>6. receipt[r].qty \in Quantities
    BY <1>3, ReceiptFacts DEF SupplyInv
  <1>7. /\ back' \in Seq(Back) /\ DOMAIN back \subseteq DOMAIN back'
        /\ \A b \in DOMAIN back : back'[b] = back[b]
        /\ \A b \in DOMAIN back' \ DOMAIN back : ~back'[b].gone
        /\ \A b \in DOMAIN back' : back'[b].receipt \in DOMAIN receipt
    BY <1>3, <1>4, <1>6, BackGrows
  <1>8. RowsTyped'
    BY <1>4, <1>5, <1>7 DEF SupplyInv, RowsTyped
  <1>9. Refer'
    BY <1>3, <1>4, <1>5, <1>7 DEF SupplyInv, Refer
  <1>10. ReachOnce'
    <2>1. \A i \in DOMAIN came : came[i].receipt \in {0} \cup DOMAIN receipt /\ came[i].receipt # r
      BY <1>3, ReceiptFacts DEF SupplyInv, Refer, ReachOnce
    <2> QED  BY <1>4, <1>5, <2>1 DEF SupplyInv, ReachOnce
  <1>11. NotesDiffer'
    BY <1>5 DEF SupplyInv, NotesDiffer
  <1>12. ShelfMatchesDeliveries'
    <2>1. onhand' = onhand
      BY <1>4
    <2> QED  BY <1>5, <1>7, <2>1, ShelfStays
  <1>13. NotFinishedEarly' /\ \A m : Got(m)' = Got(m)
    BY <1>4 DEF SupplyInv, NotFinishedEarly, Got
  <1>14. \A m \in DOMAIN need : Got(m)' >= Got(m)
    BY <1>13, CameFacts DEF SupplyInv
  <1>15. \A x : (\E d \in Clerks \ {c} : x = clerk[d]) /\ ClerkFits(x) => ClerkFits(x)'
    <2> SUFFICES ASSUME NEW d \in Clerks \ {c}, NEW x, x = clerk[d], ClerkFits(x) PROVE ClerkFits(x)'
      OBVIOUS
    <2>1. ASSUME x.does = "deliver" PROVE ~NoteKnown(x.new.line, x.new.note)'
      <3>1. ~NoteKnown(x.new.line, x.new.note)
        BY <2>1 DEF ClerkFits
      <3> QED  BY <1>5, <3>1 DEF NoteKnown
    <2>2. ASSUME x.does \in {"accept", "reject"} PROVE receipt'[x.row[2]].substitute = receipt[x.row[2]].substitute
      <3>1. x.row[2] \in DOMAIN receipt /\ x.row = <<"receipt", x.row[2]>>
        BY <2>2 DEF ClerkFits
      <3>2. x # AtDesk /\ clerk[c] # AtDesk
        BY <1>2, <2>2 DEF AtDesk
      <3>3. x.row # clerk[c].row
        BY <1>3, <3>1, <3>2 DEF SupplyInv, OneClerk
      <3>4. x.row[2] # r
        BY <1>3, <3>1, <3>3
      <3> QED  BY <1>5, <3>1, <3>4
    <2>3. x.does = "return" => back'[x.row[2]].gone = back[x.row[2]].gone
      BY <1>7 DEF ClerkFits
    <2> QED  BY <1>4, <1>5, <1>7, <1>8, <1>14, <2>1, <2>2, <2>3, StaysFit DEF SupplyInv
  <1>16. ClerksFit' /\ OneClerk'
    BY <1>2, <1>15, EndsFit
  <1> QED  BY <1>8, <1>9, <1>10, <1>11, <1>12, <1>13, <1>16 DEF SupplyInv

LEMMA PlanReturnFits ==
  ASSUME SupplyInv, NEW c \in Clerks, PlanReturn(c)
  PROVE  SupplyInv'
  <1>1. PICK r, q : r = clerk[c].receipt /\ q = clerk[c].qty
    OBVIOUS
  <1>2. ClerkFits(clerk[c]) /\ clerk[c].does = "plan" /\ Ends(c)
    BY DEF SupplyInv, ClerksFit, PlanReturn
  <1>3. r \in DOMAIN receipt /\ q \in Quantities
    BY <1>1, <1>2 DEF ClerkFits
  <1>4. UNCHANGED <<came, order, oline, receipt, onhand>>
    BY DEF PlanReturn, ordered
  <1>5. CASE receipt[r].substitute = "pending"
    <2>1. Rest
      BY <1>1, <1>4, <1>5 DEF PlanReturn, Rest
    <2>2. ClerkFits(AtDesk)
      BY DEF ClerkFits, AtDesk, Fields
    <2> QED  BY <1>2, <2>1, <2>2, OnlyClerkSays DEF Ends, Says
  <1>6. CASE receipt[r].substitute # "pending"
    <2>1. back' = GoesBack(r, q) /\ (UNCHANGED need \/ need' = Ask(q))
      BY <1>1, <1>6 DEF PlanReturn
    <2>2. /\ back' \in Seq(Back) /\ DOMAIN back \subseteq DOMAIN back'
          /\ \A b \in DOMAIN back : back'[b] = back[b]
          /\ \A b \in DOMAIN back' \ DOMAIN back : ~back'[b].gone
          /\ \A b \in DOMAIN back' : back'[b].receipt \in DOMAIN receipt
      BY <1>3, <2>1, BackGrows
    <2>3. /\ need' \in Seq(Need) /\ DOMAIN need \subseteq DOMAIN need'
          /\ NotFinishedEarly' /\ \A m : Got(m)' = Got(m)
      <3>1. CASE UNCHANGED need
        BY <1>4, <3>1 DEF SupplyInv, RowsTyped, NotFinishedEarly, Got
      <3>2. CASE need' = Ask(q)
        BY <1>3, <1>4, <3>2, NeedKeeps
      <3> QED  BY <2>1, <3>1, <3>2
    <2>4. RowsTyped'
      BY <1>4, <2>2, <2>3 DEF SupplyInv, RowsTyped
    <2>5. Refer'
      BY <1>4, <2>2, <2>3 DEF SupplyInv, Refer
    <2>6. ReachOnce' /\ NotesDiffer'
      BY <1>4 DEF SupplyInv, ReachOnce, NotesDiffer
    <2>7. ShelfMatchesDeliveries'
      <3>1. receipt' = receipt /\ onhand' = onhand
        BY <1>4
      <3> QED  BY <2>2, <3>1, ShelfStays
    <2>8. \A m \in DOMAIN need : Got(m)' >= Got(m)
      BY <2>3, CameFacts DEF SupplyInv
    <2>9. \A x : (\E d \in Clerks \ {c} : x = clerk[d]) /\ ClerkFits(x) => ClerkFits(x)'
      <3> SUFFICES ASSUME NEW x, ClerkFits(x) PROVE ClerkFits(x)'
        OBVIOUS
      <3>1. x.does = "deliver" => ~NoteKnown(x.new.line, x.new.note)'
        BY <1>4 DEF ClerkFits, NoteKnown
      <3>2. x.does = "return" => back'[x.row[2]].gone = back[x.row[2]].gone
        BY <2>2 DEF ClerkFits
      <3> QED  BY <1>4, <2>2, <2>3, <2>4, <2>8, <3>1, <3>2, StaysFit DEF SupplyInv
    <2>10. ClerksFit' /\ OneClerk'
      BY <1>2, <2>9, EndsFit
    <2> QED  BY <2>3, <2>4, <2>5, <2>6, <2>7, <2>10 DEF SupplyInv
  <1> QED  BY <1>5, <1>6

\* A row of what goes back is written again.
LEMMA BackSays ==
  ASSUME SupplyInv, NEW b \in DOMAIN back,
         \/ back' = [back EXCEPT ![b].gone = TRUE]
         \/ back' = [back EXCEPT ![b].credited = TRUE]
  PROVE  /\ back' \in Seq(Back) /\ DOMAIN back' = DOMAIN back
         /\ \A i \in DOMAIN back : /\ back'[i].receipt = back[i].receipt /\ back'[i].qty = back[i].qty
                                   /\ (i # b => back'[i] = back[i])
         /\ (back' = [back EXCEPT ![b].gone = TRUE] => back'[b].gone = TRUE)
         /\ (back' = [back EXCEPT ![b].credited = TRUE] => back'[b].gone = back[b].gone)
  <1>1. PICK w : w = back[b]
    OBVIOUS
  <1>2. w \in Back /\ back \in Seq(Back)
    BY <1>1, ReceiptFacts DEF SupplyInv, RowsTyped
  <1> DEFINE g == [w EXCEPT !.gone = TRUE]
             h == [w EXCEPT !.credited = TRUE]
  <1>3. g \in Back /\ g.receipt = w.receipt /\ g.qty = w.qty /\ g.gone = TRUE
    BY <1>2 DEF Back
  <1>4. h \in Back /\ h.receipt = w.receipt /\ h.qty = w.qty /\ h.gone = w.gone
    BY <1>2 DEF Back
  <1>5. [back EXCEPT ![b].gone = TRUE] = [back EXCEPT ![b] = g] /\ [back EXCEPT ![b].credited = TRUE] = [back EXCEPT ![b] = h]
    BY <1>1
  <1> HIDE DEF g, h
  <1>6. /\ [back EXCEPT ![b] = g] \in Seq(Back) /\ DOMAIN [back EXCEPT ![b] = g] = DOMAIN back
        /\ \A i \in DOMAIN back : [back EXCEPT ![b] = g][i] = IF i = b THEN g ELSE back[i]
    BY <1>2, <1>3, ExceptFacts
  <1>7. /\ [back EXCEPT ![b] = h] \in Seq(Back) /\ DOMAIN [back EXCEPT ![b] = h] = DOMAIN back
        /\ \A i \in DOMAIN back : [back EXCEPT ![b] = h][i] = IF i = b THEN h ELSE back[i]
    BY <1>2, <1>4, ExceptFacts
  <1>8. CASE back' = [back EXCEPT ![b] = g]
    BY <1>1, <1>3, <1>4, <1>5, <1>6, <1>7, <1>8
  <1>9. CASE back' = [back EXCEPT ![b] = h]
    BY <1>1, <1>3, <1>4, <1>5, <1>6, <1>7, <1>9
  <1> QED  BY <1>5, <1>8, <1>9

LEMMA MarkReturnedFits ==
  ASSUME SupplyInv, NEW c \in Clerks, MarkReturned(c)
  PROVE  SupplyInv'
  <1>1. PICK b : b = clerk[c].row[2]
    OBVIOUS
  <1>2. ClerkFits(clerk[c]) /\ clerk[c].does = "return" /\ Ends(c)
    BY DEF SupplyInv, ClerksFit, MarkReturned
  <1>3. b \in DOMAIN back /\ clerk[c].row = <<"return", b>> /\ ~back[b].gone
    BY <1>1, <1>2 DEF ClerkFits
  <1>4. /\ back' = [back EXCEPT ![b].gone = TRUE] /\ UNCHANGED <<need, came, order, oline, receipt>>
        /\ onhand' = onhand - IF receipt[back[b].receipt].route = "stock" THEN back[b].qty ELSE 0
    BY <1>1 DEF MarkReturned, asked, ordered
  <1>5. /\ back' \in Seq(Back) /\ DOMAIN back' = DOMAIN back
        /\ \A i \in DOMAIN back : /\ back'[i].receipt = back[i].receipt /\ back'[i].qty = back[i].qty
                                  /\ (i # b => back'[i] = back[i])
        /\ back'[b].gone = TRUE
    BY <1>3, <1>4, BackSays
  <1>6. back[b].qty \in Nat
    BY <1>3, ReceiptFacts DEF SupplyInv
  <1>7. RowsTyped'
    BY <1>4, <1>5, <1>6 DEF SupplyInv, RowsTyped
  <1>8. Refer'
    BY <1>4, <1>5 DEF SupplyInv, Refer
  <1>9. ReachOnce' /\ NotesDiffer' /\ NotFinishedEarly' /\ \A m : Got(m)' = Got(m)
    BY <1>4 DEF SupplyInv, ReachOnce, NotesDiffer, NotFinishedEarly, Got
  <1>10. ShelfMatchesDeliveries'
    <2> DEFINE S == {r \in DOMAIN receipt : receipt[r].route = "stock"}
               T == {i \in DOMAIN back : back[i].gone /\ receipt[back[i].receipt].route = "stock"}
    <2>1. {i \in DOMAIN back' : back'[i].gone /\ receipt'[back'[i].receipt].route = "stock"}
            = T \cup (IF receipt[back[b].receipt].route = "stock" THEN {b} ELSE {})
      BY <1>3, <1>4, <1>5
    <2>2. onhand = Total(receipt, S) - Total(back, T)
      BY DEF SupplyInv, ShelfMatchesDeliveries
    <2>3. T \subseteq DOMAIN back' /\ T \subseteq DOMAIN back /\ IsFiniteSet(T) /\ b \in DOMAIN back' /\ b \notin T
          /\ IsFiniteSet(S) /\ S \subseteq DOMAIN receipt
      BY <1>3, <1>5, ReceiptFacts DEF SupplyInv
    <2>4. \A i \in T \cup {b} : back'[i].qty = back[i].qty /\ back'[i].qty \in Nat /\ back[i].qty \in Nat
      BY <1>3, <1>5, ReceiptFacts DEF SupplyInv
    <2>5. Total(receipt, S) \in Nat
      BY <2>3, ReceiptFacts, TotalIsNat DEF SupplyInv
    <2> HIDE DEF S, T
    <2>6. Total(back', T) = Total(back, T) /\ Total(back, T) \in Nat
      BY <2>3, <2>4, TotalIsOfQuantities, TotalIsNat
    <2>7. Total(back', T \cup {b}) = back[b].qty + Total(back, T)
      <3>1. Total(back', T \cup {b}) = back'[b].qty + Total(back', T)
        BY <2>3, <2>4, TotalWithOne
      <3> QED  BY <1>3, <1>5, <2>6, <3>1
    <2>8. onhand' = Total(receipt, S) - Total(back', T \cup (IF receipt[back[b].receipt].route = "stock" THEN {b} ELSE {}))
      <3>1. CASE receipt[back[b].receipt].route = "stock"
        BY <1>4, <1>6, <2>2, <2>5, <2>6, <2>7, <3>1
      <3>2. CASE receipt[back[b].receipt].route # "stock"
        <4>1. T \cup (IF receipt[back[b].receipt].route = "stock" THEN {b} ELSE {}) = T
          BY <3>2
        <4>2. onhand' = onhand
          BY <1>4, <2>2, <2>5, <2>6, <3>2
        <4> QED  BY <2>2, <2>6, <4>1, <4>2
      <3> QED  BY <3>1, <3>2
    <2> QED  BY <1>4, <2>1, <2>8 DEF ShelfMatchesDeliveries, S
  <1>11. \A m \in DOMAIN need : Got(m)' >= Got(m)
    BY <1>9, CameFacts DEF SupplyInv
  <1>12. \A x : (\E d \in Clerks \ {c} : x = clerk[d]) /\ ClerkFits(x) => ClerkFits(x)'
    <2> SUFFICES ASSUME NEW d \in Clerks \ {c}, NEW x, x = clerk[d], ClerkFits(x) PROVE ClerkFits(x)'
      OBVIOUS
    <2>1. x.does = "deliver" => ~NoteKnown(x.new.line, x.new.note)'
      BY <1>4 DEF ClerkFits, NoteKnown
    <2>2. ASSUME x.does = "return" PROVE back'[x.row[2]].gone = back[x.row[2]].gone
      <3>1. x.row[2] \in DOMAIN back /\ x.row = <<"return", x.row[2]>>
        BY <2>2 DEF ClerkFits
      <3>2. x # AtDesk /\ clerk[c] # AtDesk
        BY <1>2, <2>2 DEF AtDesk
      <3>3. x.row # clerk[c].row
        BY <1>3, <3>1, <3>2 DEF SupplyInv, OneClerk
      <3>4. x.row[2] # b
        BY <1>3, <3>1, <3>3
      <3> QED  BY <1>5, <3>1, <3>4
    <2> QED  BY <1>4, <1>5, <1>7, <1>11, <2>1, <2>2, StaysFit DEF SupplyInv
  <1>13. ClerksFit' /\ OneClerk'
    BY <1>2, <1>12, EndsFit
  <1> QED  BY <1>7, <1>8, <1>9, <1>10, <1>13 DEF SupplyInv

LEMMA ConfirmCreditFits ==
  ASSUME SupplyInv, NEW b \in DOMAIN back, ConfirmCredit(b)
  PROVE  SupplyInv'
  <1>1. back' = [back EXCEPT ![b].credited = TRUE] /\ UNCHANGED <<need, came, order, oline, receipt, onhand, clerk>>
    BY DEF ConfirmCredit, asked, ordered
  <1>2. /\ back' \in Seq(Back) /\ DOMAIN back' = DOMAIN back
        /\ \A i \in DOMAIN back : /\ back'[i].receipt = back[i].receipt /\ back'[i].qty = back[i].qty
                                  /\ back'[i].gone = back[i].gone
    BY <1>1, BackSays
  <1>3. RowsTyped'
    BY <1>1, <1>2 DEF SupplyInv, RowsTyped
  <1>4. Refer'
    BY <1>1, <1>2 DEF SupplyInv, Refer
  <1>5. ReachOnce' /\ NotesDiffer' /\ NotFinishedEarly' /\ \A m : Got(m)' = Got(m)
    BY <1>1 DEF SupplyInv, ReachOnce, NotesDiffer, NotFinishedEarly, Got
  <1>6. ShelfMatchesDeliveries'
    <2>1. receipt' = receipt /\ onhand' = onhand
      BY <1>1
    <2> QED  BY <1>2, <2>1, ShelfStays
  <1>7. \A m \in DOMAIN need : Got(m)' >= Got(m)
    BY <1>5, CameFacts DEF SupplyInv
  <1>8. ASSUME NEW x, ClerkFits(x) PROVE ClerkFits(x)'
    <2>1. x.does = "deliver" => ~NoteKnown(x.new.line, x.new.note)'
      BY <1>1, <1>8 DEF ClerkFits, NoteKnown
    <2>2. x.does = "return" => back'[x.row[2]].gone = back[x.row[2]].gone
      BY <1>2, <1>8 DEF ClerkFits
    <2> QED  BY <1>1, <1>2, <1>3, <1>7, <1>8, <2>1, <2>2, StaysFit DEF SupplyInv
  <1>9. ClerksFit' /\ OneClerk'
    BY <1>1, <1>8 DEF SupplyInv, ClerksFit, OneClerk
  <1> QED  BY <1>3, <1>4, <1>5, <1>6, <1>9 DEF SupplyInv

-----------------------------------------------------------------------------

LEMMA SupplyStarts == InitSupply => SupplyInv
  <1> SUFFICES ASSUME InitSupply PROVE SupplyInv
    OBVIOUS
  <1>1. /\ need = <<>> /\ came = <<>> /\ order = <<>> /\ oline = <<>> /\ receipt = <<>> /\ back = <<>>
        /\ onhand = 0 /\ clerk = [c \in Clerks |-> AtDesk]
    BY DEF InitSupply
  <1>2. RowsTyped /\ Refer /\ ReachOnce /\ NotesDiffer /\ NotFinishedEarly
    BY <1>1 DEF RowsTyped, Refer, ReachOnce, NotesDiffer, NotFinishedEarly
  <1>3. ShelfMatchesDeliveries
    <2>1. /\ {r \in DOMAIN receipt : receipt[r].route = "stock"} = {}
          /\ {b \in DOMAIN back : back[b].gone /\ receipt[back[b].receipt].route = "stock"} = {}
      BY <1>1
    <2>2. \A rows : Total(rows, {}) = 0
      BY SumOfNone DEF Total
    <2> QED  BY <1>1, <2>1, <2>2 DEF ShelfMatchesDeliveries
  <1>4. ClerkFits(AtDesk)
    BY DEF ClerkFits, AtDesk, Fields
  <1>5. ClerksFit /\ OneClerk
    BY <1>1, <1>4 DEF ClerksFit, OneClerk
  <1> QED  BY <1>2, <1>3, <1>5 DEF SupplyInv

LEMMA SupplySteps == SupplyInv /\ [NextSupply]_supplyvars => SupplyInv'
  <1> SUFFICES ASSUME SupplyInv, [NextSupply]_supplyvars PROVE SupplyInv'
    OBVIOUS
  <1>1. CASE RequestSteps
    <2>1. ASSUME NEW q \in Quantities, RequestParts(q) PROVE SupplyInv'
      BY <2>1, NeedsFit DEF RequestParts, ordered
    <2>2. ASSUME NEW n \in DOMAIN need, CancelPartRequest(n) PROVE SupplyInv'
      BY <2>2, NeedsFit DEF CancelPartRequest, ordered
    <2> QED  BY <1>1, <2>1, <2>2, LooksFit, ReceivePartFits DEF RequestSteps
  <1>2. CASE OrderSteps
    BY <1>2, RecordOrderFits, CancelOrderFits, ConfirmSupplierCancellationFits, ChangeETAFits, LooksFit DEF OrderSteps
  <1>3. ASSUME NEW c \in Clerks, DeliverySteps(c) PROVE SupplyInv'
    BY <1>3, HoldDeliveredFits, HoldSubstituteFits, ReceiveDeliveryFits, AcceptSubstituteFits, RejectSubstituteFits, RefuseFits
       DEF DeliverySteps
  <1>4. ASSUME NEW c \in Clerks, ReturnSteps(c) PROVE SupplyInv'
    BY <1>4, LooksFit, HoldReturnedFits, ConfirmCreditFits, PlanReturnFits, MarkReturnedFits DEF ReturnSteps
  <1>5. CASE UNCHANGED supplyvars
    <2>1. Rest /\ clerk' = clerk
      BY <1>5 DEF supplyvars, Rest
    <2>2. RowsTyped' /\ Refer' /\ ReachOnce' /\ NotesDiffer' /\ ShelfMatchesDeliveries' /\ NotFinishedEarly'
      BY <2>1 DEF Rest, SupplyInv, RowsTyped, Refer, ReachOnce, NotesDiffer, ShelfMatchesDeliveries, NotFinishedEarly, Got
    <2>3. \A x : ClerkFits(x) => ClerkFits(x)'
      BY <2>1 DEF Rest, ClerkFits, Counted, Got, NoteKnown
    <2>4. ClerksFit' /\ OneClerk'
      BY <2>1, <2>3 DEF SupplyInv, ClerksFit, OneClerk
    <2> QED  BY <2>2, <2>4 DEF SupplyInv
  <1> QED  BY <1>1, <1>2, <1>3, <1>4, <1>5 DEF NextSupply

\* The inductive invariant: a clerk holds locked the row whose reading is acted
\* on (supply.go:257-262, 352-358, 570-578), and what was counted on has come,
\* though more may have come since.
THEOREM SupplyFits == SpecSupply => []SupplyInv
  <1> QED  BY SupplyStarts, SupplySteps, PTL DEF SpecSupply

\* The shelf holds what was put on it less what was sent back, a delivery counts
\* once and a request is finished only when everything has come, however many
\* clerks book at once (supply.go:187-262, handover.go:169-206).
THEOREM WhatSuppliersBringIsTrue == SpecSupply => []SupplyIsTrue
  <1>1. ASSUME SupplyInv PROVE SupplyIsTrue
    <2>1. ASSUME NEW r \in DOMAIN receipt
          PROVE  LET C == {i \in DOMAIN came : came[i].receipt = r} IN
                   /\ Cardinality(C) <= IF receipt[r].substitute \in {"no", "accepted"} THEN 1 ELSE 0
                   /\ \A i \in C : came[i].qty = receipt[r].qty
      <3> DEFINE C == {i \in DOMAIN came : came[i].receipt = r}
      <3>1. \A i, j \in C : i = j
        BY <1>1, ReceiptFacts DEF SupplyInv, ReachOnce
      <3>2. \A i \in C : came[i].qty = receipt[r].qty /\ receipt[r].substitute \in {"no", "accepted"}
        BY <1>1, ReceiptFacts DEF SupplyInv, ReachOnce
      <3>3. CASE C = {}
        <4>1. Cardinality(C) = 0
          BY <3>3, FS_EmptySet
        <4> QED  BY <3>2, <4>1
      <3>4. ASSUME NEW i \in C
            PROVE  Cardinality(C) = 1 /\ receipt[r].substitute \in {"no", "accepted"}
        <4>1. C = {i}
          BY <3>1
        <4>2. Cardinality({i}) = 1
          BY FS_Singleton
        <4> QED  BY <3>2, <4>1, <4>2
      <3> QED  BY <3>2, <3>3, <3>4
    <2>2. DeliveriesCountOnce
      BY <1>1, <2>1 DEF DeliveriesCountOnce, SupplyInv, NotesDiffer
    <2> QED  BY <1>1, <2>2 DEF SupplyIsTrue, SupplyInv
  <1> QED  BY <1>1, SupplyFits, PTL

=============================================================================
