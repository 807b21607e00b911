-------------------------------- MODULE Staff --------------------------------
(***************************************************************************)
(* The people of the shop: who signs in, with which roles, and who is left *)
(* to run it (auth/session.go, staff.go), and the workshop switched off    *)
(* and on (modules.go).                                                    *)
(*                                                                         *)
(* A request authenticates in a transaction of its own and works in        *)
(* another, with the roles and modules it was authenticated with.  The     *)
(* owners besides one are counted by a statement that locks them: who they *)
(* are is of its snapshot, and when it has to wait for a row PostgreSQL    *)
(* looks again at that row -- at active, but not at the roles, which a     *)
(* view brings in from beside it.  Passwords, throttling and who may see   *)
(* what are left out.                                                      *)
(***************************************************************************)
EXTENDS Integers, FiniteSets

CONSTANTS
  People, NoPerson,
  Browsers,   \* each with a session or none
  Doors,      \* requests that change staff, under way at once
  RoleSets    \* the roles a person may be given together

ASSUME NobodyIsNoPerson == NoPerson \notin People
ASSUME RolesAreKnown    == \A R \in RoleSets : R # {} /\ R \subseteq {"owner", "admin", "technician"}

VARIABLES
  person,     \* users with user_roles: whether they are there, are active, and their roles
  session,    \* sessions: of whom, and whether the sign-in outlived their being signed out
  signing,    \* sign-ins whose password is verified
  workshop,   \* the module is on
  clock,      \* who has a clock running, and whether they asked to while it was on
  act         \* what each request is doing

staffvars == <<person, session, signing, workshop, clock, act>>

NoSession == [of |-> NoPerson, late |-> FALSE]
NoAct     == [at |-> "idle", does |-> "nothing", by |-> NoPerson, on |-> NoPerson, want |-> {}, offered |-> FALSE,
              owned |-> FALSE, ask |-> {}, counted |-> {}, locks |-> {}]

IsOwner(u)     == "owner" \in person[u].roles
RunsTheShop(u) == person[u].roles \cap {"owner", "admin"} # {}
OwnerStays     == \E u \in People : person[u].active /\ IsOwner(u)

\* As authenticate answers: of a person switched off it answers nobody.
SignedIn == {u \in People : person[u].active /\ \E b \in Browsers : session[b].of = u}

InitStaff ==
  /\ person \in {p \in [People -> [there : BOOLEAN, active : BOOLEAN, roles : RoleSets]] :
                   /\ \A u \in People : p[u].there = p[u].active
                   /\ \E u \in People : p[u].active /\ "owner" \in p[u].roles
                   /\ \A u \in People : ~p[u].there => "owner" \notin p[u].roles}
  /\ session \in {s \in [Browsers -> [of : {NoPerson} \cup {u \in People : person[u].active}, late : {FALSE}]] :
                    \A a, b \in Browsers : a # b => s[a].of = NoPerson \/ s[a].of # s[b].of}
  /\ signing = [b \in Browsers |-> NoSession]
  /\ workshop = TRUE /\ clock = {}
  /\ act = [t \in Doors |-> NoAct]

-----------------------------------------------------------------------------
(* Sessions.                                                               *)

\* Everything that ends the sessions of some ends their rows, and not a
\* sign-in whose transaction has verified them and not yet inserted its own.
SignOut(P, kept) ==
  /\ session' = [b \in Browsers |-> IF session[b].of \in P /\ b \notin kept THEN NoSession ELSE session[b]]
  /\ signing' = [b \in Browsers |-> IF signing[b].of \in P THEN [signing[b] EXCEPT !.late = TRUE] ELSE signing[b]]

\* Login: the person is looked up, and verified.
Login(b, u) ==
  /\ session[b] = NoSession /\ signing[b] = NoSession /\ person[u].there /\ person[u].active
  /\ signing' = [signing EXCEPT ![b] = [of |-> u, late |-> FALSE]]
  /\ UNCHANGED <<person, session, workshop, clock, act>>
\* The session refers to the user, and waits for whoever has locked them.
OpenSession(b) ==
  /\ signing[b] # NoSession /\ \A t \in Doors : signing[b].of \notin act[t].locks
  /\ session' = [session EXCEPT ![b] = signing[b]] /\ signing' = [signing EXCEPT ![b] = NoSession]
  /\ UNCHANGED <<person, workshop, clock, act>>
\* Logout; or two weeks pass, or one untouched.
Logout(b) ==
  /\ session[b] # NoSession /\ session' = [session EXCEPT ![b] = NoSession]
  /\ UNCHANGED <<person, signing, workshop, clock, act>>
RevokeAll == SignOut(People, {}) /\ UNCHANGED <<person, workshop, clock, act>>

SetPassword(u) ==
  /\ \E v \in SignedIn : RunsTheShop(v)
  /\ person[u].there /\ SignOut({u}, {}) /\ UNCHANGED <<person, workshop, clock, act>>
\* Their own: the session it is done from stays.
ChangePassword(b) ==
  /\ session[b].of \in SignedIn /\ SignOut({session[b].of}, {b})
  /\ UNCHANGED <<person, workshop, clock, act>>

-----------------------------------------------------------------------------
(* Staff.                                                                  *)

Unheld(t, u) == \A s \in Doors \ {t} : u \notin act[s].locks
Alone(u)   == \A s \in Doors : u \notin act[s].locks
OnStaff    == UNCHANGED <<session, signing, workshop, clock>>

\* The email belongs to nobody yet.
AddStaff(u, R) ==
  /\ \E v \in SignedIn : RunsTheShop(v)
  /\ ~person[u].there /\ Cardinality(R) = 1 /\ ("technician" \in R => workshop)
  /\ person' = [person EXCEPT ![u] = [there |-> TRUE, active |-> TRUE, roles |-> R]]
  /\ UNCHANGED act /\ OnStaff

\* SetStaffRoles, authenticated.
SetStaffRoles(t, v, u, R) ==
  /\ act[t] = NoAct /\ v \in SignedIn /\ RunsTheShop(v) /\ u # v /\ person[u].there
  /\ act' = [act EXCEPT ![t] = [NoAct EXCEPT !.at = "asked", !.does = "roles", !.by = v, !.on = u, !.want = R,
                                             !.offered = workshop]]
  /\ UNCHANGED person /\ OnStaff
\* The person's row is locked and their roles read; a role they have may stay,
\* though its module is off.
LockPerson(t) ==
  LET u == act[t].on
      takes == IsOwner(u) /\ "owner" \notin act[t].want
  IN  /\ act[t].at = "asked" /\ act[t].does = "roles" /\ Unheld(t, u)
      /\ "technician" \in act[t].want \ person[u].roles => act[t].offered
      /\ act' = [act EXCEPT ![t].locks = {u}, ![t].owned = IsOwner(u),
                            ![t].at = IF takes THEN "counting" ELSE "deciding"]
      /\ UNCHANGED person /\ OnStaff

\* SetStaffActive, authenticated: Deactivate reads whether they are an owner.
Deactivate(t, v, u) ==
  /\ act[t] = NoAct /\ v \in SignedIn /\ RunsTheShop(v) /\ u # v /\ person[u].there
  /\ act' = [act EXCEPT ![t] = [NoAct EXCEPT !.at = "asked", !.does = "off", !.by = v, !.on = u]]
  /\ UNCHANGED person /\ OnStaff
ReadOwner(t) ==
  LET u == act[t].on
  IN  /\ act[t].at = "asked" /\ act[t].does = "off"
      /\ act' = [act EXCEPT ![t].owned = IsOwner(u), ![t].at = IF IsOwner(u) THEN "counting" ELSE "deciding"]
      /\ UNCHANGED person /\ OnStaff

\* OtherOwners: its snapshot, and then the rows in any order.
CountOwners(t) ==
  /\ act[t].at = "counting"
  /\ act' = [act EXCEPT ![t].at = "locking",
                        ![t].ask = {v \in People \ {act[t].on} : person[v].active /\ IsOwner(v)}]
  /\ UNCHANGED person /\ OnStaff
\* A mutant: nobody is locked while it is decided.
CountOwner(t, v) ==
  /\ act[t].at = "locking" /\ v \in act[t].ask
  /\ act' = [act EXCEPT ![t].ask = @ \ {v}, ![t].counted = @ \cup {v}]
  /\ UNCHANGED person /\ OnStaff
LockOwner(t, v) ==
  /\ act[t].at = "locking" /\ v \in act[t].ask /\ Unheld(t, v)
  /\ act' = [act EXCEPT ![t].ask = @ \ {v}, ![t].locks = @ \cup {v},
                        ![t].counted = IF person[v].active THEN @ \cup {v} ELSE @]
  /\ UNCHANGED person /\ OnStaff
OwnerLeft(t) ==
  /\ act[t].at = "locking" /\ act[t].ask = {} /\ act[t].counted # {}
  /\ act' = [act EXCEPT ![t].at = "deciding"]
  /\ UNCHANGED person /\ OnStaff

GiveRoles(t) ==
  /\ act[t].at = "deciding" /\ act[t].does = "roles"
  /\ person' = [person EXCEPT ![act[t].on].roles = act[t].want]
  /\ act' = [act EXCEPT ![t] = NoAct] /\ OnStaff
\* A mutant: "clearing the flag alone".
ClearFlag(t) ==
  /\ act[t].at = "deciding" /\ act[t].does = "off" /\ Unheld(t, act[t].on)
  /\ person' = [person EXCEPT ![act[t].on].active = FALSE]
  /\ act' = [act EXCEPT ![t] = NoAct] /\ OnStaff
SwitchOff(t) ==
  LET u == act[t].on
  IN  /\ act[t].at = "deciding" /\ act[t].does = "off" /\ Unheld(t, u)
      /\ person' = [person EXCEPT ![u].active = FALSE]
      /\ SignOut({u}, {})
      /\ act' = [act EXCEPT ![t] = NoAct] /\ UNCHANGED <<workshop, clock>>
\* Refused, failed, gone, or ended by the database.
GiveUp(t) ==
  /\ act[t].at # "idle" /\ act' = [act EXCEPT ![t] = NoAct]
  /\ UNCHANGED person /\ OnStaff

\* SetStaffActive, back on.
SwitchOn(u) ==
  /\ \E v \in SignedIn : RunsTheShop(v)
  /\ person[u].there /\ Alone(u) /\ person' = [person EXCEPT ![u].active = TRUE]
  /\ UNCHANGED act /\ OnStaff

-----------------------------------------------------------------------------
(* The workshop.                                                           *)

\* SwitchModule, off once whoever does it says so: the running clocks stop.
SwitchModule ==
  /\ \E v \in SignedIn : RunsTheShop(v)
  /\ workshop' = ~workshop
  /\ clock' = IF workshop THEN {} ELSE clock
  /\ act' = [t \in Doors |-> IF act[t].does = "clock" THEN [act[t] EXCEPT !.offered = FALSE] ELSE act[t]]
  /\ UNCHANGED <<person, session, signing>>
\* ClockIn, by whom the module was on, and theirs.
AskToClockIn(t, u) ==
  /\ act[t] = NoAct /\ workshop /\ u \in SignedIn
  /\ act' = [act EXCEPT ![t] = [NoAct EXCEPT !.at = "asked", !.does = "clock", !.by = u, !.offered = TRUE]]
  /\ UNCHANGED person /\ OnStaff
\* Whatever they had running stops.
StartClock(t) ==
  /\ act[t].does = "clock"
  /\ clock' = {c \in clock : c[1] # act[t].by} \cup {<<act[t].by, act[t].offered>>}
  /\ act' = [act EXCEPT ![t] = NoAct]
  /\ UNCHANGED <<person, session, signing, workshop>>
ClockOut(u) ==
  /\ workshop /\ u \in SignedIn /\ \E c \in clock : c[1] = u
  /\ clock' = {c \in clock : c[1] # u}
  /\ UNCHANGED <<person, session, signing, workshop, act>>

-----------------------------------------------------------------------------
SessionSteps ==
  \/ \E b \in Browsers : (\E u \in People : Login(b, u)) \/ OpenSession(b) \/ Logout(b) \/ ChangePassword(b)
  \/ RevokeAll
  \/ \E u \in People : SetPassword(u)
RoleSteps(t) ==
  \/ \E v, u \in People, R \in RoleSets : SetStaffRoles(t, v, u, R)
  \/ LockPerson(t) \/ GiveRoles(t)
OffSteps(t) ==
  \/ \E v, u \in People : Deactivate(t, v, u)
  \/ ReadOwner(t) \/ SwitchOff(t)
CountSteps(t) == CountOwners(t) \/ (\E v \in People : LockOwner(t, v)) \/ OwnerLeft(t) \/ GiveUp(t)
PeopleSteps == \E u \in People : SwitchOn(u) \/ \E R \in RoleSets : AddStaff(u, R)
ClockSteps ==
  \/ SwitchModule
  \/ \E u \in People : ClockOut(u) \/ \E t \in Doors : AskToClockIn(t, u)
  \/ \E t \in Doors : StartClock(t)

OwnerSteps == PeopleSteps \/ \E t \in Doors : RoleSteps(t) \/ OffSteps(t) \/ CountSteps(t)
DoorSteps  == SessionSteps \/ ClockSteps \/ \E t \in Doors : OffSteps(t) \/ CountSteps(t)

NextStaff == OwnerSteps \/ DoorSteps

-----------------------------------------------------------------------------
(* What holds of the staff.                                                *)

StaffTypeOK ==
  /\ person \in [People -> [there : BOOLEAN, active : BOOLEAN, roles : RoleSets]]
  /\ session \in [Browsers -> [of : People \cup {NoPerson}, late : BOOLEAN]]
  /\ signing \in [Browsers -> [of : People \cup {NoPerson}, late : BOOLEAN]]
  /\ workshop \in BOOLEAN /\ clock \subseteq People \X BOOLEAN
  /\ \A t \in Doors : /\ act[t].at \in {"idle", "asked", "counting", "locking", "deciding"}
                      /\ act[t].locks \subseteq People /\ act[t].counted \subseteq People

\* OtherOwners "locks them while the caller decides: so two owners switching
\* each other off, or taking each other's role away, at the same moment cannot
\* both succeed and leave nobody".  Whoever was counted is active still when
\* it is decided, however many others are at it.  The shop can only lose its
\* last owner to a decision that counted one whose role was taken away while
\* their row was waited for, or that counted nobody, the person having been no
\* owner yet when that was read.
OwnersKeepEachOther ==
  [][OwnerStays /\ ~OwnerStays' =>
       \E t \in Doors :
         /\ SwitchOff(t) \/ GiveRoles(t)
         /\ \/ act[t].does = "off" /\ ~act[t].owned
            \/ \E v \in act[t].counted : ~IsOwner(v)]_staffvars

\* Deactivate, SetPassword, SwitchModule: whoever is switched off has no
\* session, and with the workshop off no clock runs -- but where a sign-in, or
\* a request to clock in, was under way across it.
WhatEndedStaysEnded ==
  /\ StaffTypeOK
  /\ \A b \in Browsers : session[b].of # NoPerson /\ ~session[b].late => person[session[b].of].active
  /\ ~workshop => \A c \in clock : ~c[2]

=============================================================================
