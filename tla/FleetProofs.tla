----------------------------- MODULE FleetProofs -----------------------------
(***************************************************************************)
(* That nothing the car is taken for overlaps anything else, that          *)
(* bookings, blocks and the fleet agree, that a request sent again finds   *)
(* its booking, and that the workshop's block ends with its last job: for  *)
(* any number of bookings, requests, drives and jobs, any buffer and any   *)
(* length of time.                                                         *)
(***************************************************************************)
EXTENDS Fleet, TLAPS

\* Two blocks that are both in force do not overlap.
Apart(b, c) == b.status \in Active /\ c.status \in Active => ~Overlap(b, c)

ShopBlock(s) == Block("confirmed", s.from, s.to)

\* A block and its booking, whatever the booking's last event.
BlockFits(b) ==
  /\ b.state = "none" => b.block.status = "none"
  /\ b.state # "none" => b.from < b.to
  /\ b.state = "held" => b.block.status \in {"held", "expired"}
  /\ b.state = "confirmed" => b.block.status = "confirmed"
  /\ b.state \in {"held", "confirmed"} => b.block.from = b.from /\ b.block.to = b.to + Buffer
  /\ b.state \in {"cancelled", "no_show"} => b.block.status \notin Active
  /\ b.state = "out" => /\ b.block.status = "confirmed" /\ b.block.to = b.to + Buffer
                        /\ b.block.from = IF b.out < b.from THEN b.out ELSE b.from
  /\ b.state = "returned" /\ b.block.status \in Active => b.block.to <= now + Buffer
  /\ b.block.status \in Active => b.block.from < b.block.to

\* A booking the car is kept for has its block within a period in the fleet,
\* also while it is a hold that ran out and that nobody has let go yet.
InItsPeriod(b) ==
  b.state \in {"held", "confirmed", "out"} /\ b.block.status \in Active =>
    \E m \in fleet : Within(b.block, m)

BookingsFit(r) == \A k \in Keys : BlockFits(r[k]) /\ InItsPeriod(r[k])

\* The ledger by whose the blocks are: r stands for the rentals, v for the
\* drives and w for the workshop's blocks.
LedgerOf(r, v, w) ==
  /\ \A k, l \in Keys : k # l => Apart(r[k].block, r[l].block)
  /\ \A k \in Keys, d \in Drives : Apart(r[k].block, v[d].block)
  /\ \A k \in Keys, s \in w : Apart(r[k].block, ShopBlock(s))
  /\ \A d, e \in Drives : d # e => Apart(v[d].block, v[e].block)
  /\ \A d \in Drives, s \in w : Apart(v[d].block, ShopBlock(s))
  /\ \A s, t \in w : s # t => ~Overlap(s, t)

\* Periods in the fleet are apart: a booking that grows stays in the one it is in.
FleetApart == \A m, n \in fleet : m # n => ~Overlap(m, n)

\* The workshop's blocks have begun, and one without an end has an open job.
ShopFits ==
  \A s \in shop : /\ s.from < s.to
                  /\ s.to = Open => s.from <= now /\ \E j \in s.jobs : job[j] = "open"

\* What is asked for is a time and not an instant, and so is a drive's block.
AskedFits == \A a \in Asks : ask[a].at = "looked" => ask[a].for.from < ask[a].for.to
DriveFits(v) ==
  \A d \in Drives : /\ v[d].state = "asked" => v[d].from < v[d].to
                    /\ v[d].block.status \in Active => v[d].block.from < v[d].block.to

IInv ==
  /\ TypeOK
  /\ BookingsFit(rental) /\ LedgerOf(rental, drive, shop)
  /\ FleetApart /\ ShopFits /\ AskedFits /\ DriveFits(drive)

-----------------------------------------------------------------------------
(* Holds that are let go, and what Free says.                              *)

\* A booking left as it was, or with its block, a hold, let go.
Loosened(b, c) ==
  /\ c.state = b.state /\ c.from = b.from /\ c.to = b.to /\ c.out = b.out
  /\ c.block.from = b.block.from /\ c.block.to = b.block.to
  /\ \/ c.block.status = b.block.status
     \/ b.block.status = "held" /\ c.block.status = "expired"

\* release_expired_holds changes no booking: it lets blocks go, holds only.
LEMMA ReleasedIs ==
  ASSUME TypeOK, NEW p
  PROVE  /\ Released(p) \in [Keys -> Bookings]
         /\ \A k \in Keys : Loosened(rental[k], Released(p)[k])
  <1>1. ASSUME NEW k \in Keys
        PROVE  Released(p)[k] \in Bookings /\ Loosened(rental[k], Released(p)[k])
    <2>1. rental[k] \in Bookings /\ rental[k].block \in Blocks
      BY <1>1 DEF TypeOK, Bookings
    <2>2. CASE HoldRanOut(rental[k]) /\ Overlap(rental[k].block, p)
      <3>1. Released(p)[k] = [rental[k] EXCEPT !.block.status = "expired"]
        BY <1>1, <2>2 DEF Released
      <3> QED
        BY <2>1, <2>2, <3>1 DEF Bookings, Blocks, Loosened, HoldRanOut
    <2>3. CASE ~(HoldRanOut(rental[k]) /\ Overlap(rental[k].block, p))
      <3>1. Released(p)[k] = rental[k]
        BY <1>1, <2>3 DEF Released
      <3> QED
        BY <2>1, <3>1 DEF Loosened
    <2> QED
      BY <2>2, <2>3
  <1>2. Released(p) = [k \in Keys |-> Released(p)[k]]
    BY DEF Released
  <1> QED
    BY <1>1, <1>2

\* What is free is clear of everything in the ledger that is in force then.
LEMMA FreeIs ==
  ASSUME NEW p, NEW S, Free(p, S)
  PROVE  /\ \A k \in Keys \ S : Released(p)[k].block.status \in Active => ~Overlap(Released(p)[k].block, p)
         /\ \A d \in Drives : drive[d].block.status \in Active => ~Overlap(drive[d].block, p)
         /\ \A s \in shop : ~Overlap(s, p)
  <1>1. \A k \in Keys \ S : Released(p)[k].block \in Ledger(Released(p), S)
    BY DEF Ledger, RentalBlocks
  <1>2. \A d \in Drives : drive[d].block \in Ledger(Released(p), S)
    BY DEF Ledger, DriveBlocks
  <1>3. \A s \in shop : ShopBlock(s) \in Ledger(Released(p), S)
    BY DEF Ledger, ShopBlocks, ShopBlock
  <1>4. \A b \in Ledger(Released(p), S) : b.status \in Active => ~Overlap(b, p)
    BY DEF Free
  <1>5. \A s \in shop : ShopBlock(s).status \in Active /\ (Overlap(ShopBlock(s), p) <=> Overlap(s, p))
    BY DEF ShopBlock, Block, Active, Overlap
  <1> QED
    BY <1>1, <1>2, <1>3, <1>4, <1>5

\* Holds let go disturb nothing.
LEMMA LooseningFits ==
  ASSUME NEW r, NEW q, BookingsFit(r), \A k \in Keys : Loosened(r[k], q[k])
  PROVE  BookingsFit(q)
  <1> SUFFICES ASSUME NEW k \in Keys PROVE BlockFits(q[k]) /\ InItsPeriod(q[k])
    BY DEF BookingsFit
  <1>1. BlockFits(r[k]) /\ InItsPeriod(r[k]) /\ Loosened(r[k], q[k])
    BY DEF BookingsFit
  <1>2. BlockFits(q[k])
    BY <1>1 DEF BlockFits, Loosened, Active
  <1>3. InItsPeriod(q[k])
    BY <1>1 DEF InItsPeriod, Loosened, Within, Active
  <1> QED
    BY <1>2, <1>3

LEMMA LooseningKeepsApart ==
  ASSUME NEW r, NEW q, NEW v, NEW w, LedgerOf(r, v, w), \A k \in Keys : Loosened(r[k], q[k])
  PROVE  LedgerOf(q, v, w)
  <1>1. ASSUME NEW k \in Keys, NEW c, Apart(r[k].block, c)
        PROVE  Apart(q[k].block, c)
    BY <1>1 DEF Apart, Loosened, Overlap, Active
  <1>2. ASSUME NEW k \in Keys, NEW l \in Keys, k # l
        PROVE  Apart(q[k].block, q[l].block)
    <2>1. Apart(r[k].block, r[l].block)
      BY <1>2 DEF LedgerOf
    <2> QED
      BY <2>1 DEF Apart, Loosened, Overlap, Active
  <1> QED
    BY <1>1, <1>2 DEF LedgerOf

\* One booking's block changes, to one clear of the others.
ClearOf(b, k, r, v, w) ==
  /\ \A l \in Keys \ {k} : Apart(b, r[l].block)
  /\ \A d \in Drives : Apart(b, v[d].block)
  /\ \A s \in w : Apart(b, ShopBlock(s))

LEMMA OneBookingKeepsApart ==
  ASSUME NEW r, NEW q, NEW v, NEW w, NEW k \in Keys, LedgerOf(r, v, w),
         \A l \in Keys \ {k} : q[l] = r[l], ClearOf(q[k].block, k, r, v, w)
  PROVE  LedgerOf(q, v, w)
  <1>1. ASSUME NEW i \in Keys, NEW l \in Keys, i # l
        PROVE  Apart(q[i].block, q[l].block)
    <2>1. CASE i = k
      BY <1>1, <2>1 DEF ClearOf
    <2>2. CASE l = k
      <3>1. Apart(q[l].block, q[i].block)
        BY <1>1, <2>2 DEF ClearOf
      <3> QED
        BY <3>1 DEF Apart, Overlap
    <2>3. CASE i # k /\ l # k
      BY <1>1, <2>3 DEF LedgerOf
    <2> QED
      BY <2>1, <2>2, <2>3
  <1>2. \A i \in Keys, d \in Drives : Apart(q[i].block, v[d].block)
    BY DEF LedgerOf, ClearOf
  <1>3. \A i \in Keys, s \in w : Apart(q[i].block, ShopBlock(s))
    BY DEF LedgerOf, ClearOf
  <1> QED
    BY <1>1, <1>2, <1>3 DEF LedgerOf

\* A block over what Free found free is clear of the others.
LEMMA FreeIsClear ==
  ASSUME NEW p, NEW k \in Keys, NEW S \in SUBSET {k}, NEW b, Free(p, S), b.from = p.from, b.to = p.to
  PROVE  ClearOf(b, k, Released(p), drive, shop)
  <1>1. \A l \in Keys \ {k} : Apart(b, Released(p)[l].block)
    BY FreeIs DEF Apart, Overlap
  <1>2. \A d \in Drives : Apart(b, drive[d].block)
    BY FreeIs DEF Apart, Overlap
  <1>3. \A s \in shop : Apart(b, ShopBlock(s))
    BY FreeIs DEF Apart, Overlap, ShopBlock, Block
  <1> QED
    BY <1>1, <1>2, <1>3 DEF ClearOf

\* The times in the ledger are numbers, and its blocks in force are not empty.
LEMMA LedgerTimes ==
  ASSUME TypeOK, DriveFits(drive), ShopFits
  PROVE  /\ \A d \in Drives : /\ drive[d].block \in Blocks
                              /\ drive[d].block.from \in Nat /\ drive[d].block.to \in Nat
                              /\ drive[d].block.status \in Active => drive[d].block.from < drive[d].block.to
         /\ \A s \in shop : /\ ShopBlock(s).from \in Nat /\ ShopBlock(s).to \in Nat
                            /\ ShopBlock(s).from < ShopBlock(s).to
                            /\ ShopBlock(s).status \in Active
  <1>1. \A d \in Drives : drive[d].block \in Blocks
    BY DEF TypeOK
  <1>2. \A s \in shop : s.from \in Nat /\ s.to \in Nat /\ s.from < s.to
    BY DEF TypeOK, ShopFits
  <1> QED
    BY <1>1, <1>2 DEF DriveFits, ShopBlock, Block, Blocks, Active

\* A block within the one a booking has is clear of the others, holds let go or not.
LEMMA WithinIsClearOf ==
  ASSUME IInv, NEW r, r \in [Keys -> Bookings], \A l \in Keys : Loosened(rental[l], r[l]),
         NEW k \in Keys, NEW b \in Blocks,
         b.status \in Active => r[k].block.status \in Active /\ Within(b, r[k].block)
  PROVE  ClearOf(b, k, r, drive, shop)
  <1>1. \A l \in Keys : r[l].block \in Blocks
    BY DEF Bookings
  <1>2. LedgerOf(r, drive, shop)
    BY LooseningKeepsApart DEF IInv
  <1>3. ASSUME NEW c, c.from \in Nat, c.to \in Nat, Apart(r[k].block, c)
        PROVE  Apart(b, c)
    BY <1>1, <1>3 DEF Apart, Overlap, Within, Blocks
  <1>4. \A l \in Keys \ {k} : Apart(b, r[l].block)
    BY <1>1, <1>2, <1>3 DEF LedgerOf, Blocks
  <1>5. \A d \in Drives : Apart(b, drive[d].block)
    BY <1>2, <1>3, LedgerTimes DEF IInv, LedgerOf
  <1>6. \A s \in shop : Apart(b, ShopBlock(s))
    BY <1>2, <1>3, LedgerTimes DEF IInv, LedgerOf
  <1> QED
    BY <1>4, <1>5, <1>6 DEF ClearOf

LEMMA WithinIsClear ==
  ASSUME IInv, NEW k \in Keys, NEW b \in Blocks,
         b.status \in Active => rental[k].block.status \in Active /\ Within(b, rental[k].block)
  PROVE  ClearOf(b, k, rental, drive, shop)
  <1>1. rental \in [Keys -> Bookings] /\ \A l \in Keys : Loosened(rental[l], rental[l])
    BY DEF IInv, TypeOK, Loosened
  <1> QED
    BY <1>1, WithinIsClearOf

\* Two periods, the one ending where the other begins, make up a third.
Joined(b, p, q) ==
  \/ p.to = q.from /\ b.from = p.from /\ b.to = q.to
  \/ q.to = p.from /\ b.from = q.from /\ b.to = p.to

\* A block over its booking's own and what was found free next to it.
LEMMA JoinedIsClear ==
  ASSUME IInv, NEW k \in Keys, NEW p \in Periods, Free(p, {k}),
         p.from <= p.to, rental[k].block.status \in Active,
         NEW b \in Blocks, Joined(b, p, rental[k].block)
  PROVE  ClearOf(b, k, Released(p), drive, shop)
  <1> DEFINE r == Released(p)
  <1>1. /\ r \in [Keys -> Bookings] /\ \A l \in Keys : Loosened(rental[l], r[l])
    BY ReleasedIs DEF IInv
  <1> HIDE DEF r
  <1>2. LedgerOf(r, drive, shop) /\ BookingsFit(r)
    BY <1>1, LooseningKeepsApart, LooseningFits DEF IInv
  <1>3. \A l \in Keys : /\ r[l].block.from \in Nat /\ r[l].block.to \in Nat
                        /\ r[l].block.status \in Active => r[l].block.from < r[l].block.to
    <2>1. \A l \in Keys : r[l].block \in Blocks
      BY <1>1 DEF Bookings
    <2> QED
      BY <1>2, <2>1 DEF BookingsFit, BlockFits, Blocks
  <1>4. rental[k].block \in Blocks /\ rental[k].block.from < rental[k].block.to
    BY DEF IInv, TypeOK, Bookings, BookingsFit, BlockFits
  <1>5. ASSUME NEW c, c.from \in Nat, c.to \in Nat, c.status \in Active, c.from < c.to,
               ~Overlap(c, p), Apart(rental[k].block, c)
        PROVE  ~Overlap(b, c)
    BY <1>4, <1>5 DEF Apart, Overlap, Joined, Periods, Blocks
  <1>6. \A l \in Keys \ {k} : Apart(b, r[l].block)
    <2> SUFFICES ASSUME NEW l \in Keys \ {k}, r[l].block.status \in Active
                 PROVE  ~Overlap(b, r[l].block)
      BY DEF Apart
    <2>1. ~Overlap(r[l].block, p)
      BY FreeIs DEF r
    <2>2. Apart(rental[k].block, r[l].block)
      <3>1. Apart(rental[k].block, rental[l].block) /\ Loosened(rental[l], r[l])
        BY <1>1 DEF IInv, LedgerOf
      <3> QED
        BY <3>1 DEF Apart, Loosened, Overlap, Active
    <2> QED
      BY <1>3, <1>5, <2>1, <2>2
  <1>7. \A d \in Drives : Apart(b, drive[d].block)
    <2> SUFFICES ASSUME NEW d \in Drives, drive[d].block.status \in Active
                 PROVE  ~Overlap(b, drive[d].block)
      BY DEF Apart
    <2>1. ~Overlap(drive[d].block, p) /\ Apart(rental[k].block, drive[d].block)
      BY FreeIs DEF IInv, LedgerOf
    <2> QED
      BY <1>5, <2>1, LedgerTimes DEF IInv
  <1>8. \A s \in shop : Apart(b, ShopBlock(s))
    <2> SUFFICES ASSUME NEW s \in shop PROVE ~Overlap(b, ShopBlock(s))
      BY DEF Apart
    <2>1. ~Overlap(ShopBlock(s), p) /\ Apart(rental[k].block, ShopBlock(s))
      BY FreeIs DEF IInv, LedgerOf, ShopBlock, Block, Overlap
    <2> QED
      BY <1>5, <2>1, LedgerTimes DEF IInv
  <1> QED
    BY <1>6, <1>7, <1>8 DEF ClearOf, r

\* What every step on one booking shows: the others are as they were but for
\* holds let go, and the booking's own block fits it and is clear of them.
LEMMA OneBookingFits ==
  ASSUME IInv, NEW k \in Keys, NEW r,
         \A l \in Keys : Loosened(rental[l], r[l]),
         \A l \in Keys \ {k} : rental'[l] = r[l],
         BlockFits(rental'[k]), InItsPeriod(rental'[k]),
         ClearOf(rental'[k].block, k, r, drive, shop),
         UNCHANGED <<now, drive, shop, fleet>>
  PROVE  BookingsFit(rental)' /\ LedgerOf(rental, drive, shop)'
  <1>1. BookingsFit(r) /\ LedgerOf(r, drive, shop)
    BY LooseningFits, LooseningKeepsApart DEF IInv
  <1>2. BookingsFit(rental')
    BY <1>1 DEF BookingsFit
  <1>3. BookingsFit(rental)'
    BY <1>2 DEF BookingsFit, BlockFits, InItsPeriod
  <1>4. LedgerOf(rental', drive, shop)
    BY <1>1, OneBookingKeepsApart
  <1>5. LedgerOf(rental, drive, shop)'
    BY <1>4 DEF LedgerOf
  <1> QED
    BY <1>3, <1>5

LEMMA OneBookingChanges ==
  ASSUME IInv, NEW k \in Keys, NEW r,
         \A l \in Keys : Loosened(rental[l], r[l]),
         rental' \in [Keys -> Bookings],
         \A l \in Keys \ {k} : rental'[l] = r[l],
         BlockFits(rental'[k]), InItsPeriod(rental'[k]),
         ClearOf(rental'[k].block, k, r, drive, shop),
         protocol' \in [Keys -> {"none", "out", "in"}],
         ByRental
  PROVE  IInv'
  <1>1. UNCHANGED <<now, use, unit, ask, drive, job, shop, fleet, stock>>
    BY DEF ByRental
  <1>2. BookingsFit(rental)' /\ LedgerOf(rental, drive, shop)'
    BY <1>1, OneBookingFits
  <1>3. FleetApart' /\ ShopFits' /\ AskedFits' /\ DriveFits(drive)'
    BY <1>1 DEF IInv, FleetApart, ShopFits, AskedFits, DriveFits
  <1>4. TypeOK'
    BY <1>1 DEF IInv, TypeOK
  <1> QED
    BY <1>2, <1>3, <1>4 DEF IInv

\* A step that changes no booking, but for holds it lets go.
OnlyHoldsGo ==
  rental' \in [Keys -> Bookings] /\ \A l \in Keys : Loosened(rental[l], rental'[l])

LEMMA HoldsGo ==
  ASSUME IInv, rental' = rental \/ \E p \in Periods : rental' = Released(p)
  PROVE  OnlyHoldsGo
  <1>1. rental \in [Keys -> Bookings] /\ \A l \in Keys : Loosened(rental[l], rental[l])
    BY DEF IInv, TypeOK, Loosened
  <1> QED
    BY <1>1, ReleasedIs DEF IInv, OnlyHoldsGo

LEMMA OnlyLoosens ==
  ASSUME IInv, OnlyHoldsGo, UNCHANGED <<now, drive, shop, fleet>>
  PROVE  BookingsFit(rental)' /\ LedgerOf(rental, drive, shop)'
  <1>1. BookingsFit(rental') /\ LedgerOf(rental', drive, shop)
    BY LooseningFits, LooseningKeepsApart DEF IInv, OnlyHoldsGo
  <1> QED
    BY <1>1 DEF BookingsFit, BlockFits, InItsPeriod, LedgerOf

\* A booking and its parts are of their kinds.
LEMMA BookingIs ==
  ASSUME TypeOK, NEW k \in Keys
  PROVE  /\ rental[k] \in Bookings /\ rental[k].block \in Blocks
         /\ rental[k].from \in Nat /\ rental[k].to \in Nat
         /\ rental[k].block.from \in Nat /\ rental[k].block.to \in Nat
  BY DEF TypeOK, Bookings, Blocks

\* What is left of a booking, and of a block, when part of it changes.
RentalStates == {"none", "held", "confirmed", "cancelled", "no_show", "out", "returned"}

With(b, s, c) == [b EXCEPT !.state = s, !.block = c]

LEMMA BookingWith ==
  ASSUME NEW e \in Bookings, NEW s \in RentalStates, NEW d \in Blocks
  PROVE  /\ With(e, s, d) \in Bookings /\ With(e, s, d).state = s /\ With(e, s, d).block = d
         /\ With(e, s, d).from = e.from /\ With(e, s, d).to = e.to /\ With(e, s, d).out = e.out
  BY DEF Bookings, RentalStates, With

\* A moment, as a name for the numbers: the facts below are about records only.
Moments == Nat

\* A booking whose block is another's time, with what else is as it was.
Spanning(b, x, y) == [b EXCEPT !.block.from = x, !.block.to = y]
IsSpanning(n, b, x, y) ==
  /\ n \in Bookings /\ n.state = b.state /\ n.from = b.from /\ n.to = b.to /\ n.out = b.out
  /\ n.block \in Blocks /\ n.block.status = b.block.status /\ n.block.from = x /\ n.block.to = y

LEMMA SpanningIs ==
  ASSUME NEW b \in Bookings, NEW x \in Moments, NEW y \in Moments
  PROVE  IsSpanning(Spanning(b, x, y), b, x, y)
  <1> DEFINE c == [b.block EXCEPT !.from = x, !.to = y]
  <1>1. b.block \in Blocks
    BY DEF Bookings
  <1>2. c \in Blocks /\ c.status = b.block.status /\ c.from = x /\ c.to = y
    BY <1>1 DEF Blocks, Moments
  <1>3. Spanning(b, x, y) = [b EXCEPT !.block = c]
    BY <1>1 DEF Spanning, Blocks, Bookings
  <1> HIDE DEF c
  <1> QED
    BY <1>2, <1>3 DEF Bookings, Moments, IsSpanning

\* A booking at another time, its block apart.
Booked(b, f, t) == [b EXCEPT !.from = f, !.to = t]
IsBooked(n, b, f, t) ==
  /\ n \in Bookings /\ n.state = b.state /\ n.from = f /\ n.to = t
  /\ n.out = b.out /\ n.block = b.block

LEMMA BookedIs ==
  ASSUME NEW b \in Bookings, NEW f \in Moments, NEW t \in Moments
  PROVE  IsBooked(Booked(b, f, t), b, f, t)
  BY DEF Booked, IsBooked, Bookings, Moments

\* A booking to another end.
Until(b, t) == [b EXCEPT !.to = t]

LEMMA UntilIs ==
  ASSUME NEW b \in Bookings, NEW t \in Moments
  PROVE  IsBooked(Until(b, t), b, b.from, t)
  BY DEF Until, IsBooked, Bookings, Moments

\* A booking whose car went out.
WentOut(b, x) == [b EXCEPT !.state = "out", !.out = now, !.block.from = x]
IsOut(n, b, x) ==
  /\ n \in Bookings /\ n.state = "out" /\ n.from = b.from /\ n.to = b.to /\ n.out = now
  /\ n.block \in Blocks /\ n.block.status = b.block.status
  /\ n.block.from = x /\ n.block.to = b.block.to

LEMMA WentOutIs ==
  ASSUME NEW b \in Bookings, NEW x \in Moments, now \in Moments
  PROVE  IsOut(WentOut(b, x), b, x)
  <1> DEFINE c == [b.block EXCEPT !.from = x]
  <1>1. b.block \in Blocks
    BY DEF Bookings
  <1>2. c \in Blocks /\ c.status = b.block.status /\ c.from = x /\ c.to = b.block.to
    BY <1>1 DEF Blocks, Moments
  <1>3. WentOut(b, x) = [b EXCEPT !.state = "out", !.out = now, !.block = c]
    BY <1>1 DEF WentOut, Blocks, Bookings
  <1> HIDE DEF c
  <1> QED
    BY <1>2, <1>3 DEF Bookings, Moments, IsOut

LEMMA BlockWithStatus ==
  ASSUME NEW c \in Blocks, NEW s \in {"none", "held", "confirmed", "released", "expired"}, NEW n,
         n = [c EXCEPT !.status = s]
  PROVE  n \in Blocks /\ n.status = s /\ n.from = c.from /\ n.to = c.to
  BY DEF Blocks

LEMMA NowIs ==
  ASSUME TypeOK
  PROVE  now \in Nat /\ now <= End /\ now < Open
  <1>1. now \in 0 .. End
    BY DEF TypeOK, Times
  <1> QED
    BY <1>1, TimesAreNumbers DEF Open

-----------------------------------------------------------------------------
(* The steps of one booking.                                               *)

\* A booking called off or confirmed: its block stays where it is, or goes.
Marks(k, s, t) == rental' = [rental EXCEPT ![k].state = s, ![k].block.status = t]

LEMMA NewStateKeeps ==
  ASSUME IInv, NEW k \in Keys, NEW s \in {"confirmed", "cancelled", "no_show"}, NEW t,
         rental[k].state \in {"held", "confirmed"},
         s = "confirmed" => rental[k].block.status = "held" /\ t = "confirmed",
         s # "confirmed" => t = LetGo(rental[k].block.status),
         Marks(k, s, t),
         UNCHANGED protocol, ByRental
  PROVE  IInv'
  <1> DEFINE b == rental[k]
             n == rental'[k]
             c == [b.block EXCEPT !.status = t]
  <1>1. b \in Bookings /\ b.block \in Blocks /\ rental \in [Keys -> Bookings]
    BY BookingIs DEF IInv, TypeOK
  <1>2. n = With(b, s, c)
    BY <1>1 DEF Marks, With
  <1>3. t \in {"none", "held", "confirmed", "released", "expired"}
    BY <1>1 DEF LetGo, Blocks, Active
  <1>4. c \in Blocks /\ c.status = t /\ c.from = b.block.from /\ c.to = b.block.to
    BY <1>1, <1>3, BlockWithStatus
  <1> HIDE DEF c
  <1>5. /\ n \in Bookings /\ n.state = s /\ n.block = c
        /\ n.from = b.from /\ n.to = b.to
    <2>1. s \in RentalStates
      BY DEF RentalStates
    <2> QED
      BY <1>1, <1>2, <1>4, <2>1, BookingWith
  <1>6. /\ \A l \in Keys \ {k} : rental'[l] = rental[l]
        /\ rental' \in [Keys -> Bookings]
    BY <1>1, <1>5 DEF Marks
  <1>7. BlockFits(b) /\ InItsPeriod(b)
    BY DEF IInv, BookingsFit
  <1>8. b.block.status \in {"held", "expired", "confirmed"}
    BY <1>7 DEF BlockFits
  <1>9. c.status \in Active => s = "confirmed" /\ b.block.status \in Active
    BY <1>4, <1>8 DEF LetGo, Active
  <1>10. BlockFits(n)
    BY <1>4, <1>5, <1>7, <1>8, <1>9 DEF BlockFits, Active
  <1>11. InItsPeriod(n)
    BY <1>4, <1>5, <1>7, <1>9 DEF InItsPeriod, Within
  <1>12. ClearOf(n.block, k, rental, drive, shop)
    <2>1. n.block \in Blocks /\ (n.block.status \in Active => b.block.status \in Active /\ Within(n.block, b.block))
      BY <1>1, <1>4, <1>5, <1>9 DEF Within, Blocks
    <2> QED
      BY <2>1, WithinIsClear
  <1>13. \A l \in Keys : Loosened(rental[l], rental[l])
    BY DEF Loosened
  <1>14. protocol' \in [Keys -> {"none", "out", "in"}]
    BY DEF IInv, TypeOK
  <1> QED
    BY <1>6, <1>10, <1>11, <1>12, <1>13, <1>14, OneBookingChanges

LEMMA ConfirmKeeps ==
  ASSUME IInv, NEW k \in Keys, Confirm(k)
  PROVE  IInv'
  <1>1. rental[k].state = "held" /\ rental[k].block.status = "held"
    <2>1. State(k) = "held"
      BY DEF Confirm
    <2>2. BlockFits(rental[k])
      BY DEF IInv, BookingsFit
    <2> QED
      BY <2>1, <2>2 DEF State, BlockFits
  <1>2. Marks(k, "confirmed", "confirmed") /\ UNCHANGED protocol /\ ByRental
    BY DEF Confirm, Marks
  <1> QED
    BY <1>1, <1>2, NewStateKeeps

LEMMA CancelKeeps ==
  ASSUME IInv, NEW k \in Keys, Cancel(k)
  PROVE  IInv'
  <1> DEFINE t == LetGo(rental[k].block.status)
  <1>1. State(k) \in {"held", "confirmed", "hold_expired"} /\ UNCHANGED protocol /\ ByRental
    BY DEF Cancel
  <1>2. rental[k].state \in {"held", "confirmed"}
    BY <1>1, BookingIs DEF State, Bookings, IInv
  <1>3. Marks(k, "cancelled", t) \/ Marks(k, "no_show", t)
    BY DEF Cancel, Marks
  <1> HIDE DEF t
  <1>4. t = LetGo(rental[k].block.status)
    BY DEF t
  <1> QED
    BY <1>1, <1>2, <1>3, <1>4, NewStateKeeps

\* A moved booking is where Free and InFleet found room for it.
LEMMA MoveKeeps ==
  ASSUME IInv, NEW k \in Keys, NEW from \in Times, Move(k, from)
  PROVE  IInv'
  <1> DEFINE b == rental[k]
             to == from + (b.to - b.from)
             p == Span(from, to + Buffer)
             r == Released(p)
             n == rental'[k]
  <1>1. /\ State(k) \in Active /\ to \in Times /\ InFleet(p) /\ Free(p, {k})
        /\ rental' = [Reblocked(k, from, to) EXCEPT ![k].from = from, ![k].to = to]
        /\ UNCHANGED protocol /\ ByRental
    BY DEF Move
  <1>2. /\ r \in [Keys -> Bookings] /\ \A l \in Keys : Loosened(rental[l], r[l])
        /\ Reblocked(k, from, to) = [r EXCEPT ![k].block.from = from, ![k].block.to = to + Buffer]
    BY ReleasedIs DEF IInv, Reblocked
  <1>3. /\ b.state \in Active /\ b.from \in Nat /\ b.to \in Nat /\ b.from < b.to
    <2>1. b.state \in Active
      BY <1>1, BookingIs DEF State, IInv, Bookings, Active
    <2> QED
      BY <2>1, BookingIs DEF IInv, BookingsFit, BlockFits, Active
  <1>4. from \in Nat /\ to \in Nat /\ Buffer \in Nat /\ from < to /\ p.from = from /\ p.to = to + Buffer
    BY <1>1, <1>3, TimesAreNumbers DEF Times, Span
  <1> HIDE DEF r, to, p
  <1>5. n = Booked(Spanning(r[k], from, to + Buffer), from, to)
    BY <1>1, <1>2 DEF Booked, Spanning
  <1>6. /\ \A l \in Keys \ {k} : rental'[l] = r[l]
        /\ DOMAIN rental' = Keys /\ rental' = [l \in Keys |-> rental'[l]]
    BY <1>1, <1>2
  <1>7. /\ n \in Bookings /\ n.state = b.state /\ n.from = from /\ n.to = to
        /\ n.block.status = r[k].block.status /\ n.block.from = from /\ n.block.to = to + Buffer
    <2> DEFINE till == to + Buffer
               s == Spanning(r[k], from, till)
    <2>1. r[k] \in Bookings
      BY <1>2
    <2>2. from \in Moments /\ to \in Moments /\ till \in Moments
      BY <1>4 DEF Moments
    <2>3. n = Booked(s, from, to)
      BY <1>5
    <2> HIDE DEF till
    <2>4. IsSpanning(s, r[k], from, till)
      BY <2>1, <2>2, SpanningIs
    <2> HIDE DEF s, n
    <2>5. IsBooked(n, s, from, to)
      BY <2>2, <2>3, <2>4, BookedIs DEF IsSpanning
    <2>6. r[k].state = b.state
      BY <1>2 DEF Loosened
    <2> QED
      BY <2>4, <2>5, <2>6 DEF n, till, IsSpanning, IsBooked
  <1>8. rental' \in [Keys -> Bookings]
    BY <1>2, <1>6, <1>7
  <1>9. BlockFits(n)
    <2>1. BlockFits(b) /\ Loosened(b, r[k])
      BY <1>2 DEF IInv, BookingsFit
    <2> QED
      BY <1>3, <1>4, <1>7, <2>1 DEF BlockFits, Loosened, Active
  <1>10. InItsPeriod(n)
    BY <1>1, <1>4, <1>7 DEF InItsPeriod, InFleet, Within
  <1>11. ClearOf(n.block, k, r, drive, shop)
    BY <1>1, <1>4, <1>7, FreeIsClear DEF r
  <1>12. protocol' \in [Keys -> {"none", "out", "in"}]
    BY <1>1 DEF IInv, TypeOK
  <1> QED
    BY <1>1, <1>2, <1>6, <1>8, <1>9, <1>10, <1>11, <1>12, OneBookingChanges

\* A booking the car is kept for, or has gone out on: its block starts where
\* KeepsFrom says, and ends with the booking and the cleaning.
LEMMA KeptFor ==
  ASSUME IInv, NEW k \in Keys, rental[k].state \in {"held", "confirmed", "out"}
  PROVE  /\ KeepsFrom(k) = rental[k].block.from
         /\ rental[k].block.from \in Nat /\ rental[k].from \in Nat /\ rental[k].to \in Nat
         /\ rental[k].block.from <= rental[k].from /\ rental[k].from < rental[k].to
         /\ rental[k].block.to = rental[k].to + Buffer
  <1>1. BlockFits(rental[k])
    BY DEF IInv, BookingsFit
  <1>2. /\ rental[k].from \in Nat /\ rental[k].to \in Nat /\ rental[k].out \in Nat
        /\ rental[k].block.from \in Nat
    BY BookingIs DEF IInv, Bookings
  <1> QED
    BY <1>1, <1>2 DEF BlockFits, KeepsFrom

\* An extended booking stays in the period it is in: the one that has room
\* for what it grows to meets the one its block is in, and periods are apart.
LEMMA ExtendKeeps ==
  ASSUME IInv, NEW k \in Keys, NEW to \in Times, Extend(k, to)
  PROVE  IInv'
  <1> DEFINE b == rental[k]
             x == KeepsFrom(k)
             till == to + Buffer
             p == Span(x, till)
             r == Released(p)
             n == rental'[k]
  <1>1. /\ State(k) \in Active \cup {"out"} /\ b.to < to
        /\ InFleet(Span(b.from, till)) /\ Free(p, {k})
        /\ rental' = [Reblocked(k, x, to) EXCEPT ![k].to = to]
        /\ UNCHANGED protocol /\ ByRental
    BY DEF Extend
  <1>2. /\ r \in [Keys -> Bookings] /\ \A l \in Keys : Loosened(rental[l], r[l])
        /\ Reblocked(k, x, to) = [r EXCEPT ![k].block.from = x, ![k].block.to = till]
    BY ReleasedIs DEF IInv, Reblocked
  <1>3. b.state \in {"held", "confirmed", "out"}
    BY <1>1, BookingIs DEF State, IInv, Bookings, Active
  <1>4. /\ x = b.block.from /\ b.block.from \in Nat /\ b.from \in Nat /\ b.to \in Nat
        /\ b.block.from <= b.from /\ b.from < b.to /\ b.block.to = b.to + Buffer
    BY <1>3, KeptFor
  <1>5. /\ to \in Nat /\ Buffer \in Nat /\ till \in Nat /\ till = to + Buffer
        /\ p.from = x /\ p.to = till
    BY TimesAreNumbers DEF Times, Span
  <1> HIDE DEF r, p, till, x
  <1>6. n = Until(Spanning(r[k], x, till), to)
    BY <1>1, <1>2 DEF Until, Spanning
  <1>7. /\ \A l \in Keys \ {k} : rental'[l] = r[l]
        /\ DOMAIN rental' = Keys /\ rental' = [l \in Keys |-> rental'[l]]
    BY <1>1, <1>2
  <1>8. /\ n \in Bookings /\ n.state = b.state /\ n.from = b.from /\ n.to = to /\ n.out = b.out
        /\ n.block.status = r[k].block.status /\ n.block.from = x /\ n.block.to = till
    <2> DEFINE s == Spanning(r[k], x, till)
    <2>1. r[k] \in Bookings
      BY <1>2
    <2>2. x \in Moments /\ to \in Moments /\ till \in Moments
      BY <1>4, <1>5 DEF Moments
    <2>3. n = Until(s, to)
      BY <1>6
    <2>4. IsSpanning(s, r[k], x, till)
      BY <2>1, <2>2, SpanningIs
    <2> HIDE DEF s, n
    <2>5. IsBooked(n, s, s.from, to)
      BY <2>2, <2>3, <2>4, UntilIs DEF IsSpanning
    <2>6. r[k].state = b.state /\ r[k].from = b.from /\ r[k].out = b.out
      BY <1>2 DEF Loosened
    <2> QED
      BY <2>4, <2>5, <2>6 DEF n, IsSpanning, IsBooked
  <1>9. rental' \in [Keys -> Bookings]
    BY <1>2, <1>7, <1>8
  <1>10. BlockFits(n)
    <2>1. BlockFits(b) /\ Loosened(b, r[k])
      BY <1>2 DEF IInv, BookingsFit
    <2>2. n.from < n.to /\ n.block.from < n.block.to
      BY <1>1, <1>4, <1>5, <1>8
    <2>3. n.state = "held" => n.block.status \in {"held", "expired"}
      BY <1>8, <2>1 DEF BlockFits, Loosened
    <2>4. n.state \in {"confirmed", "out"} => n.block.status = "confirmed"
      BY <1>8, <2>1 DEF BlockFits, Loosened
    <2>5. /\ n.state \in {"held", "confirmed"} => n.block.from = n.from
          /\ n.state = "out" => n.block.from = IF n.out < n.from THEN n.out ELSE n.from
      BY <1>4, <1>8, <2>1 DEF BlockFits
    <2>6. n.state \in {"held", "confirmed", "out"} /\ n.block.to = n.to + Buffer
      BY <1>3, <1>5, <1>8
    <2> QED
      BY <2>2, <2>3, <2>4, <2>5, <2>6 DEF BlockFits, Active
  <1>11. InItsPeriod(n)
    <2> SUFFICES ASSUME n.block.status \in Active
                 PROVE  \E m \in fleet : Within(n.block, m)
      BY DEF InItsPeriod
    <2>1. PICK m \in fleet : Within(b.block, m)
      <3>1. b.block.status \in Active /\ InItsPeriod(b)
        BY <1>2, <1>8 DEF Loosened, Active, IInv, BookingsFit
      <3> QED
        BY <1>3, <3>1 DEF InItsPeriod
    <2>2. PICK w \in fleet : Within(Span(b.from, till), w)
      BY <1>1 DEF InFleet
    <2>3. m.from \in Nat /\ m.to \in Nat /\ w.from \in Nat /\ w.to \in Nat
      BY DEF IInv, TypeOK, Periods
    <2>4. Overlap(m, w)
      BY <1>1, <1>4, <1>5, <2>1, <2>2, <2>3 DEF Overlap, Within, Span
    <2>5. m = w
      BY <2>4 DEF IInv, FleetApart
    <2>6. Within(n.block, m)
      BY <1>4, <1>8, <2>1, <2>2, <2>5 DEF Within, Span
    <2> QED
      BY <2>6
  <1>12. ClearOf(n.block, k, r, drive, shop)
    BY <1>1, <1>5, <1>8, FreeIsClear DEF r
  <1>13. protocol' \in [Keys -> {"none", "out", "in"}]
    BY <1>1 DEF IInv, TypeOK
  <1> QED
    BY <1>1, <1>2, <1>7, <1>9, <1>10, <1>11, <1>12, <1>13, OneBookingChanges

-----------------------------------------------------------------------------
(* Handovers.                                                              *)

\* StartHandover lets go, on the way, what Free looked at.
LEMMA StartHandoverKeeps ==
  ASSUME IInv, NEW k \in Keys, NEW kind \in {"out", "in"}, StartHandover(k, kind)
  PROVE  IInv'
  <1>1. OnlyHoldsGo
    <2>1. rental' = rental \/ rental' = Released(Span(now, rental[k].from))
      BY DEF StartHandover
    <2>2. Span(now, rental[k].from) \in Periods
      BY NowIs, BookingIs DEF IInv, Span, Periods
    <2> QED
      BY <2>1, <2>2, HoldsGo
  <1>2. /\ UNCHANGED <<now, use, unit, ask, drive, job, shop, fleet, stock>>
        /\ protocol' \in [Keys -> {"none", "out", "in"}]
    BY DEF StartHandover, ByRental, IInv, TypeOK
  <1>3. BookingsFit(rental)' /\ LedgerOf(rental, drive, shop)'
    BY <1>1, <1>2, OnlyLoosens
  <1>4. FleetApart' /\ ShopFits' /\ AskedFits' /\ DriveFits(drive)'
    BY <1>2 DEF IInv, FleetApart, ShopFits, AskedFits, DriveFits
  <1>5. TypeOK'
    BY <1>1, <1>2 DEF IInv, TypeOK, OnlyHoldsGo
  <1> QED
    BY <1>3, <1>4, <1>5 DEF IInv

LEMMA AbandonHandoverKeeps ==
  ASSUME IInv, NEW k \in Keys, AbandonHandover(k)
  PROVE  IInv'
  <1>1. /\ UNCHANGED <<now, use, unit, ask, drive, job, shop, fleet, stock, rental>>
        /\ protocol' \in [Keys -> {"none", "out", "in"}]
    BY DEF AbandonHandover, ByRental, IInv, TypeOK
  <1>2. OnlyHoldsGo
    BY <1>1, HoldsGo
  <1>3. BookingsFit(rental)' /\ LedgerOf(rental, drive, shop)'
    BY <1>1, <1>2, OnlyLoosens
  <1>4. FleetApart' /\ ShopFits' /\ AskedFits' /\ DriveFits(drive)'
    BY <1>1 DEF IInv, FleetApart, ShopFits, AskedFits, DriveFits
  <1>5. TypeOK'
    BY <1>1 DEF IInv, TypeOK
  <1> QED
    BY <1>3, <1>4, <1>5 DEF IInv

\* The car goes out: early, its block is joined to what was free before it.
LEMMA GoOutKeeps ==
  ASSUME IInv, NEW k \in Keys, GoOut(k)
  PROVE  IInv'
  <1> DEFINE b == rental[k]
             p == Span(now, b.from)
             early == now < b.from
             r == IF early THEN Released(p) ELSE rental
             n == rental'[k]
             x == IF now < r[k].block.from THEN now ELSE r[k].block.from
  <1>1. /\ MayGoOut(k) /\ protocol' = [protocol EXCEPT ![k] = "none"] /\ ByRental
        /\ rental' = [r EXCEPT ![k].state = "out", ![k].out = now,
                               ![k].block.from = IF now < @ THEN now ELSE @]
    BY DEF GoOut
  <1>2. r \in [Keys -> Bookings] /\ \A l \in Keys : Loosened(rental[l], r[l])
    <2>1. rental \in [Keys -> Bookings] /\ \A l \in Keys : Loosened(rental[l], rental[l])
      BY DEF IInv, TypeOK, Loosened
    <2> QED
      BY <2>1, ReleasedIs DEF IInv
  <1>3. b.state = "confirmed"
    BY <1>1, BookingIs DEF MayGoOut, State, IInv, Bookings
  <1>4. /\ BlockFits(b) /\ InItsPeriod(b) /\ b.block.status = "confirmed"
        /\ b.from \in Nat /\ b.to \in Nat /\ now \in Nat /\ b.from < b.to
        /\ b.block.from = b.from /\ b.block.to = b.to + Buffer
    <2>1. now \in Nat
      BY NowIs DEF IInv
    <2>2. b.from \in Nat /\ b.to \in Nat /\ BlockFits(b) /\ InItsPeriod(b)
      BY BookingIs DEF IInv, BookingsFit
    <2> QED
      BY <1>3, <2>1, <2>2 DEF BlockFits
  <1>5. r[k].block.from = b.from /\ r[k].block.status = "confirmed" /\ r[k].block.to = b.to + Buffer
    BY <1>2, <1>4 DEF Loosened
  <1>6. x \in Nat /\ x = (IF now < b.from THEN now ELSE b.from)
    BY <1>4, <1>5
  <1>7. /\ early => InFleet(Span(now, b.to + Buffer)) /\ Free(p, {k})
        /\ p.from = now /\ p.to = b.from
    BY <1>1 DEF MayGoOut, Span
  <1>8. (early => r = Released(p)) /\ (~early => r = rental)
    OBVIOUS
  <1> HIDE DEF r, p
  <1>9. n = WentOut(r[k], x)
    BY <1>1, <1>2 DEF WentOut
  <1>10. /\ \A l \in Keys \ {k} : rental'[l] = r[l]
         /\ DOMAIN rental' = Keys /\ rental' = [l \in Keys |-> rental'[l]]
    BY <1>1, <1>2
  <1> HIDE DEF x
  <1>11. IsOut(n, r[k], x)
    <2>1. r[k] \in Bookings
      BY <1>2
    <2>2. x \in Moments /\ now \in Moments
      BY <1>4, <1>6 DEF Moments
    <2> HIDE DEF n
    <2> QED
      BY <1>9, <2>1, <2>2, WentOutIs
  <1>12. /\ n \in Bookings /\ n.state = "out" /\ n.from = b.from /\ n.to = b.to /\ n.out = now
         /\ n.block \in Blocks /\ n.block.status = "confirmed"
         /\ n.block.from = x /\ n.block.to = b.to + Buffer
    <2>1. r[k].from = b.from /\ r[k].to = b.to
      BY <1>2 DEF Loosened
    <2> QED
      BY <1>5, <1>11, <2>1 DEF IsOut
  <1>13. rental' \in [Keys -> Bookings]
    BY <1>2, <1>10, <1>12
  <1>14. BlockFits(n)
    BY <1>4, <1>6, <1>12, TimesAreNumbers DEF BlockFits, Active
  <1>15. InItsPeriod(n)
    <2>1. CASE early
      BY <1>6, <1>7, <1>12, <2>1 DEF InItsPeriod, InFleet, Within, Span
    <2>2. CASE ~early
      BY <1>3, <1>4, <1>6, <1>12, <2>2 DEF InItsPeriod, Within, Active
    <2> QED
      BY <2>1, <2>2
  <1>16. ClearOf(n.block, k, r, drive, shop)
    <2>1. CASE early
      <3>1. p \in Periods /\ p.from <= p.to
        BY <1>4, <1>7, <2>1 DEF Periods, p, Span
      <3>2. Joined(n.block, p, b.block)
        BY <1>4, <1>6, <1>7, <1>12, <2>1 DEF Joined
      <3>3. Free(p, {k}) /\ b.block.status \in Active /\ n.block \in Blocks
        BY <1>4, <1>7, <1>12, <2>1 DEF Active
      <3> HIDE DEF n
      <3> QED
        BY <1>8, <2>1, <3>1, <3>2, <3>3, JoinedIsClear
    <2>2. CASE ~early
      <3>1. Within(n.block, r[k].block) /\ r[k].block.status \in Active /\ n.block \in Blocks
        BY <1>4, <1>5, <1>6, <1>12, <2>2, TimesAreNumbers DEF Within, Active
      <3> QED
        BY <1>2, <3>1, WithinIsClearOf
    <2> QED
      BY <2>1, <2>2
  <1>17. protocol' \in [Keys -> {"none", "out", "in"}]
    BY <1>1 DEF IInv, TypeOK
  <1> QED
    BY <1>1, <1>2, <1>10, <1>13, <1>14, <1>15, <1>16, <1>17, OneBookingChanges

\* What a booking's block is once its car is back: no more than the return and
\* the cleaning, and within the block it was or joined to what was free after it.
LEMMA BackIs ==
  ASSUME IInv, NEW k \in Keys, rental[k].state = "out", NEW c \in Blocks,
         c.status = "confirmed", c.from = rental[k].block.from, c.to = rental[k].block.to
  PROVE  LET b == rental[k]
             d == Back(k, c)
             p == Span(b.to + Buffer, now + Buffer)
         IN  /\ d \in Blocks /\ d.status \in {"confirmed", "released"}
             /\ d.status = "confirmed" => d.from < d.to /\ d.to <= now + Buffer
             /\ \/ d.status = "confirmed" => Within(d, c)
                \/ now > b.to /\ Free(p, {k}) /\ Joined(d, p, b.block)
  <1> DEFINE b == rental[k]
             p == Span(b.to + Buffer, now + Buffer)
             until == now + Buffer
             d == Back(k, c)
  <1>1. /\ b.block.from \in Nat /\ b.from \in Nat /\ b.to \in Nat /\ now \in Nat /\ Buffer \in Nat
        /\ until \in Nat /\ until = now + Buffer
        /\ b.block.from <= b.from /\ b.from < b.to /\ b.block.to = b.to + Buffer
        /\ p.from = b.to + Buffer /\ p.to = until
    BY KeptFor, NowIs, TimesAreNumbers DEF IInv, Span
  <1>2. c.from \in Nat /\ c.to \in Nat /\ c.from < c.to
    BY <1>1
  <1> HIDE DEF p, until
  <1>3. CASE now > b.to /\ Free(p, {k})
    <2>0. ~(now < b.to)
      BY <1>1, <1>3
    <2>1. d = [c EXCEPT !.to = IF @ < until THEN until ELSE @]
      BY <1>3, <2>0 DEF Back, p, until
    <2>2. d = [c EXCEPT !.to = until]
      BY <1>1, <1>3, <2>1
    <2>3. d \in Blocks /\ d.status = "confirmed" /\ d.from = c.from /\ d.to = until
      BY <1>1, <2>2 DEF Blocks
    <2> HIDE DEF d
    <2>4. Joined(d, p, b.block) /\ d.from < d.to /\ d.to <= now + Buffer
      BY <1>1, <1>2, <1>3, <2>3 DEF Joined
    <2> QED
      BY <1>3, <2>3, <2>4 DEF p, d
  <1>4. CASE ~(now > b.to /\ Free(p, {k})) /\ now < b.to
    <2>1. d = IF until > c.from THEN [c EXCEPT !.to = until] ELSE [c EXCEPT !.status = "released"]
      BY <1>4 DEF Back, p, until
    <2>2. CASE until > c.from
      <3>1. d \in Blocks /\ d.status = "confirmed" /\ d.from = c.from /\ d.to = until
        BY <1>1, <2>1, <2>2 DEF Blocks
      <3> HIDE DEF d
      <3>2. Within(d, c) /\ d.from < d.to /\ d.to <= now + Buffer
        BY <1>1, <1>2, <1>4, <2>2, <3>1 DEF Within
      <3> QED
        BY <3>1, <3>2 DEF d
    <2>3. CASE ~(until > c.from)
      <3>1. d \in Blocks /\ d.status = "released"
        BY <2>1, <2>3 DEF Blocks
      <3> QED
        BY <3>1
    <2> QED
      BY <2>2, <2>3
  <1>5. CASE ~(now > b.to /\ Free(p, {k})) /\ ~(now < b.to)
    <2>1. d = c
      BY <1>5 DEF Back, p, until
    <2> HIDE DEF d
    <2>2. Within(d, c) /\ d.from < d.to /\ d.to <= now + Buffer
      BY <1>1, <1>2, <1>5, <2>1 DEF Within
    <2> QED
      BY <2>1, <2>2 DEF d
  <1> QED
    BY <1>3, <1>4, <1>5 DEF p, until

\* The car comes back.
LEMMA ComeBackKeeps ==
  ASSUME IInv, NEW k \in Keys, ComeBack(k)
  PROVE  IInv'
  <1> DEFINE b == rental[k]
             p == Span(b.to + Buffer, now + Buffer)
             r == IF now > b.to THEN Released(p) ELSE rental
             n == rental'[k]
             c == r[k].block
             d == Back(k, c)
  <1>1. /\ State(k) = "out" /\ protocol' = [protocol EXCEPT ![k] = "none"] /\ ByRental
        /\ rental' = [r EXCEPT ![k].state = "returned", ![k].block = Back(k, @)]
    BY DEF ComeBack
  <1>2. r \in [Keys -> Bookings] /\ \A l \in Keys : Loosened(rental[l], r[l])
    <2>1. rental \in [Keys -> Bookings] /\ \A l \in Keys : Loosened(rental[l], rental[l])
      BY DEF IInv, TypeOK, Loosened
    <2> QED
      BY <2>1, ReleasedIs DEF IInv
  <1>3. b.state = "out"
    BY <1>1, BookingIs DEF State, IInv, Bookings
  <1>4. /\ b.block.status = "confirmed" /\ b.from < b.to
        /\ b.from \in Nat /\ b.to \in Nat /\ now \in Nat /\ Buffer \in Nat
        /\ b.block.from \in Nat /\ b.block.to = b.to + Buffer
    <2>1. BlockFits(b)
      BY DEF IInv, BookingsFit
    <2> QED
      BY <1>3, <2>1, KeptFor, NowIs, TimesAreNumbers DEF BlockFits, IInv
  <1>5. c \in Blocks /\ c.status = "confirmed" /\ c.from = b.block.from /\ c.to = b.block.to
    BY <1>2, <1>4 DEF Loosened, Bookings
  <1>6. (now > b.to => r = Released(p)) /\ r[k] \in Bookings
    BY <1>2
  <1>7. /\ d \in Blocks /\ d.status \in {"confirmed", "released"}
        /\ d.status = "confirmed" => d.from < d.to /\ d.to <= now + Buffer
        /\ \/ d.status = "confirmed" => Within(d, c)
           \/ now > b.to /\ Free(p, {k}) /\ Joined(d, p, b.block)
    BY <1>3, <1>5, BackIs
  <1> HIDE DEF r, p
  <1>8. n = With(r[k], "returned", d)
    BY <1>1, <1>2 DEF With
  <1>9. /\ \A l \in Keys \ {k} : rental'[l] = r[l]
        /\ DOMAIN rental' = Keys /\ rental' = [l \in Keys |-> rental'[l]]
    BY <1>1, <1>2
  <1> HIDE DEF d
  <1>10. n \in Bookings /\ n.state = "returned" /\ n.block = d /\ n.from = b.from /\ n.to = b.to
    <2>1. "returned" \in RentalStates
      BY DEF RentalStates
    <2>2. r[k].from = b.from /\ r[k].to = b.to
      BY <1>2 DEF Loosened
    <2> QED
      BY <1>6, <1>7, <1>8, <2>1, <2>2, BookingWith
  <1>11. rental' \in [Keys -> Bookings]
    BY <1>2, <1>9, <1>10
  <1>12. BlockFits(n) /\ InItsPeriod(n)
    BY <1>4, <1>7, <1>10 DEF BlockFits, InItsPeriod, Active
  <1>13. ClearOf(n.block, k, r, drive, shop)
    <2>1. CASE d.status = "confirmed" => Within(d, c)
      <3>1. d.status \in Active => c.status \in Active /\ Within(d, c)
        BY <1>5, <1>7, <2>1 DEF Active
      <3> QED
        BY <1>2, <1>7, <1>10, <3>1, WithinIsClearOf
    <2>2. CASE now > b.to /\ Free(p, {k}) /\ Joined(d, p, b.block)
      <3>1. p \in Periods /\ p.from <= p.to
        BY <1>4, <2>2 DEF Periods, p, Span
      <3>2. b.block.status \in Active
        BY <1>4 DEF Active
      <3>3. ClearOf(d, k, Released(p), drive, shop)
        BY <1>7, <2>2, <3>1, <3>2, JoinedIsClear
      <3> QED
        BY <1>6, <1>10, <2>2, <3>3
    <2> QED
      BY <1>7, <2>1, <2>2
  <1>14. protocol' \in [Keys -> {"none", "out", "in"}]
    BY <1>1 DEF IInv, TypeOK
  <1> QED
    BY <1>1, <1>2, <1>9, <1>11, <1>12, <1>13, <1>14, OneBookingChanges

-----------------------------------------------------------------------------
(* Requests.                                                               *)

Asking == {Idle} \cup [at : {"looked"}, key : Keys, for : Periods, hold : Nat]
                 \cup [at : {"refused"}, key : Keys]

LEMMA AskIs ==
  ASSUME TypeOK, NEW a \in Asks
  PROVE  /\ ask \in [Asks -> Asking] /\ ask[a].at \in {"idle", "looked", "refused"}
         /\ ask[a].at = "looked" => /\ ask[a].key \in Keys /\ ask[a].for \in Periods
                                    /\ ask[a].for.from \in Nat /\ ask[a].for.to \in Nat
                                    /\ ask[a].hold \in Nat
         /\ ask[a].at = "refused" => ask[a].key \in Keys
  <1>1. ask \in [Asks -> Asking] /\ ask[a] \in Asking
    BY DEF TypeOK, Asking
  <1> QED
    BY <1>1 DEF Asking, Idle, Periods

\* A step that changes what one request is at, to something sound, and nothing else.
LEMMA OneAskChanges ==
  ASSUME IInv, NEW a \in Asks, NEW q \in Asking, q.at = "looked" => q.for.from < q.for.to,
         ask' = [ask EXCEPT ![a] = q],
         UNCHANGED <<now, use, unit, protocol, drive, job, shop, fleet, stock>>,
         rental' \in [Keys -> Bookings], BookingsFit(rental)', LedgerOf(rental, drive, shop)'
  PROVE  IInv'
  <1>1. TypeOK'
    BY AskIs DEF IInv, TypeOK, Asking
  <1>2. AskedFits'
    BY AskIs DEF IInv, AskedFits
  <1>3. FleetApart' /\ ShopFits' /\ DriveFits(drive)'
    BY DEF IInv, FleetApart, ShopFits, DriveFits
  <1> QED
    BY <1>1, <1>2, <1>3 DEF IInv

LEMMA NothingGoes ==
  ASSUME IInv, UNCHANGED <<now, rental, drive, shop, fleet>>
  PROVE  rental' \in [Keys -> Bookings] /\ BookingsFit(rental)' /\ LedgerOf(rental, drive, shop)'
  <1>1. OnlyHoldsGo
    BY HoldsGo
  <1> QED
    BY <1>1, OnlyLoosens DEF OnlyHoldsGo

LEMMA LookForKeyKeeps ==
  ASSUME IInv, NEW a \in Asks, NEW k \in Keys, NEW p \in Spans, NEW h \in Holds, LookForKey(a, k, p, h)
  PROVE  IInv'
  <1> DEFINE q == [at |-> "looked", key |-> k, for |-> p, hold |-> h]
  <1>1. p \in Periods /\ p.from < p.to
    BY TimesAreNumbers DEF Spans, Times, Periods
  <1>2. q \in Asking
    BY <1>1, TimesAreNumbers DEF Asking
  <1>3. ask' = [ask EXCEPT ![a] = q] /\ UNCHANGED <<now, use, unit, rental, protocol, drive, job, shop, fleet, stock>>
    BY DEF LookForKey
  <1> QED
    BY <1>1, <1>2, <1>3, NothingGoes, OneAskChanges

LEMMA AnswerKeeps ==
  ASSUME IInv, NEW a \in Asks, Refuse(a) \/ Read(a)
  PROVE  IInv'
  <1>1. PICK q \in Asking : q.at # "looked" /\ ask' = [ask EXCEPT ![a] = q]
    <2>1. Idle \in Asking /\ Idle.at = "idle"
      BY DEF Asking, Idle
    <2>2. CASE Read(a)
      BY <2>1, <2>2 DEF Read
    <2>3. CASE Refuse(a)
      <3>1. [at |-> "refused", key |-> ask[a].key] \in Asking
        BY <2>3, AskIs DEF Refuse, IInv, Asking
      <3>2. Answer(ask[a]) \in Asking /\ Answer(ask[a]).at # "looked"
        BY <2>1, <3>1 DEF Answer
      <3> QED
        BY <2>3, <3>2 DEF Refuse
    <2> QED
      BY <2>2, <2>3
  <1>2. UNCHANGED <<now, use, unit, rental, protocol, drive, job, shop, fleet, stock>>
    BY DEF Refuse, Read
  <1> QED
    BY <1>1, <1>2, NothingGoes, OneAskChanges

\* A booking is made where Free and InFleet found room for it.
LEMMA BookKeeps ==
  ASSUME IInv, NEW a \in Asks, Book(a)
  PROVE  IInv'
  <1> DEFINE q == ask[a]
             k == q.key
             p == Held(q.for)
             r == Released(p)
             s == IF q.hold = 0 THEN "confirmed" ELSE "held"
             n == [state |-> s, from |-> q.for.from, to |-> q.for.to, hold |-> q.hold, out |-> 0,
                   block |-> Block(s, q.for.from, q.for.to + Buffer)]
  <1>1. /\ q.at = "looked" /\ MayBook(q.for) /\ rental' = [r EXCEPT ![k] = n]
        /\ ask' = [ask EXCEPT ![a] = Idle]
        /\ UNCHANGED <<now, use, unit, protocol, drive, job, shop, fleet, stock>>
    BY DEF Book
  <1>2. /\ k \in Keys /\ q.for.from \in Nat /\ q.for.to \in Nat /\ q.hold \in Nat
        /\ q.for.from < q.for.to
    BY <1>1, AskIs DEF IInv, AskedFits
  <1>3. /\ r \in [Keys -> Bookings] /\ \A l \in Keys : Loosened(rental[l], r[l])
    BY ReleasedIs DEF IInv
  <1>4. InFleet(p) /\ Free(p, {}) /\ p.from = q.for.from /\ p.to = q.for.to + Buffer
    BY <1>1 DEF MayBook, Held, Span
  <1> HIDE DEF r, p
  <1>5. rental'[k] = n /\ \A l \in Keys \ {k} : rental'[l] = r[l]
    BY <1>1, <1>2, <1>3
  <1>6. n \in Bookings
    <2>1. n.block \in Blocks
      BY <1>2, TimesAreNumbers DEF Block, Blocks
    <2> QED
      BY <1>2, <2>1 DEF Bookings
  <1>7. rental' \in [Keys -> Bookings]
    BY <1>1, <1>3, <1>6
  <1>8. /\ n.state = s /\ n.from = q.for.from /\ n.to = q.for.to /\ s \in Active /\ n.block.status = s
        /\ n.block.from = p.from /\ n.block.to = p.to
    BY <1>4 DEF Block, Active
  <1> HIDE DEF n
  <1>9. BlockFits(n)
    BY <1>2, <1>4, <1>8, TimesAreNumbers DEF BlockFits, Active
  <1>10. InItsPeriod(n)
    BY <1>4, <1>8 DEF InItsPeriod, InFleet, Within
  <1>11. ClearOf(n.block, k, r, drive, shop)
    BY <1>2, <1>4, <1>8, FreeIsClear DEF r
  <1>12. BookingsFit(rental)' /\ LedgerOf(rental, drive, shop)'
    BY <1>1, <1>2, <1>3, <1>5, <1>9, <1>10, <1>11, OneBookingFits
  <1>13. Idle \in Asking /\ Idle.at # "looked"
    BY DEF Asking, Idle
  <1> QED
    BY <1>1, <1>7, <1>12, <1>13, OneAskChanges

-----------------------------------------------------------------------------
(* Test drives.                                                            *)

DriveRecords == [state : {"none", "asked", "booked", "started", "returned", "cancelled"},
                 cycle : Nat, from : Nat, to : Nat, block : Blocks]

\* A drive's block changes to one clear of the others.
LEMMA OneDriveKeepsApart ==
  ASSUME NEW r, NEW v, NEW u, NEW w, NEW d \in Drives, LedgerOf(r, v, w),
         \A e \in Drives \ {d} : u[e] = v[e],
         \A k \in Keys : Apart(r[k].block, u[d].block),
         \A e \in Drives \ {d} : Apart(u[d].block, v[e].block),
         \A s \in w : Apart(u[d].block, ShopBlock(s))
  PROVE  LedgerOf(r, u, w)
  <1>1. ASSUME NEW e \in Drives, NEW f \in Drives, e # f
        PROVE  Apart(u[e].block, u[f].block)
    <2>1. CASE e = d
      BY <1>1, <2>1
    <2>2. CASE f = d
      <3>1. Apart(u[f].block, u[e].block)
        BY <1>1, <2>2
      <3> QED
        BY <3>1 DEF Apart, Overlap
    <2>3. CASE e # d /\ f # d
      BY <1>1, <2>3 DEF LedgerOf
    <2> QED
      BY <2>1, <2>2, <2>3
  <1>2. \A k \in Keys, e \in Drives : Apart(r[k].block, u[e].block)
    BY DEF LedgerOf
  <1>3. \A e \in Drives, s \in w : Apart(u[e].block, ShopBlock(s))
    BY DEF LedgerOf
  <1> QED
    BY <1>1, <1>2, <1>3 DEF LedgerOf

\* What every step on one drive shows.
LEMMA OneDriveChanges ==
  ASSUME IInv, NEW d \in Drives, NEW n \in DriveRecords, drive' = [drive EXCEPT ![d] = n],
         OnlyHoldsGo, ByDrive,
         n.state = "asked" => n.from < n.to,
         n.block.status \in Active => n.block.from < n.block.to,
         \A k \in Keys : Apart(rental'[k].block, n.block),
         \A e \in Drives \ {d} : Apart(n.block, drive[e].block),
         \A s \in shop : Apart(n.block, ShopBlock(s))
  PROVE  IInv'
  <1>1. UNCHANGED <<now, use, unit, ask, protocol, job, shop, fleet, stock>>
    BY DEF ByDrive
  <1>2. drive \in [Drives -> DriveRecords]
    BY DEF IInv, TypeOK, DriveRecords
  <1>3. drive'[d] = n /\ \A e \in Drives \ {d} : drive'[e] = drive[e]
    BY <1>2
  <1>4. TypeOK'
    BY <1>1, <1>2 DEF IInv, TypeOK, OnlyHoldsGo, DriveRecords
  <1>5. BookingsFit(rental') /\ LedgerOf(rental', drive, shop)
    BY LooseningFits, LooseningKeepsApart DEF IInv, OnlyHoldsGo
  <1>6. LedgerOf(rental', drive', shop)
    BY <1>3, <1>5, OneDriveKeepsApart
  <1>7. BookingsFit(rental)' /\ LedgerOf(rental, drive, shop)'
    BY <1>1, <1>5, <1>6 DEF BookingsFit, BlockFits, InItsPeriod, LedgerOf
  <1>8. DriveFits(drive)'
    BY <1>3 DEF IInv, DriveFits
  <1>9. FleetApart' /\ ShopFits' /\ AskedFits'
    BY <1>1 DEF IInv, FleetApart, ShopFits, AskedFits
  <1> QED
    BY <1>4, <1>7, <1>8, <1>9 DEF IInv

\* A drive whose block goes, or stays the one it had.
LEMMA DriveWithoutRoom ==
  ASSUME IInv, NEW d \in Drives, NEW n \in DriveRecords, drive' = [drive EXCEPT ![d] = n],
         UNCHANGED rental, ByDrive,
         n.state = "asked" => n.from < n.to,
         n.block = drive[d].block \/ n.block.status \notin Active
  PROVE  IInv'
  <1>1. OnlyHoldsGo
    BY HoldsGo
  <1>2. n.block.status \in Active => n.block.from < n.block.to
    BY DEF IInv, DriveFits
  <1>3. \A k \in Keys : Apart(rental'[k].block, n.block)
    BY DEF IInv, LedgerOf, Apart
  <1>4. \A e \in Drives \ {d} : Apart(n.block, drive[e].block)
    BY DEF IInv, LedgerOf, Apart
  <1>5. \A s \in shop : Apart(n.block, ShopBlock(s))
    BY DEF IInv, LedgerOf, Apart
  <1> QED
    BY <1>1, <1>2, <1>3, <1>4, <1>5, OneDriveChanges

LEMMA DriveIs ==
  ASSUME TypeOK, NEW d \in Drives
  PROVE  /\ drive \in [Drives -> DriveRecords] /\ drive[d] \in DriveRecords
         /\ drive[d].from \in Nat /\ drive[d].to \in Nat /\ drive[d].block \in Blocks
  BY DEF TypeOK, DriveRecords

Cycles == [from : Nat, to : Nat, sold : BOOLEAN]

LEMMA StockIs ==
  ASSUME TypeOK
  PROVE  stock \in Seq(Cycles) /\ Len(stock) \in Nat
  <1>1. stock \in Seq(Cycles)
    BY DEF TypeOK, Cycles
  <1> QED
    BY <1>1

LEMMA LookAtCarKeeps ==
  ASSUME IInv, NEW d \in Drives, NEW p \in Spans, LookAtCar(d, p)
  PROVE  IInv'
  <1> DEFINE n == [state |-> "asked", cycle |-> Len(stock), from |-> p.from, to |-> p.to, block |-> NoBlock]
  <1>1. p.from \in Nat /\ p.to \in Nat /\ p.from < p.to
    BY TimesAreNumbers DEF Spans, Times
  <1>2. Len(stock) \in Nat
    BY StockIs DEF IInv
  <1>3. n \in DriveRecords /\ n.block.status \notin Active
    BY <1>1, <1>2 DEF DriveRecords, NoBlock, Block, Blocks, Active
  <1>4. drive' = [drive EXCEPT ![d] = n] /\ UNCHANGED rental /\ ByDrive
    BY DEF LookAtCar
  <1> QED
    BY <1>1, <1>3, <1>4, DriveWithoutRoom

LEMMA RefuseDriveKeeps ==
  ASSUME IInv, NEW d \in Drives, RefuseDrive(d)
  PROVE  IInv'
  <1>1. NoDrive \in DriveRecords /\ NoDrive.state = "none" /\ NoDrive.block.status \notin Active
    BY DEF NoDrive, DriveRecords, NoBlock, Block, Blocks, Active
  <1>2. drive' = [drive EXCEPT ![d] = NoDrive] /\ UNCHANGED rental /\ ByDrive
    BY DEF RefuseDrive
  <1> QED
    BY <1>1, <1>2, DriveWithoutRoom

LEMMA StartDriveKeeps ==
  ASSUME IInv, NEW d \in Drives, StartDrive(d)
  PROVE  IInv'
  <1> DEFINE n == [drive[d] EXCEPT !.state = "started"]
  <1>1. n \in DriveRecords /\ n.state = "started" /\ n.block = drive[d].block
    BY DriveIs DEF IInv, DriveRecords
  <1>2. drive' = [drive EXCEPT ![d] = n] /\ UNCHANGED rental /\ ByDrive
    BY DEF StartDrive
  <1> HIDE DEF n
  <1> QED
    BY <1>1, <1>2, DriveWithoutRoom

\* A drive's block let go, if it was in force.
LEMMA LetGoIs ==
  ASSUME NEW s \in {"none", "held", "confirmed", "released", "expired"}
  PROVE  LetGo(s) \in {"none", "released", "expired"}
  BY DEF LetGo, Active

LEMMA EndDriveKeeps ==
  ASSUME IInv, NEW d \in Drives, EndDrive(d)
  PROVE  IInv'
  <1> DEFINE t == LetGo(drive[d].block.status)
             c == [drive[d].block EXCEPT !.status = t]
  <1>1. drive[d] \in DriveRecords /\ drive[d].block \in Blocks /\ drive \in [Drives -> DriveRecords]
    BY DriveIs DEF IInv
  <1>2. t \in {"none", "released", "expired"}
    BY <1>1, LetGoIs DEF Blocks
  <1>3. c \in Blocks /\ c.status \notin Active
    BY <1>1, <1>2 DEF Blocks, Active
  <1>4. PICK s \in {"returned", "cancelled"} : drive' = [drive EXCEPT ![d].state = s, ![d].block.status = t]
    BY DEF EndDrive
  <1> DEFINE n == [drive[d] EXCEPT !.state = s, !.block = c]
  <1>5. drive' = [drive EXCEPT ![d] = n]
    BY <1>1, <1>4
  <1> HIDE DEF c
  <1>6. n \in DriveRecords /\ n.state = s /\ n.block = c
    BY <1>1, <1>3 DEF DriveRecords
  <1>7. UNCHANGED rental /\ ByDrive
    BY DEF EndDrive
  <1> HIDE DEF n
  <1> QED
    BY <1>3, <1>5, <1>6, <1>7, DriveWithoutRoom

\* A drive is booked where Free found room for it.
LEMMA BookDriveKeeps ==
  ASSUME IInv, NEW d \in Drives, BookDrive(d)
  PROVE  IInv'
  <1> DEFINE p == Span(drive[d].from, drive[d].to)
             c == Block("confirmed", p.from, p.to)
             n == [drive[d] EXCEPT !.state = "booked", !.block = c]
  <1>1. drive[d].state = "asked" /\ Free(p, {}) /\ rental' = Released(p) /\ ByDrive
    BY DEF BookDrive
  <1>2. drive[d] \in DriveRecords /\ drive \in [Drives -> DriveRecords] /\ p \in Periods
    BY DriveIs DEF IInv, Span, Periods
  <1>3. c \in Blocks /\ c.status = "confirmed" /\ c.from = p.from /\ c.to = p.to
    BY <1>2 DEF Block, Blocks, Periods
  <1>4. p.from < p.to
    BY <1>1 DEF IInv, DriveFits, Span
  <1>5. drive' = [drive EXCEPT ![d] = n]
    BY <1>2 DEF BookDrive
  <1> HIDE DEF c, p
  <1>6. n \in DriveRecords /\ n.state = "booked" /\ n.block = c
    BY <1>2, <1>3 DEF DriveRecords
  <1> HIDE DEF n
  <1>7. OnlyHoldsGo
    BY <1>1, <1>2, HoldsGo
  <1>8. \A k \in Keys : Apart(rental'[k].block, c)
    BY <1>1, <1>3, FreeIs DEF Apart, Overlap
  <1>9. \A e \in Drives \ {d} : Apart(c, drive[e].block)
    BY <1>1, <1>3, FreeIs DEF Apart, Overlap
  <1>10. \A s \in shop : Apart(c, ShopBlock(s))
    BY <1>1, <1>3, FreeIs DEF Apart, Overlap, ShopBlock, Block
  <1> QED
    BY <1>1, <1>3, <1>4, <1>5, <1>6, <1>7, <1>8, <1>9, <1>10, OneDriveChanges

-----------------------------------------------------------------------------
(* The workshop's jobs.                                                    *)

ShopRecords == [from : Nat, to : Nat, jobs : SUBSET Jobs]

LEMMA ShopIs ==
  ASSUME IInv
  PROVE  /\ \A s \in shop : /\ s \in ShopRecords /\ s.from \in Nat /\ s.to \in Nat /\ s.from < s.to
                            /\ s.jobs \subseteq Jobs
                            /\ s.to = Open => s.from <= now /\ \E j \in s.jobs : job[j] = "open"
         /\ \A s, t \in shop : s # t => ~Overlap(s, t)
         /\ now \in Nat /\ now < Open /\ Open \in Nat /\ now + 1 < Open
  <1>1. \A s \in shop : s \in ShopRecords
    BY DEF IInv, TypeOK, ShopRecords
  <1>2. now \in Nat /\ now < Open /\ Open \in Nat /\ now + 1 < Open
    BY NowIs, TimesAreNumbers DEF Open, IInv
  <1> QED
    BY <1>1, <1>2 DEF ShopRecords, IInv, ShopFits, LedgerOf

\* There is one block without an end at most: two would overlap.
LEMMA OneOpenShop ==
  ASSUME IInv, NEW s \in OpenShop, NEW t \in OpenShop
  PROVE  s = t
  <1>1. Overlap(s, t)
    BY ShopIs DEF OpenShop, Overlap
  <1> QED
    BY <1>1, ShopIs DEF OpenShop

\* What every step of the workshop on the car shows: its blocks are within
\* those it had, or clear of the rest.
LEMMA ShopKeeps ==
  ASSUME IInv, UNCHANGED <<now, use, unit, ask, protocol, drive, fleet, stock>>,
         job' \in [Jobs -> {"none", "open", "declined", "over"}], OnlyHoldsGo,
         shop' \subseteq ShopRecords, ShopFits',
         \A t, u \in shop' : t # u => ~Overlap(t, u),
         \A t \in shop' : \/ \E s \in shop : Within(t, s)
                          \/ /\ \A k \in Keys : Apart(rental'[k].block, ShopBlock(t))
                             /\ \A d \in Drives : Apart(drive[d].block, ShopBlock(t))
  PROVE  IInv'
  <1>1. BookingsFit(rental)' /\ BookingsFit(rental') /\ LedgerOf(rental', drive, shop)
    <2>1. BookingsFit(rental') /\ LedgerOf(rental', drive, shop)
      BY LooseningFits, LooseningKeepsApart DEF IInv, OnlyHoldsGo
    <2> QED
      BY <2>1 DEF BookingsFit, BlockFits, InItsPeriod
  <1>2. ASSUME NEW t \in shop', NEW s \in shop, Within(t, s), NEW c, c.from \in Nat, c.to \in Nat,
               Apart(c, ShopBlock(s))
        PROVE  Apart(c, ShopBlock(t))
    <2>1. t.from \in Nat /\ t.to \in Nat /\ s.from \in Nat /\ s.to \in Nat
      BY ShopIs DEF ShopRecords
    <2> QED
      BY <1>2, <2>1 DEF Apart, ShopBlock, Block, Within, Overlap, Active
  <1>3. \A k \in Keys : rental'[k].block.from \in Nat /\ rental'[k].block.to \in Nat
    <2>1. \A k \in Keys : rental'[k].block \in Blocks
      BY DEF OnlyHoldsGo, Bookings
    <2> QED
      BY <2>1 DEF Blocks
  <1>4. \A k \in Keys, t \in shop' : Apart(rental'[k].block, ShopBlock(t))
    BY <1>1, <1>2, <1>3 DEF LedgerOf
  <1>5. \A d \in Drives, t \in shop' : Apart(drive[d].block, ShopBlock(t))
    BY <1>1, <1>2, LedgerTimes DEF LedgerOf, IInv
  <1>6. LedgerOf(rental', drive, shop')
    BY <1>1, <1>4, <1>5 DEF LedgerOf
  <1>7. TypeOK'
    BY DEF IInv, TypeOK, OnlyHoldsGo, ShopRecords
  <1>8. FleetApart' /\ AskedFits' /\ DriveFits(drive)'
    BY DEF IInv, FleetApart, AskedFits, DriveFits
  <1>9. LedgerOf(rental, drive, shop)'
    BY <1>6 DEF LedgerOf
  <1> QED
    BY <1>1, <1>7, <1>8, <1>9 DEF IInv

LEMMA HoldsCarKeeps ==
  ASSUME IInv, NEW j \in Jobs, job[j] # "open", job' = [job EXCEPT ![j] = "open"], HoldsCar(j), ByWork
  PROVE  IInv'
  <1>1. /\ UNCHANGED <<now, use, unit, ask, protocol, drive, fleet, stock>>
        /\ job \in [Jobs -> {"none", "open", "declined", "over"}]
        /\ job' \in [Jobs -> {"none", "open", "declined", "over"}]
        /\ \A i \in Jobs : job[i] = "open" => job'[i] = "open"
    BY DEF ByWork, IInv, TypeOK
  <1>2. CASE UNCHANGED <<shop, rental>>
    <2>1. OnlyHoldsGo
      BY <1>2, HoldsGo
    <2>2. shop' \subseteq ShopRecords /\ ShopFits'
      BY <1>1, <1>2, ShopIs DEF ShopFits
    <2>3. \A t \in shop' : t \in shop /\ Within(t, t)
      BY <1>2, ShopIs DEF Within
    <2> QED
      BY <1>1, <1>2, <2>1, <2>2, <2>3, ShopIs, ShopKeeps
  <1>3. ASSUME NEW s \in OpenShop, shop' = (shop \ {s}) \cup {[s EXCEPT !.jobs = @ \cup {j}]}, UNCHANGED rental
        PROVE  IInv'
    <2> DEFINE n == [s EXCEPT !.jobs = @ \cup {j}]
    <2>1. s \in shop /\ s \in ShopRecords /\ s.to = Open
      BY ShopIs DEF OpenShop
    <2>2. n \in ShopRecords /\ n.from = s.from /\ n.to = s.to /\ n.jobs = s.jobs \cup {j}
      BY <2>1 DEF ShopRecords
    <2>3. shop' = (shop \ {s}) \cup {n}
      BY <1>3
    <2> HIDE DEF n
    <2>4. shop' \subseteq ShopRecords
      BY <2>2, <2>3, ShopIs
    <2>5. ShopFits'
      BY <1>1, <2>1, <2>2, <2>3, ShopIs DEF ShopFits
    <2>6. \A t, u \in shop' : t # u => ~Overlap(t, u)
      BY <2>1, <2>2, <2>3, ShopIs DEF Overlap
    <2>7. \A t \in shop' : \E u \in shop : Within(t, u)
      BY <2>1, <2>2, <2>3, ShopIs DEF Within
    <2>8. OnlyHoldsGo
      BY <1>3, HoldsGo
    <2> QED
      BY <1>1, <2>4, <2>5, <2>6, <2>7, <2>8, ShopKeeps
  <1>4. CASE /\ OpenShop = {} /\ Free(Ahead, {}) /\ rental' = Released(Ahead)
             /\ shop' = shop \cup {[from |-> now, to |-> Open, jobs |-> {j}]}
    <2> DEFINE n == [from |-> now, to |-> Open, jobs |-> {j}]
    <2>1. n \in ShopRecords /\ n.from = now /\ n.to = Open /\ n.jobs = {j}
      BY ShopIs DEF ShopRecords
    <2>2. shop' = shop \cup {n}
      BY <1>4
    <2> HIDE DEF n
    <2>3. Ahead \in Periods /\ Ahead.from = now /\ Ahead.to = Open
      BY ShopIs DEF Ahead, Span, Periods
    <2>4. OnlyHoldsGo
      BY <1>4, <2>3, HoldsGo
    <2>5. \A s \in shop : ~Overlap(s, n)
      BY <1>4, <2>1, <2>3, FreeIs DEF Overlap
    <2>6. shop' \subseteq ShopRecords
      BY <2>1, <2>2, ShopIs
    <2>7. job'[j] = "open"
      BY <1>1
    <2>8. ShopFits'
      BY <1>1, <2>1, <2>2, <2>7, ShopIs DEF ShopFits
    <2>9. \A t, u \in shop' : t # u => ~Overlap(t, u)
      BY <2>2, <2>5, ShopIs DEF Overlap
    <2>10. /\ \A k \in Keys : Apart(rental'[k].block, ShopBlock(n))
           /\ \A d \in Drives : Apart(drive[d].block, ShopBlock(n))
      BY <1>4, <2>1, <2>3, FreeIs DEF Apart, Overlap, ShopBlock, Block
    <2>11. \A s \in shop : Within(s, s)
      BY ShopIs DEF Within
    <2> QED
      BY <1>1, <2>2, <2>4, <2>6, <2>8, <2>9, <2>10, <2>11, ShopKeeps
  <1> QED
    BY <1>2, <1>3, <1>4 DEF HoldsCar

\* A block of the workshop as a job leaves: it ends, or stays what it was.
EndsNow(s, j) == s.to = Open /\ EndsWith(s, j)
LeftBy(s, j) == IF EndsNow(s, j) THEN [s EXCEPT !.to = IF s.from < now THEN now ELSE s.from + 1] ELSE s

LEMMA LeftIs ==
  ASSUME IInv, NEW j \in Jobs, NEW s \in shop
  PROVE  /\ LeftBy(s, j) \in ShopRecords /\ LeftBy(s, j).from = s.from
         /\ LeftBy(s, j).from < LeftBy(s, j).to /\ LeftBy(s, j).to <= s.to
         /\ LeftBy(s, j).to = Open => LeftBy(s, j) = s /\ ~EndsNow(s, j)
  <1> DEFINE at == IF s.from < now THEN now ELSE s.from + 1
  <1>1. /\ s \in ShopRecords /\ s.from \in Nat /\ s.to \in Nat /\ s.from < s.to /\ now \in Nat
        /\ now + 1 < Open /\ Open \in Nat /\ (s.to = Open => s.from <= now)
    BY ShopIs
  <1>2. CASE EndsNow(s, j)
    <2>1. at \in Nat /\ s.from < at /\ at < Open /\ s.to = Open
      BY <1>1, <1>2 DEF EndsNow
    <2>2. LeftBy(s, j) = [s EXCEPT !.to = at]
      BY <1>2 DEF LeftBy
    <2> HIDE DEF at
    <2>3. /\ [s EXCEPT !.to = at] \in ShopRecords /\ [s EXCEPT !.to = at].from = s.from
          /\ [s EXCEPT !.to = at].to = at
      BY <1>1, <2>1 DEF ShopRecords
    <2> QED
      BY <1>1, <2>1, <2>2, <2>3
  <1>3. CASE ~EndsNow(s, j)
    BY <1>1, <1>3 DEF LeftBy
  <1> QED
    BY <1>2, <1>3

LEMMA LeaveJobKeeps ==
  ASSUME IInv, NEW j \in Jobs, NEW as \in {"declined", "over"}, LeaveJob(j, as)
  PROVE  IInv'
  <1>1. /\ UNCHANGED <<now, use, unit, ask, protocol, drive, fleet, stock>> /\ UNCHANGED rental
        /\ job[j] = "open" /\ job \in [Jobs -> {"none", "open", "declined", "over"}]
        /\ job' \in [Jobs -> {"none", "open", "declined", "over"}]
        /\ \A i \in Jobs \ {j} : job'[i] = job[i]
        /\ shop' = {LeftBy(s, j) : s \in shop}
    BY DEF LeaveJob, LeftBy, EndsNow, ByWork, IInv, TypeOK
  <1>2. ASSUME NEW s \in shop
        PROVE  /\ LeftBy(s, j) \in ShopRecords /\ LeftBy(s, j).from = s.from
               /\ LeftBy(s, j).from < LeftBy(s, j).to /\ LeftBy(s, j).to <= s.to
               /\ LeftBy(s, j).to = Open => LeftBy(s, j) = s /\ ~EndsNow(s, j)
    BY LeftIs
  <1>3. shop' \subseteq ShopRecords
    BY <1>1, <1>2
  <1>4. \A t \in shop' : \E s \in shop : Within(t, s)
    BY <1>1, <1>2, ShopIs DEF Within, ShopRecords
  <1>5. \A t, u \in shop' : t # u => ~Overlap(t, u)
    <2> SUFFICES ASSUME NEW s \in shop, NEW t \in shop, LeftBy(s, j) # LeftBy(t, j) PROVE ~Overlap(LeftBy(s, j), LeftBy(t, j))
      BY <1>1
    <2>1. ~Overlap(s, t)
      BY ShopIs
    <2>2. /\ s.from \in Nat /\ s.to \in Nat /\ t.from \in Nat /\ t.to \in Nat
          /\ LeftBy(s, j).to \in Nat /\ LeftBy(t, j).to \in Nat
      BY <1>2, ShopIs DEF ShopRecords
    <2> QED
      BY <1>2, <2>1, <2>2 DEF Overlap
  <1>6. ShopFits'
    <2> SUFFICES ASSUME NEW s \in shop
                 PROVE  /\ LeftBy(s, j).from < LeftBy(s, j).to
                        /\ LeftBy(s, j).to = Open => LeftBy(s, j).from <= now /\ \E i \in LeftBy(s, j).jobs : job'[i] = "open"
      BY <1>1 DEF ShopFits, Open
    <2>1. LeftBy(s, j).from < LeftBy(s, j).to
      BY <1>2
    <2> SUFFICES ASSUME LeftBy(s, j).to = Open
                 PROVE  LeftBy(s, j).from <= now /\ \E i \in LeftBy(s, j).jobs : job'[i] = "open"
      BY <2>1
    <2>2. LeftBy(s, j) = s /\ ~EndsNow(s, j) /\ s.to = Open
      BY <1>2
    <2>3. s.from <= now /\ s.jobs \subseteq Jobs
      BY <2>2, ShopIs
    <2>4. \E i \in s.jobs : job[i] = "open" /\ i # j
      BY <2>2, ShopIs DEF EndsNow, EndsWith
    <2> QED
      BY <1>1, <2>2, <2>3, <2>4
  <1>7. OnlyHoldsGo
    BY <1>1, HoldsGo
  <1> QED
    BY <1>1, <1>3, <1>4, <1>5, <1>6, <1>7, ShopKeeps

-----------------------------------------------------------------------------
(* The fleet, stock and the time.                                          *)

LEMMA MomentIs ==
  ASSUME NEW t \in Times
  PROVE  t \in Nat /\ t <= End /\ t < Open /\ Open \in Nat /\ Buffer \in Nat /\ End \in Nat
  BY TimesAreNumbers DEF Times, Open

\* Time does not go back, and the car is a resource or none.
Onward == now' \in Times /\ now <= now'
Kinds  == use' \in {"none", "in use", "retired"} /\ unit' \in BOOLEAN

LEMMA NotOnward ==
  ASSUME TypeOK, UNCHANGED now
  PROVE  Onward
  <1>1. now \in Times
    BY DEF TypeOK
  <1> QED
    BY <1>1, MomentIs DEF Onward

LEMMA SameKinds ==
  ASSUME TypeOK, UNCHANGED <<use, unit>>
  PROVE  Kinds
  BY DEF TypeOK, Kinds

\* What every other step shows: bookings stay within periods in the fleet.
LEMMA OtherKeeps ==
  ASSUME IInv, OnlyHoldsGo, UNCHANGED <<ask, protocol, drive, job, shop>>,
         Onward, Kinds, stock' \in Seq(Cycles),
         fleet' \subseteq Periods, FleetApart',
         \A k \in Keys : InItsPeriod(rental[k]) /\
           rental'[k].state \in {"held", "confirmed", "out"} /\ rental'[k].block.status \in Active =>
             \E m \in fleet' : Within(rental'[k].block, m)
  PROVE  IInv'
  <1>1. now \in Nat /\ now' \in Nat /\ Buffer \in Nat /\ now <= now'
    BY NowIs, MomentIs DEF IInv, Onward
  <1>2. rental' \in [Keys -> Bookings] /\ BookingsFit(rental') /\ LedgerOf(rental', drive, shop)
    BY LooseningFits, LooseningKeepsApart DEF IInv, OnlyHoldsGo
  <1>3. LedgerOf(rental, drive, shop)'
    BY <1>2 DEF LedgerOf
  <1>4. BookingsFit(rental)'
    <2> SUFFICES ASSUME NEW k \in Keys PROVE BlockFits(rental[k])' /\ InItsPeriod(rental[k])'
      BY DEF BookingsFit
    <2>1. BlockFits(rental'[k]) /\ rental'[k].block.to \in Nat
      BY <1>2 DEF BookingsFit, Bookings, Blocks
    <2>2. BlockFits(rental[k])'
      <3>1. rental'[k].block.to <= now + Buffer => rental'[k].block.to <= now' + Buffer
        BY <1>1, <2>1
      <3> QED
        BY <2>1, <3>1 DEF BlockFits
    <2>3. InItsPeriod(rental[k])'
      BY DEF InItsPeriod, IInv, BookingsFit
    <2> QED
      BY <2>2, <2>3
  <1>5. TypeOK'
    BY <1>2 DEF IInv, TypeOK, Cycles, Onward, Kinds
  <1>6. ShopFits'
    <2>1. \A s \in shop : s.from \in Nat /\ (s.from <= now => s.from <= now')
      BY <1>1, ShopIs
    <2> QED
      BY <2>1 DEF IInv, ShopFits, Open
  <1>7. AskedFits' /\ DriveFits(drive)'
    BY DEF IInv, AskedFits, DriveFits
  <1> QED
    BY <1>3, <1>4, <1>5, <1>6, <1>7 DEF IInv

\* ... of which most leave the fleet as it is.
LEMMA SameFleetKeeps ==
  ASSUME IInv, OnlyHoldsGo, UNCHANGED <<ask, protocol, drive, job, shop, fleet>>,
         Onward, Kinds, stock' \in Seq(Cycles)
  PROVE  IInv'
  <1>1. fleet' \subseteq Periods /\ FleetApart'
    BY DEF IInv, TypeOK, FleetApart
  <1>2. \A k \in Keys : InItsPeriod(rental'[k])
    BY LooseningFits DEF IInv, OnlyHoldsGo, BookingsFit
  <1> QED
    BY <1>1, <1>2, OtherKeeps DEF InItsPeriod

LEMMA TickKeeps ==
  ASSUME IInv, Tick
  PROVE  IInv'
  <1>1. /\ now < End /\ now' = now + 1
        /\ UNCHANGED <<use, unit, rental, ask, protocol, drive, job, shop, fleet, stock>>
    BY DEF Tick, rents
  <1>2. Onward
    BY <1>1, NowIs, TimesAreNumbers DEF IInv, Onward, Times
  <1>3. OnlyHoldsGo /\ Kinds /\ stock' \in Seq(Cycles)
    BY <1>1, HoldsGo, SameKinds, StockIs DEF IInv
  <1> QED
    BY <1>1, <1>2, <1>3, SameFleetKeeps

LEMMA AddUnitKeeps ==
  ASSUME IInv, AddUnit
  PROVE  IInv'
  <1>1. /\ Kinds
        /\ UNCHANGED <<now, rental, ask, protocol, drive, job, shop, fleet, stock>>
    BY DEF AddUnit, IInv, TypeOK, Kinds, rents
  <1> QED
    BY <1>1, NotOnward, HoldsGo, SameFleetKeeps, StockIs DEF IInv

LEMMA TakeInKeeps ==
  ASSUME IInv, TakeIn
  PROVE  IInv'
  <1> DEFINE c == [from |-> now, to |-> Open, sold |-> FALSE]
  <1>1. /\ Kinds
        /\ UNCHANGED <<now, rental, ask, protocol, drive, job, shop, fleet>>
    BY DEF TakeIn, BringIntoUse, IInv, TypeOK, Kinds, rents
  <1>2. c \in Cycles /\ stock' = Append(stock, c)
    BY NowIs, TimesAreNumbers DEF TakeIn, IInv, Cycles, Open
  <1> HIDE DEF c
  <1>3. stock' \in Seq(Cycles)
    BY <1>2, StockIs DEF IInv
  <1> QED
    BY <1>1, <1>3, NotOnward, HoldsGo, SameFleetKeeps DEF IInv

\* One cycle in stock, with its end or its sale changed.
LEMMA CycleChanges ==
  ASSUME TypeOK, NEW i \in DOMAIN stock, NEW c \in Cycles
  PROVE  [stock EXCEPT ![i] = c] \in Seq(Cycles)
  BY StockIs

LEMMA CurrentCycle ==
  ASSUME TypeOK, InStock
  PROVE  Len(stock) \in DOMAIN stock /\ stock[Len(stock)] \in Cycles
  BY StockIs DEF InStock, Current

LEMMA SellKeeps ==
  ASSUME IInv, Sell
  PROVE  IInv'
  <1> DEFINE i == Len(stock)
             c == [stock[i] EXCEPT !.sold = ~@]
  <1>1. /\ Kinds
        /\ UNCHANGED <<now, rental, ask, protocol, drive, job, shop, fleet>>
    BY DEF Sell, IInv, TypeOK, Kinds, rents
  <1>2. i \in DOMAIN stock /\ stock[i] \in Cycles /\ stock \in Seq(Cycles)
    BY CurrentCycle, StockIs DEF Sell, IInv
  <1>3. stock' = [stock EXCEPT ![i] = c]
    BY <1>2 DEF Sell
  <1>4. c \in Cycles
    BY <1>2 DEF Cycles
  <1> HIDE DEF c, i
  <1>5. stock' \in Seq(Cycles)
    BY <1>2, <1>3, <1>4, CycleChanges DEF IInv
  <1> QED
    BY <1>1, <1>5, NotOnward, HoldsGo, SameFleetKeeps DEF IInv

LEMMA EndCycleKeeps ==
  ASSUME IInv, EndCycle
  PROVE  IInv'
  <1> DEFINE i == Len(stock)
             c == [stock[i] EXCEPT !.to = now]
  <1>1. /\ Kinds
        /\ UNCHANGED <<now, ask, protocol, drive, job, shop, fleet>>
        /\ rental' = rental \/ rental' = Released(Ahead)
    BY DEF EndCycle, TakeOutOfUse, IInv, TypeOK, Kinds
  <1>2. i \in DOMAIN stock /\ stock[i] \in Cycles /\ stock \in Seq(Cycles)
    BY CurrentCycle, StockIs DEF EndCycle, IInv
  <1>3. stock' = [stock EXCEPT ![i] = c]
    BY <1>2 DEF EndCycle
  <1>4. c \in Cycles
    BY <1>2, NowIs DEF Cycles, IInv
  <1> HIDE DEF c, i
  <1>5. stock' \in Seq(Cycles)
    BY <1>2, <1>3, <1>4, CycleChanges DEF IInv
  <1>6. Ahead \in Periods
    BY ShopIs DEF Ahead, Span, Periods
  <1> QED
    BY <1>1, <1>5, <1>6, NotOnward, HoldsGo, SameFleetKeeps DEF IInv

\* A period that begins is apart from those there are, so bookings stay in theirs.
LEMMA JoinFleetKeeps ==
  ASSUME IInv, NEW from \in Times, JoinFleet(from)
  PROVE  IInv'
  <1> DEFINE p == Span(from, Open)
  <1>1. /\ Kinds
        /\ UNCHANGED <<now, rental, ask, protocol, drive, job, shop, stock>>
        /\ fleet' = fleet \cup {p} /\ \A m \in fleet : ~Overlap(m, p)
    BY DEF JoinFleet, BringIntoUse, IInv, TypeOK, Kinds, rents
  <1>2. p \in Periods
    BY TimesAreNumbers DEF Span, Periods, Times, Open
  <1> HIDE DEF p
  <1>3. fleet' \subseteq Periods
    BY <1>1, <1>2 DEF IInv, TypeOK
  <1>4. FleetApart'
    BY <1>1 DEF IInv, FleetApart, Overlap
  <1>5. OnlyHoldsGo
    BY <1>1, HoldsGo
  <1>6. stock' \in Seq(Cycles)
    BY <1>1, StockIs DEF IInv
  <1> QED
    BY <1>1, <1>3, <1>4, <1>5, <1>6, NotOnward, OtherKeeps DEF InItsPeriod, IInv

\* A period ends where nothing that is booked goes on: what was in it still is.
LEMMA LeaveFleetKeeps ==
  ASSUME IInv, NEW m \in fleet, NEW at \in Times, LeaveFleet(m, at)
  PROVE  IInv'
  <1> DEFINE p == Span(at, Open)
             n == Span(m.from, at)
  <1>1. /\ Kinds
        /\ UNCHANGED <<now, ask, protocol, drive, job, shop, stock>>
        /\ fleet' = (fleet \ {m}) \cup {n} /\ m.to = Open /\ m.from < at
        /\ rental' = Released(p) /\ \A k \in Keys : rental'[k].block.status \in Active => rental'[k].block.to <= at
    BY DEF LeaveFleet, RentalBlocks, IInv, TypeOK, Kinds
  <1>2. /\ p \in Periods /\ n \in Periods /\ n.from = m.from /\ n.to = at /\ at \in Nat /\ at < Open /\ Open \in Nat
        /\ m.from \in Nat
    BY MomentIs DEF Span, Periods, IInv, TypeOK
  <1> HIDE DEF p, n
  <1>3. fleet' \subseteq Periods
    BY <1>1, <1>2 DEF IInv, TypeOK
  <1>4. FleetApart'
    <2>1. \A l \in fleet : l.from \in Nat /\ l.to \in Nat
      BY DEF IInv, TypeOK, Periods
    <2>2. ASSUME NEW l \in fleet, l # m
          PROVE  ~Overlap(l, n) /\ ~Overlap(n, l)
      <3>1. ~Overlap(l, m)
        BY <2>2 DEF IInv, FleetApart
      <3> QED
        BY <1>1, <1>2, <2>1, <3>1 DEF Overlap
    <2> QED
      BY <1>1, <2>2 DEF IInv, FleetApart
  <1>5. OnlyHoldsGo
    BY <1>1, <1>2, HoldsGo
  <1>6. stock' \in Seq(Cycles)
    BY <1>1, StockIs DEF IInv
  <1>7. ASSUME NEW k \in Keys, rental'[k].state \in {"held", "confirmed", "out"}, rental'[k].block.status \in Active
        PROVE  \E l \in fleet' : Within(rental'[k].block, l)
    <2>1. PICK l \in fleet : Within(rental'[k].block, l)
      <3>1. BookingsFit(rental')
        BY <1>5, LooseningFits DEF IInv, OnlyHoldsGo
      <3> QED
        BY <1>7, <3>1 DEF BookingsFit, InItsPeriod
    <2>2. CASE l = m
      BY <1>1, <1>2, <1>7, <2>1, <2>2 DEF Within
    <2> QED
      BY <1>1, <2>1, <2>2
  <1> QED
    BY <1>1, <1>3, <1>4, <1>5, <1>6, <1>7, NotOnward, OtherKeeps DEF IInv

-----------------------------------------------------------------------------
(* The invariant, and what follows from it.                                *)

LEMMA InitFits ==
  ASSUME Init
  PROVE  IInv
  <1>1. /\ NoBlock \in Blocks /\ NoBlock.status \notin Active /\ NoBlock.status = "none"
        /\ NoBooking \in Bookings /\ NoBooking.state = "none" /\ NoBooking.block = NoBlock
        /\ NoDrive \in DriveRecords /\ NoDrive.state = "none" /\ NoDrive.block = NoBlock
    BY DEF NoBlock, Block, Blocks, NoBooking, Bookings, NoDrive, DriveRecords, Active
  <1>2. /\ \A k \in Keys : rental[k] = NoBooking
        /\ \A d \in Drives : drive[d] = NoDrive
        /\ \A a \in Asks : ask[a].at = "idle"
    BY DEF Init, Idle
  <1>3. TypeOK
    <2>1. now \in Times
      BY TimesAreNumbers DEF Init, Times
    <2>2. stock \in Seq([from : Nat, to : Nat, sold : BOOLEAN])
      BY DEF Init
    <2> QED
      BY <1>1, <2>1, <2>2 DEF Init, TypeOK, DriveRecords, Idle
  <1>4. BookingsFit(rental)
    BY <1>1, <1>2 DEF BookingsFit, BlockFits, InItsPeriod
  <1>5. LedgerOf(rental, drive, shop)
    BY <1>1, <1>2 DEF Init, LedgerOf, Apart
  <1>6. FleetApart /\ ShopFits
    BY DEF Init, FleetApart, ShopFits
  <1>7. AskedFits /\ DriveFits(drive)
    BY <1>1, <1>2 DEF AskedFits, DriveFits
  <1> QED
    BY <1>3, <1>4, <1>5, <1>6, <1>7 DEF IInv

LEMMA UnchangedKeeps ==
  ASSUME IInv, UNCHANGED vars
  PROVE  IInv'
  <1>1. UNCHANGED <<now, use, unit, rental, ask, protocol, drive, job, shop, fleet, stock>>
    BY DEF vars, rents
  <1> QED
    BY <1>1, NotOnward, SameKinds, HoldsGo, StockIs, SameFleetKeeps DEF IInv

LEMMA NextKeeps ==
  ASSUME IInv, [Next]_vars
  PROVE  IInv'
  <1>1. CASE Tick
    BY <1>1, TickKeeps
  <1>2. CASE Fleets
    BY <1>2, AddUnitKeeps, JoinFleetKeeps, LeaveFleetKeeps DEF Fleets
  <1>3. CASE Stocks
    BY <1>3, TakeInKeeps, SellKeeps, EndCycleKeeps DEF Stocks
  <1>4. CASE Works
    <2>1. PICK j \in Jobs : OpenJob(j) \/ BillDeclined(j) \/ \E as \in {"declined", "over"} : LeaveJob(j, as)
      BY <1>4 DEF Works
    <2>2. CASE OpenJob(j)
      BY <2>2, HoldsCarKeeps DEF OpenJob
    <2>3. CASE BillDeclined(j)
      BY <2>3, HoldsCarKeeps DEF BillDeclined
    <2> QED
      BY <2>1, <2>2, <2>3, LeaveJobKeeps
  <1>5. CASE Requests
    BY <1>5, LookForKeyKeeps, BookKeeps, AnswerKeeps DEF Requests
  <1>6. CASE Rentals
    BY <1>6, ConfirmKeeps, CancelKeeps, MoveKeeps, ExtendKeeps, StartHandoverKeeps,
       AbandonHandoverKeeps, GoOutKeeps, ComeBackKeeps DEF Rentals
  <1>7. CASE TestDrives
    BY <1>7, LookAtCarKeeps, BookDriveKeeps, RefuseDriveKeeps, StartDriveKeeps, EndDriveKeeps DEF TestDrives
  <1>8. CASE UNCHANGED vars
    BY <1>8, UnchangedKeeps
  <1> QED
    BY <1>1, <1>2, <1>3, <1>4, <1>5, <1>6, <1>7, <1>8 DEF Next

\* What the ledger says, its bookings, its blocks and the fleet fit together
\* after any number of steps of anyone (IInv): the invariant the results below
\* are read off.
THEOREM LedgerFits == Spec => []IInv
  <1>1. Init => IInv
    BY InitFits
  <1>2. IInv /\ [Next]_vars => IInv'
    BY NextKeeps
  <1> QED
    BY <1>1, <1>2, PTL DEF Spec

\* Every piece of the ledger's state is of its kind, always.
THEOREM TypeIsCorrect == Spec => []TypeOK
  <1>1. IInv => TypeOK
    BY DEF IInv
  <1> QED
    BY <1>1, LedgerFits, PTL

\* Nothing the car is taken for overlaps anything else it is taken for, always:
\* the transactions of rentals, drives and the workshop see to it under the
\* resource's lock, and resource_blocks_no_overlap (0070) never has to refuse.
THEOREM NothingOverlaps == Spec => []NoOverlap
  <1>1. ASSUME IInv PROVE NoOverlap
    <2> SUFFICES ASSUME NEW t \in Taken, NEW u \in Taken, t.block.status \in Active,
                        u.block.status \in Active, t.of # u.of
                 PROVE  ~Overlap(t.block, u.block)
      BY DEF NoOverlap
    <2> DEFINE R(k) == [of |-> <<"rental", k>>, block |-> rental[k].block]
               D(d) == [of |-> <<"drive", d>>, block |-> drive[d].block]
               S(s) == [of |-> <<"shop", s.from, s.jobs>>, block |-> Block("confirmed", s.from, s.to)]
    <2>1. \A x \in Taken : \/ \E k \in Keys : x = R(k)
                           \/ \E d \in Drives : x = D(d)
                           \/ \E s \in shop : x = S(s)
      BY DEF Taken
    <2>2. \A k \in Keys : R(k).of = <<"rental", k>> /\ R(k).block = rental[k].block
      OBVIOUS
    <2>3. \A d \in Drives : D(d).of = <<"drive", d>> /\ D(d).block = drive[d].block
      OBVIOUS
    <2>4. \A s \in shop : S(s).of = <<"shop", s.from, s.jobs>> /\ S(s).block = ShopBlock(s)
      BY DEF ShopBlock
    <2> HIDE DEF R, D, S
    <2>5. LedgerOf(rental, drive, shop)
      BY <1>1 DEF IInv
    <2>6. \A x, y : Apart(x, y) => Apart(y, x)
      BY DEF Apart, Overlap
    <2>7. \A s, r \in shop : s # r => Apart(ShopBlock(s), ShopBlock(r))
      BY <2>5 DEF LedgerOf, Apart, ShopBlock, Block, Overlap
    <2>8. CASE \E k \in Keys : t = R(k)
      BY <2>1, <2>2, <2>3, <2>4, <2>5, <2>8 DEF LedgerOf, Apart
    <2>9. CASE \E d \in Drives : t = D(d)
      BY <2>1, <2>2, <2>3, <2>4, <2>5, <2>6, <2>9 DEF LedgerOf, Apart
    <2>10. CASE \E s \in shop : t = S(s)
      BY <2>1, <2>2, <2>3, <2>4, <2>5, <2>6, <2>7, <2>10 DEF LedgerOf, Apart
    <2> QED
      BY <2>1, <2>8, <2>9, <2>10
  <1> QED
    BY <1>1, LedgerFits, PTL

\* A booking's block is where its booking is, through moves, extensions and
\* handovers, and within a period of the fleet for as long as the car is kept
\* for it, always.
THEOREM BlocksAndBookingsAgree == Spec => []BlocksAreTrue
  <1>1. ASSUME IInv, NEW k \in Keys
        PROVE  /\ rental[k] \in Bookings /\ rental[k].block \in Blocks
               /\ BlockFits(rental[k]) /\ InItsPeriod(rental[k])
    BY <1>1, BookingIs DEF IInv, BookingsFit
  <1>2. ASSUME IInv, NEW k \in Keys, State(k) \in Active
        PROVE  State(k) = rental[k].state /\ rental[k].block.status = State(k)
    BY <1>1, <1>2 DEF State, BlockFits, Active, Bookings
  <1>3. ASSUME IInv PROVE BlockFollowsBooking
    <2> SUFFICES ASSUME NEW k \in Keys
                 PROVE  LET b == rental[k] IN
                          /\ State(k) \in Active => b.block = Block(State(k), b.from, b.to + Buffer)
                          /\ b.state = "out" => /\ b.block.status = "confirmed" /\ b.block.to = b.to + Buffer
                                                /\ b.block.from = IF b.out < b.from THEN b.out ELSE b.from
                          /\ b.state \in {"cancelled", "no_show"} => b.block.status \notin Active
                          /\ b.state = "returned" /\ b.block.status \in Active => b.block.to <= now + Buffer
      BY DEF BlockFollowsBooking
    <2> DEFINE b == rental[k]
    <2>1. /\ b.state = "out" => /\ b.block.status = "confirmed" /\ b.block.to = b.to + Buffer
                                /\ b.block.from = IF b.out < b.from THEN b.out ELSE b.from
          /\ b.state \in {"cancelled", "no_show"} => b.block.status \notin Active
          /\ b.state = "returned" /\ b.block.status \in Active => b.block.to <= now + Buffer
      BY <1>1, <1>3 DEF BlockFits
    <2>2. ASSUME State(k) \in Active
          PROVE  b.block = Block(State(k), b.from, b.to + Buffer)
      <3>1. b.state \in {"held", "confirmed"} /\ b.block.status = State(k)
        BY <1>2, <1>3, <2>2 DEF Active
      <3>2. b.block.from = b.from /\ b.block.to = b.to + Buffer
        BY <1>1, <1>3, <3>1 DEF BlockFits
      <3> QED
        BY <1>1, <1>3, <3>1, <3>2 DEF Block, Blocks
    <2> QED
      BY <2>1, <2>2
  <1>4. ASSUME IInv PROVE RentedWithinFleet
    <2> SUFFICES ASSUME NEW k \in Keys, State(k) \in Active \cup {"out"}
                 PROVE  \E m \in fleet : Within(rental[k].block, m)
      BY DEF RentedWithinFleet
    <2>1. rental[k].state \in {"held", "confirmed", "out"} /\ rental[k].block.status \in Active
      <3>1. CASE State(k) \in Active
        BY <1>2, <1>4, <3>1 DEF Active
      <3>2. CASE State(k) = "out"
        BY <1>1, <1>4, <3>2 DEF State, BlockFits, Active
      <3> QED
        BY <3>1, <3>2
    <2> QED
      BY <1>1, <1>4, <2>1 DEF InItsPeriod
  <1>5. IInv => BlocksAreTrue
    BY <1>3, <1>4 DEF BlocksAreTrue
  <1> QED
    BY <1>5, LedgerFits, PTL

\* Rentals and drives leave the requests and the workshop as they are.
LEMMA RentalsLeave ==
  ASSUME Rentals
  PROVE  UNCHANGED <<ask, job, shop>>
  <1>1. PICK k \in Keys : \/ Confirm(k) \/ Cancel(k)
                          \/ \E t \in Times : Move(k, t) \/ Extend(k, t)
                          \/ \E kind \in {"out", "in"} : StartHandover(k, kind)
                          \/ AbandonHandover(k) \/ GoOut(k) \/ ComeBack(k)
    BY DEF Rentals
  <1>2. ByRental
    <2>1. Confirm(k) \/ Cancel(k) \/ AbandonHandover(k) => ByRental
      BY DEF Confirm, Cancel, AbandonHandover
    <2>2. (\E t \in Times : Move(k, t) \/ Extend(k, t)) => ByRental
      BY DEF Move, Extend
    <2>3. (\E kind \in {"out", "in"} : StartHandover(k, kind)) => ByRental
      BY DEF StartHandover
    <2>4. GoOut(k) \/ ComeBack(k) => ByRental
      BY DEF GoOut, ComeBack
    <2> QED
      BY <1>1, <2>1, <2>2, <2>3, <2>4
  <1> QED
    BY <1>2 DEF ByRental

LEMMA DrivesLeave ==
  ASSUME TestDrives
  PROVE  UNCHANGED <<ask, job, shop>>
  <1>1. ByDrive
    BY DEF TestDrives, LookAtCar, BookDrive, RefuseDrive, StartDrive, EndDrive
  <1> QED
    BY <1>1 DEF ByDrive

\* A rental's request sent again is never told that the car is taken once it
\* has made its booking: only Refuse answers so, and looks for the key first.
THEOREM RetriesFindTheirBooking == Spec => RetryFindsItsBooking
  <1> DEFINE Told == \A a \in Asks : ask'[a].at = "refused" /\ ask[a].at # "refused"
                                       => rental[ask[a].key].state = "none"
  <1>1. ASSUME TypeOK, [Next]_vars PROVE Told
    <2> SUFFICES ASSUME NEW a \in Asks, ask'[a].at = "refused", ask[a].at # "refused"
                 PROVE  rental[ask[a].key].state = "none"
      OBVIOUS
    <2>1. ask' # ask
      OBVIOUS
    <2>2. Requests
      <3>1. Fleets \/ Tick => UNCHANGED ask
        BY DEF Fleets, AddUnit, JoinFleet, LeaveFleet, Tick, rents
      <3>2. Stocks => UNCHANGED ask
        BY DEF Stocks, TakeIn, Sell, EndCycle, rents
      <3>3. Works => UNCHANGED ask
        BY DEF Works, OpenJob, BillDeclined, LeaveJob, ByWork
      <3>4. Rentals => UNCHANGED ask
        BY RentalsLeave
      <3>5. TestDrives => UNCHANGED ask
        BY DrivesLeave
      <3>6. UNCHANGED vars => UNCHANGED ask
        BY DEF vars, rents
      <3> QED
        BY <1>1, <2>1, <3>1, <3>2, <3>3, <3>4, <3>5, <3>6 DEF Next
    <2>3. PICK i \in Asks : (\E k \in Keys, p \in Spans, h \in Holds : LookForKey(i, k, p, h))
                              \/ Book(i) \/ Refuse(i) \/ Read(i)
      BY <2>2 DEF Requests
    <2>4. DOMAIN ask = Asks
      BY <1>1 DEF TypeOK
    <2>5. CASE \E k \in Keys, p \in Spans, h \in Holds : LookForKey(i, k, p, h)
      BY <2>4, <2>5 DEF LookForKey
    <2>6. CASE Book(i)
      BY <2>4, <2>6 DEF Book, Idle
    <2>7. CASE Read(i)
      BY <2>4, <2>7 DEF Read, Idle
    <2>8. CASE Refuse(i)
      <3>1. ask' = [ask EXCEPT ![i] = Answer(ask[i])]
        BY <2>8 DEF Refuse
      <3>2. a = i
        BY <2>4, <3>1
      <3>3. Answer(ask[a]).at = "refused"
        BY <2>4, <3>1, <3>2
      <3> QED
        BY <3>3 DEF Answer, Idle
    <2> QED
      BY <2>3, <2>5, <2>6, <2>7, <2>8
  <1>2. TypeOK /\ [Next]_vars => [Told]_vars
    BY <1>1
  <1> QED
    BY <1>2, TypeIsCorrect, PTL DEF Spec, RetryFindsItsBooking

\* What a step does to the block s that has no end: it ends as its jobs are over.
EndsWithItsJobs(s) ==
  (\E j \in s.jobs : job'[j] = "open")
    <=> \E t \in shop' : t.from = s.from /\ t.to = Open /\ s.jobs \subseteq t.jobs

LEMMA HoldingKeepsOpen ==
  ASSUME IInv, NEW j \in Jobs, job[j] # "open", job' = [job EXCEPT ![j] = "open"], HoldsCar(j),
         NEW s \in OpenShop
  PROVE  EndsWithItsJobs(s)
  <1>1. s \in shop /\ s \in ShopRecords /\ s.to = Open /\ s.jobs \subseteq Jobs /\ \E i \in s.jobs : job[i] = "open"
    BY ShopIs DEF OpenShop
  <1>2. \E i \in s.jobs : job'[i] = "open"
    BY <1>1 DEF IInv, TypeOK
  <1>3. CASE UNCHANGED shop
    BY <1>1, <1>2, <1>3 DEF EndsWithItsJobs
  <1>4. ASSUME NEW u \in OpenShop, shop' = (shop \ {u}) \cup {[u EXCEPT !.jobs = @ \cup {j}]}
        PROVE  EndsWithItsJobs(s)
    <2> DEFINE n == [u EXCEPT !.jobs = @ \cup {j}]
    <2>1. u = s
      BY OneOpenShop
    <2>2. n.from = s.from /\ n.to = Open /\ s.jobs \subseteq n.jobs /\ n \in shop'
      BY <1>1, <1>4, <2>1 DEF ShopRecords
    <2> QED
      BY <1>2, <2>2 DEF EndsWithItsJobs
  <1> QED
    BY <1>3, <1>4 DEF HoldsCar

LEMMA LeavingEndsWithTheLast ==
  ASSUME IInv, NEW j \in Jobs, NEW as \in {"declined", "over"}, LeaveJob(j, as), NEW s \in OpenShop
  PROVE  EndsWithItsJobs(s)
  <1>1. s \in shop /\ s.to = Open /\ s.jobs \subseteq Jobs /\ \E i \in s.jobs : job[i] = "open"
    BY ShopIs DEF OpenShop
  <1>2. /\ shop' = {LeftBy(t, j) : t \in shop} /\ job'[j] = as /\ \A i \in Jobs \ {j} : job'[i] = job[i]
    BY DEF LeaveJob, LeftBy, EndsNow, IInv, TypeOK
  <1>3. CASE EndsNow(s, j)
    <2>1. ~ \E i \in s.jobs : job'[i] = "open"
      BY <1>1, <1>2, <1>3 DEF EndsNow, EndsWith
    <2>2. \A t \in shop' : t.to # Open
      <3> SUFFICES ASSUME NEW u \in shop, LeftBy(u, j).to = Open PROVE FALSE
        BY <1>2
      <3>1. LeftBy(u, j) = u /\ ~EndsNow(u, j)
        BY LeftIs
      <3>2. u = s
        BY <3>1, OneOpenShop DEF OpenShop
      <3> QED
        BY <1>3, <3>1, <3>2
    <2> QED
      BY <2>1, <2>2 DEF EndsWithItsJobs
  <1>4. CASE ~EndsNow(s, j)
    <2>1. s \in shop'
      BY <1>1, <1>2, <1>4 DEF LeftBy
    <2>2. \E i \in s.jobs : i # j /\ job[i] = "open"
      BY <1>1, <1>4 DEF EndsNow, EndsWith
    <2> QED
      BY <1>1, <1>2, <2>1, <2>2 DEF EndsWithItsJobs
  <1> QED
    BY <1>3, <1>4

\* The workshop's block of the car ends with the last of the jobs that share it,
\* whichever leaves last and however it leaves: not while one of them is open,
\* and no later.  That there is one such block rests on nothing overlapping.
THEOREM ShopEndsWithItsLastJob == Spec => ShopUntilTheLastJob
  <1> DEFINE A == \A s \in OpenShop :
                    (\E j \in s.jobs : job'[j] = "open")
                      <=> \E t \in shop' : t.from = s.from /\ t.to = Open /\ s.jobs \subseteq t.jobs
  <1>1. ASSUME IInv, Next PROVE A
    <2> SUFFICES ASSUME NEW s \in OpenShop PROVE EndsWithItsJobs(s)
      BY DEF EndsWithItsJobs
    <2>1. CASE Works
      <3>1. PICK j \in Jobs : OpenJob(j) \/ BillDeclined(j) \/ \E as \in {"declined", "over"} : LeaveJob(j, as)
        BY <2>1 DEF Works
      <3>2. CASE OpenJob(j)
        BY <1>1, <3>2, HoldingKeepsOpen DEF OpenJob
      <3>3. CASE BillDeclined(j)
        BY <1>1, <3>3, HoldingKeepsOpen DEF BillDeclined
      <3> QED
        BY <1>1, <3>1, <3>2, <3>3, LeavingEndsWithTheLast
    <2>2. CASE ~Works
      <3>1. UNCHANGED <<job, shop>>
        <4>1. Fleets \/ Tick => UNCHANGED <<job, shop>>
          BY DEF Fleets, AddUnit, JoinFleet, LeaveFleet, Tick
        <4>2. Stocks => UNCHANGED <<job, shop>>
          BY DEF Stocks, TakeIn, Sell, EndCycle
        <4>3. Requests => UNCHANGED <<job, shop>>
          BY DEF Requests, LookForKey, Book, Refuse, Read
        <4> QED
          BY <1>1, <2>2, <4>1, <4>2, <4>3, RentalsLeave, DrivesLeave DEF Next
      <3>2. s \in shop /\ s.to = Open /\ \E i \in s.jobs : job[i] = "open"
        BY <1>1, ShopIs DEF OpenShop
      <3> QED
        BY <3>1, <3>2 DEF EndsWithItsJobs
    <2> QED
      BY <2>1, <2>2
  <1>2. IInv /\ [Next]_vars => [A]_vars
    BY <1>1
  <1> QED
    BY <1>2, LedgerFits, PTL DEF Spec, ShopUntilTheLastJob

=============================================================================
